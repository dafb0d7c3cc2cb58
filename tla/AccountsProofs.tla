----------------------------- MODULE AccountsProofs -----------------------------
(***************************************************************************)
(* Proofs about module Accounts: SecretsEndTogether, NamesHold,            *)
(* PushesEndWithTheSession and CodesHold, for any number of requests.      *)
(*                                                                         *)
(* A request stands at a place, and remembers what it has read in seen;    *)
(* an invariant says for each family of places what that is worth by       *)
(* now.  A step of one family leaves the places of the others alone        *)
(* (Elsewhere).                                                            *)
(***************************************************************************)
EXTENDS Accounts, FiniteSetTheorems, WellFoundedInduction, TLAPS

(* What a request remembers has the form it has in NoSight. *)
IsSight(s) ==
    /\ s = [row |-> s.row, user |-> s.user, entry |-> s.entry, n |-> s.n, name |-> s.name, set |-> s.set]
    /\ s.row \in Nat /\ s.entry \in Nat /\ s.n \in Nat
    /\ s.user \in Users \cup {Nothing} /\ s.name \in Names \cup {Nothing}

Pauses == [full : BOOLEAN, shows : Settings]
Mails == (Emails \cup {Nothing}) \X {"code", "challenge"} \X Nat

(* The types, with those of the variables that TypeOK leaves out. *)
RequestsTyped ==
    /\ plot \in Plots
    /\ pc = [r \in plot.requests |-> pc[r]]
    /\ seen = [r \in plot.requests |-> seen[r]]
    /\ \A r \in plot.requests : IsSight(seen[r])

CodesTyped ==
    /\ code \in Seq(CodeRows) /\ mailed \subseteq Mails
    /\ begun \subseteq Nat \X Nat \X Nat /\ accepted \subseteq Nat \X Nat

TablesTyped ==
    /\ account \in [Users -> Accounts_]
    /\ challenge \in Seq(ChallengeRows) /\ adminSession \in Seq(AdminSessionRows)
    /\ device \in Seq(DeviceRows)
    /\ signedIn \subseteq Users \X Sessions
    /\ \A m \in There : picture[m] \in PictureRows
    /\ appealing \subseteq Users /\ suspect \subseteq Users /\ behind \subseteq Servers
    /\ settings \in Settings /\ clock \in Times /\ pauses \in [Servers -> Pauses]
    /\ profile = [u \in Users |-> profile[u]] /\ renames \in [Users -> Nat]

CodePlaces == {"find", "discard", "insert", "refind", "claim", "latest", "send", "mark", "look", "enter", "change"}
AdminPlaces == {"guarded", "expire", "addressed", "make", "open", "miss", "close", "elevate", "verify"}
PausePlaces == {"fill pauses", "drop pauses"}
UserPlaces == {"invalidate", "fill", "rename", "picture", "leave"}
DevicePlaces == {"register", "check", "push", "disable", "sweep"}

(* A code of a user is of an account that there is, and of its password. *)
CodesSound ==
    \A c \in DOMAIN code :
        /\ code[c].user = Nothing <=> code[c].type = "REGISTRATION"
        /\ code[c].user # Nothing => account[code[c].user].state # "none"
        /\ code[c].live /\ code[c].user # Nothing => code[c].password = account[code[c].user].password

(* What the requests for a code know: whom it is for, the row, and that  *)
(* it was taken by the mail server.                                      *)
Asking_ == {"find", "discard", "insert", "refind", "claim", "latest", "send", "mark"}
AsksFor(r) ==
    \/ r.op = "requestCode" /\ seen[r].user = Nothing
    \/ /\ r.op = "forgotPassword" /\ seen[r].user \in Users
       /\ account[seen[r].user].state # "none"
    \/ r.op = "requestChangeEmailCode" /\ pc[r] \in {"send", "mark"}
RowOf(r) ==
    /\ seen[r].row \in DOMAIN code
    /\ IF r.op = "forgotPassword"
       THEN code[seen[r].row].type = "PASSWORD_RESET" /\ code[seen[r].row].user = seen[r].user
       ELSE code[seen[r].row].email = r.email
Enters(r) ==
    /\ r.op \in Entering
    /\ IF r.op = "resetPassword" THEN seen[r].user \in Users ELSE seen[r].user = r.user
    /\ pc[r] = "enter" =>
         /\ seen[r].row \in DOMAIN code
         /\ seen[r].entry # 0 => <<r.mailbox, "code", seen[r].entry>> \in mailed
CodeSight(r) ==
    /\ r.op = "forgotPassword" /\ pc[r] = "new" => seen[r].user = Nothing
    /\ pc[r] \in Asking_ => AsksFor(r)
    /\ pc[r] \in {"discard", "claim", "latest", "send", "mark"} => RowOf(r)
    /\ pc[r] = "mark" => <<seen[r].row, seen[r].n>> \in accepted
    /\ pc[r] \in {"look", "enter"} => Enters(r)
CodeSights == \A r \in plot.requests : CodeSight(r)

(* A code is mailed to its address, or to one the account had before. *)
MailsSound ==
    \A m \in mailed : m[2] = "code" =>
        /\ m[1] \in Emails /\ m[3] \in DOMAIN code
        /\ m[1] = code[m[3]].email \/ (code[m[3]].type = "PASSWORD_RESET" /\ WasAsked(m[1], m[3]))

(* The minutes in which a code was mailed are over when the next begins. *)
Spaced ==
    /\ \A x \in begun : x[1] \in DOMAIN code /\ x[2] <= code[x[1]].attempt
    /\ MailIsSpaced

(* What has been confirmed cannot be confirmed again. *)
Confirmations ==
    /\ \A x \in confirmed :
         /\ x.code \in DOMAIN code /\ ~code[x.code].live
         /\ x.op = "resetPassword" => code[x.code].user # Nothing
         /\ \E e \in Emails :
              /\ <<e, "code", x.code>> \in mailed
              /\ e = x.address \/ (x.op = "resetPassword" /\ WasAsked(e, x.code))
    /\ \A x, y \in confirmed : x.code = y.code => x = y

MissesAt(what, x) == {m \in misses : m[2] = what /\ m[3] = x}

(* Who has missed has been refused, and cannot miss again. *)
Counts ==
    /\ IsFiniteSet(misses)
    /\ \A m \in misses :
         /\ m[2] = "code" => m[3] \in DOMAIN code
         /\ \A r \in plot.requests : r.id = m[1] => pc[r] = "refused"
    /\ \A c \in Rows :
         code[c].wrong = Cardinality(MissesAt("code", c)) /\ code[c].wrong < MaxTries
    /\ \A u \in Users : account[u].wrong = Cardinality(MissesAt("password", u))

(* Accounts, their pictures and their terminals. *)
AccountsSound ==
    \A u \in Users :
        /\ account[u].state = "live" => account[u].email \in Emails
        /\ account[u].state = "none" => account[u].wrong = 0
        /\ PicturesOf(account[u]) \subseteq There
TerminalsSound == \A x, y \in signedIn : x[1] = y[1] => x = y
DevicesSound == \A i, j \in Devices : i # j => device[i].token # device[j].token /\ TerminalOf(i) # TerminalOf(j)

(* A challenge of the user's, for the purpose, that somebody has read. *)
Proven(h, u, purpose) ==
    /\ h \in ChallengesOf(u, purpose)
    /\ \E e \in Emails : <<e, "challenge", h>> \in mailed

AdminSessionsSound ==
    \A s \in DOMAIN adminSession :
        LET row == adminSession[s]
        IN  /\ row.proof # 0 => Proven(row.proof, row.user, "LOGIN")
            /\ row.step # 0 => Proven(row.step, row.user, "STEP_UP")
            /\ row.elevated => row.step # 0
            /\ \A t \in DOMAIN adminSession :
                 row.live /\ adminSession[t].live /\ adminSession[t].user = row.user => s = t

(* What the requests of administrators know. *)
AdminSight(r) ==
    /\ pc[r] = "guarded" => seen[r].row \in AdminSessionsOf(r.user)
    /\ pc[r] = "expire" => seen[r].row \in DOMAIN adminSession
    /\ pc[r] \in {"addressed", "make"} => \E e \in Emails \cup {Nothing} : seen[r].set = {e}
    /\ pc[r] = "open" =>
         /\ seen[r].row \in DOMAIN challenge
         /\ Proven(seen[r].row, challenge[seen[r].row].user, "LOGIN")
    /\ pc[r] \in {"miss", "close"} => seen[r].row \in DOMAIN challenge
    /\ pc[r] = "elevate" =>
         seen[r].row \in AdminSessionsOf(r.user) /\ Proven(seen[r].entry, r.user, "STEP_UP")
AdminSights == \A r \in plot.requests : AdminSight(r)

(* The name changes once, and what is cached of a profile is the profile. *)
RenamesSound ==
    /\ \A u \in Users :
         /\ renames[u] = IF account[u].renamed THEN 1 ELSE 0
         /\ account[u].state = "none" => ~account[u].renamed
    /\ \A r \in plot.requests : pc[r] = "rename" => account[r.user].state # "none"
Dropping(u) == \E r \in plot.requests : r.user = u /\ pc[r] = "invalidate"
ProfilesSound ==
    /\ \A r \in plot.requests : pc[r] = "fill" =>
         /\ account[r.user].state # "none"
         /\ r.user \in suspect \/ seen[r].set = {Profile(r.user)}
    /\ \A u \in Users : profile[u].full =>
         /\ account[u].state # "none"
         /\ u \in suspect \/ Dropping(u) \/ profile[u].shows = Profile(u)

(* What is cached of the switches is what they are, or is known to be late. *)
PausesSound ==
    /\ \A r \in plot.requests : pc[r] = "fill pauses" =>
         \E s \in Settings : seen[r].set = {s} /\ (r.server \notin behind => s = settings)
    /\ PausesTakeHold

(* A terminal that has yet to begin has no device, and one that has      *)
(* ended does not begin again.                                           *)
NotYet(x) == \E q \in plot.requests : q.op = "login" /\ pc[q] = "new" /\ <<q.user, q.session>> = x
Aims(r, d) ==
    /\ d \in DeviceRows /\ seen[r].set = {d} /\ d.user = r.user
    /\ ~NotYet(<<d.user, d.session>>)
    /\ seen[r].entry = 1 => pc[r] # "push" /\ <<d.user, d.session>> \notin signedIn
TerminalsBegin ==
    /\ \A x \in signedIn : ~NotYet(x)
    /\ \A i \in DOMAIN device : ~NotYet(TerminalOf(i))
    /\ \A r \in plot.requests :
         pc[r] = "register" => r.op = "register" /\ r.session \in Sessions /\ ~NotYet(<<r.user, r.session>>)
PushesSound ==
    /\ \A r \in plot.requests : pc[r] \in {"check", "push", "disable"} =>
         r.op = "push" /\ seen[r].row \in DOMAIN device
    /\ \A r \in plot.requests : pc[r] \in {"check", "push"} => \E d \in seen[r].set : Aims(r, d)
    /\ PushesEndWithTheSession

IInv ==
    /\ RequestsTyped /\ CodesTyped /\ TablesTyped
    /\ CodesSound /\ CodeSights /\ MailsSound /\ Spaced /\ Confirmations /\ Counts
    /\ AccountsSound /\ TerminalsSound /\ DevicesSound
    /\ AdminSessionsSound /\ AdminSights
    /\ RenamesSound /\ ProfilesSound /\ PausesSound
    /\ TerminalsBegin /\ PushesSound

-------------------------------------------------------------------------------
(* Finite sets of integers *)

(* Max is the maximum: a finite set of integers has one. *)
LEMMA MaxOfFinite ==
    ASSUME NEW S \in SUBSET Int, IsFiniteSet(S), S # {}
    PROVE  Max(S) \in S /\ \A x \in S : Max(S) >= x
<1> DEFINE From(x) == {y \in S : y >= x}
           F == {From(x) : x \in S}
<1> HIDE DEF F
<1>1. F \subseteq FiniteSubsetsOf(S) /\ F # {}
  <2>1. FiniteSubsetsOf(S) = SUBSET S
    BY FS_FiniteSubsetsOfFinite
  <2>2. \A x \in S : From(x) \in SUBSET S /\ From(x) \in F
    BY DEF F
  <2>3. F \subseteq SUBSET S
    BY DEF F
  <2> HIDE DEF F, From
  <2> QED BY <2>1, <2>2, <2>3
<1>2. PICK T \in F : \A U \in F : ~(<<U, T>> \in StrictSubsetOrdering(S))
  <2>1. IsWellFoundedOn(StrictSubsetOrdering(S), FiniteSubsetsOf(S))
    BY FS_StrictSubsetOrderingWellFounded
  <2> QED BY <1>1, <2>1, WFMin
<1>3. PICK x \in S : T = From(x)
  BY <1>2 DEF F
<1>4. \A y \in S : x >= y
  <2>1. SUFFICES ASSUME NEW y \in S, y > x PROVE FALSE
    OBVIOUS
  <2>2. From(y) \subseteq From(x) /\ x \in From(x) /\ x \notin From(y)
    <3>1. x \in Int /\ y \in Int /\ \A z \in S : z \in Int
      OBVIOUS
    <3>2. \A z \in Int : z >= y => z >= x
      BY <2>1, <3>1
    <3>3. From(y) \subseteq From(x)
      BY <3>1, <3>2, Zenon
    <3>4. x \in From(x) /\ x \notin From(y)
      BY <2>1, <3>1
    <3> QED BY <3>3, <3>4
  <2>3. <<From(y), T>> \in StrictSubsetOrdering(S)
    BY <1>3, <2>2 DEF StrictSubsetOrdering
  <2> QED BY <1>2, <2>3 DEF F
<1> QED BY <1>4 DEF Max

-------------------------------------------------------------------------------
(* Steps *)

(* Plots are in order. *)
LEMMA Plotted ==
    ASSUME plot \in Plots
    PROVE  TablesStart(plot) /\ CodesStart(plot) /\ RequestsStart(plot)
  BY AccountsAssumption

(* A request goes from one place to another, and remembers s from now on. *)
Step(r, from, to, s) ==
    /\ plot' = plot /\ r \in plot.requests
    /\ pc[r] = from /\ pc' = [pc EXCEPT ![r] = to]
    /\ seen' = [seen EXCEPT ![r] = s]

(* Nobody comes to one of these places, nobody leaves one. *)
Elsewhere(P) ==
    /\ plot' = plot
    /\ \A q \in plot.requests : pc[q] \in P \/ pc'[q] \in P => pc'[q] = pc[q] /\ seen'[q] = seen[q]

LEMMA StepsAreElsewhere ==
    ASSUME RequestsTyped, NEW r, NEW from, NEW to, NEW s, NEW P, Step(r, from, to, s), from \notin P, to \notin P
    PROVE  Elsewhere(P)
  BY DEF RequestsTyped, Step, Elsewhere

LEMMA StepsAreTyped ==
    ASSUME RequestsTyped, NEW r, NEW from, NEW to, NEW s, Step(r, from, to, s), IsSight(s)
    PROVE  RequestsTyped'
<1>1. \A q \in plot.requests : seen'[q] = IF q = r THEN s ELSE seen[q]
  BY DEF RequestsTyped, Step
<1>2. \A q \in plot.requests : IsSight(seen'[q])
  BY <1>1 DEF RequestsTyped
<1>3. seen' = [q \in plot.requests |-> seen'[q]]
  BY DEF RequestsTyped, Step
<1>4. (\A q \in plot.requests : IsSight(seen[q]))' <=> \A q \in plot'.requests : IsSight(seen'[q])
  BY DEF IsSight
<1> QED BY <1>2, <1>3, <1>4 DEF RequestsTyped, Step

(* From one of these places to one of those; a sight stays a sight. *)
Moves(r, F, T) == \E from \in F, to \in T : \E s : IsSight(s) /\ Step(r, from, to, s)

LEMMA PlacesMove ==
    ASSUME RequestsTyped, NEW r \in plot.requests, NEW F, NEW T, NEW to \in T, pc[r] \in F,
           Place(r, to), UNCHANGED seen
    PROVE  Moves(r, F, T)
  BY DEF RequestsTyped, Moves, Step, Place

LEMMA GoesMove ==
    ASSUME NEW r \in plot.requests, NEW F, NEW T, NEW to \in T, NEW s, pc[r] \in F,
           Goes(r, to, s), IsSight(s)
    PROVE  Moves(r, F, T)
  BY DEF Moves, Step, Goes, Place

LEMMA ReadsMove ==
    ASSUME NEW r \in plot.requests, NEW F, NEW T, NEW to \in T, NEW s, pc[r] \in F,
           Reads(r, to, s), IsSight(s)
    PROVE  Moves(r, F, T)
  BY GoesMove DEF Reads

LEMMA EndsMove ==
    ASSUME RequestsTyped, NEW r \in plot.requests, NEW F, NEW T, pc[r] \in F, {"done", "refused"} \subseteq T,
           Done(r) \/ Answered(r) \/ Ends(r) \/ Refused(r)
    PROVE  Moves(r, F, T)
  BY PlacesMove DEF Done, Answered, Ends, Refused

LEMMA NoSightIsSight == IsSight(NoSight)
  BY DEF IsSight, NoSight

LEMMA SightsChange ==
    ASSUME NEW s, IsSight(s), NEW row \in Nat, NEW n \in Nat, NEW entry \in Nat,
           NEW u \in Users \cup {Nothing}, NEW name \in Names \cup {Nothing}, NEW S
    PROVE  /\ IsSight([s EXCEPT !.row = row]) /\ IsSight([s EXCEPT !.user = u]) /\ IsSight([s EXCEPT !.set = S])
           /\ IsSight([s EXCEPT !.entry = entry]) /\ IsSight([s EXCEPT !.n = n]) /\ IsSight([s EXCEPT !.name = name])
           /\ IsSight([s EXCEPT !.row = row, !.n = n]) /\ IsSight([s EXCEPT !.row = row, !.n = n, !.entry = entry])
           /\ IsSight([s EXCEPT !.row = row, !.entry = entry, !.n = n])
           /\ IsSight([s EXCEPT !.row = row, !.set = S, !.entry = entry])
<1>1. \A t : IsSight(t) =>
        /\ IsSight([t EXCEPT !.row = row]) /\ IsSight([t EXCEPT !.user = u]) /\ IsSight([t EXCEPT !.set = S])
        /\ IsSight([t EXCEPT !.entry = entry]) /\ IsSight([t EXCEPT !.n = n])
        /\ IsSight([t EXCEPT !.name = name])
  BY DEF IsSight
<1>2. \A t, x, y : IsSight(t) => [t EXCEPT !.row = x, !.n = y] = [[t EXCEPT !.row = x] EXCEPT !.n = y]
  OBVIOUS
<1>3. \A t, x, y, z : IsSight(t) =>
        /\ [t EXCEPT !.row = x, !.n = y, !.entry = z] = [[[t EXCEPT !.row = x] EXCEPT !.n = y] EXCEPT !.entry = z]
        /\ [t EXCEPT !.row = x, !.entry = z, !.n = y] = [[[t EXCEPT !.row = x] EXCEPT !.entry = z] EXCEPT !.n = y]
        /\ [t EXCEPT !.row = x, !.set = y, !.entry = z] = [[[t EXCEPT !.row = x] EXCEPT !.set = y] EXCEPT !.entry = z]
  OBVIOUS
<1>4. IsSight([s EXCEPT !.row = row, !.n = n])
  BY <1>1, <1>2
<1>5. IsSight([s EXCEPT !.row = row, !.n = n, !.entry = entry])
  BY <1>1, <1>3
<1>6. IsSight([s EXCEPT !.row = row, !.entry = entry, !.n = n])
  BY <1>1, <1>3
<1>7. IsSight([s EXCEPT !.row = row, !.set = S, !.entry = entry])
  BY <1>1, <1>3
<1> QED BY <1>1, <1>4, <1>5, <1>6, <1>7

LEMMA Chosen == ASSUME NEW S, S # {} PROVE Only(S) \in S
  BY DEF Only

LEMMA RowsAreTyped ==
    ASSUME CodesTyped
    PROVE  /\ \A c \in DOMAIN code : c \in Nat /\ code[c] \in CodeRows
           /\ Rows \subseteq DOMAIN code /\ Len(code) + 1 \in Nat
           /\ \A c \in DOMAIN code : code[c].wrong \in Nat /\ code[c].minute \in Nat /\ code[c].attempt \in Nat
<1>1. \A c \in DOMAIN code : c \in Nat /\ code[c] \in CodeRows
  BY DEF CodesTyped
<1>2. \A row \in CodeRows : row.wrong \in Nat /\ row.minute \in Nat /\ row.attempt \in Nat
  BY DEF CodeRows
<1>3. Rows \subseteq DOMAIN code /\ Len(code) + 1 \in Nat
  BY DEF CodesTyped, Rows
<1> QED BY <1>1, <1>2, <1>3

Ended == {"done", "refused"}
CodeOps == {"requestCode", "forgotPassword", "requestChangeEmailCode", "changePassword"} \cup Entering

LEMMA CodeMoves ==
    ASSUME RequestsTyped, CodesTyped, CodeSights, NEW r \in plot.requests, CodeActions(r)
    PROVE  /\ Moves(r, {"new"} \cup CodePlaces, Ended \cup CodePlaces)
           /\ pc[r] = "new" => r.op \in CodeOps
<1> DEFINE F == {"new"} \cup CodePlaces
           T == Ended \cup CodePlaces
<1>0. IsSight(seen[r]) /\ IsSight(NoSight) /\ r \in Commands
  BY NoSightIsSight, Plotted DEF RequestsTyped, RequestsStart
<1>1. CASE requestCode(r)
  <2>1. pc[r] \in F /\ (pc[r] = "new" => r.op \in CodeOps)
    BY <1>1 DEF requestCode, Arrives, Stands, At, Passes, CodePlaces, CodeOps, Entering
  <2> QED BY <1>0, <1>1, <2>1, EndsMove, ReadsMove, GoesMove, PlacesMove DEF requestCode, CodePlaces, Ended,
         ToSend, Renewed, Answered, Refused
<1>2. CASE forgotPassword(r)
  <2>1. pc[r] \in F /\ (pc[r] = "new" => r.op \in CodeOps)
    BY <1>2 DEF forgotPassword, Arrives, Stands, At, Passes, CodePlaces, CodeOps, Entering
  <2> DEFINE us == {u \in Holders(r.email) : Live(u)}
  <2>2. us # {} => IsSight([NoSight EXCEPT !.user = Only(us)])
    <3>1. us \subseteq Users
      BY DEF Holders
    <3> HIDE DEF us
    <3> QED BY <1>0, <3>1, Chosen, SightsChange, Zenon
  <2>3. Answered(r) \/ (us # {} /\ Reads(r, "find", [NoSight EXCEPT !.user = Only(us)]))
    BY <1>2 DEF forgotPassword
  <2> HIDE DEF us
  <2> QED BY <2>1, <2>2, <2>3, EndsMove, ReadsMove, Zenon DEF CodePlaces, Ended
<1>3. CASE findCode(r)
  <2>1. pc[r] \in F /\ (pc[r] = "new" => r.op \in CodeOps)
    BY <1>3 DEF findCode, Arrives, Stands, At, Passes, CodePlaces, CodeOps, Entering
  <2> DEFINE found == Found(TypeOf(r), seen[r].user, r.email)
             sight == [seen[r] EXCEPT !.row = Only(found), !.n = code[Only(found)].minute,
                                      !.entry = code[Only(found)].attempt]
  <2>2. found # {} => IsSight(sight)
    <3>1. found \subseteq DOMAIN code
      BY DEF Found, Rows
    <3> HIDE DEF found
    <3> QED BY <1>0, <3>1, Chosen, SightsChange, RowsAreTyped, Zenon
  <2>3. Reads(r, "insert", seen[r]) \/ (found # {} /\ \E to \in {"claim", "discard"} : Reads(r, to, sight))
    BY <1>3 DEF findCode
  <2> HIDE DEF found, sight
  <2> QED BY <1>0, <2>1, <2>2, <2>3, ReadsMove, Zenon DEF CodePlaces
<1>4. CASE discard(r)
  <2>1. pc[r] \in F /\ (pc[r] = "new" => r.op \in CodeOps)
    BY <1>4 DEF discard, Arrives, Stands, At, Passes, CodePlaces, CodeOps, Entering
  <2> QED BY <1>0, <1>4, <2>1, EndsMove, ReadsMove, GoesMove, PlacesMove DEF discard, CodePlaces, Ended, ToSend,
         Renewed, Answered, Refused
<1>5. CASE insert(r)
  <2>1. pc[r] \in F /\ (pc[r] = "new" => r.op \in CodeOps)
    BY <1>5 DEF insert, Arrives, Stands, At, Passes, CodePlaces, CodeOps, Entering
  <2>2. IsSight([seen[r] EXCEPT !.row = Len(code) + 1, !.n = 1])
    BY <1>0, SightsChange, RowsAreTyped, Zenon
  <2> QED BY <1>0, <1>5, <2>1, <2>2, ReadsMove, GoesMove DEF insert, ToSend, CodePlaces
<1>6. CASE refind(r)
  <2>1. pc[r] \in F /\ (pc[r] = "new" => r.op \in CodeOps)
    BY <1>6, Zenon DEF refind, Arrives, Stands, At, Passes, CodePlaces, CodeOps, Entering
  <2> DEFINE found == Found(TypeOf(r), seen[r].user, r.email)
  <2>2. found # {} => IsSight([seen[r] EXCEPT !.row = Only(found)])
    <3>1. found \subseteq DOMAIN code
      BY DEF Found, Rows
    <3> HIDE DEF found
    <3> QED BY <1>0, <3>1, Chosen, SightsChange, RowsAreTyped, Zenon
  <2>3. Refused(r) \/ (found # {} /\ Reads(r, "claim", [seen[r] EXCEPT !.row = Only(found)]))
    BY <1>6 DEF refind
  <2> HIDE DEF found
  <2> QED BY <2>1, <2>2, <2>3, EndsMove, ReadsMove DEF CodePlaces, Ended
<1>7. CASE claimExisting(r)
  <2>1. pc[r] \in F /\ (pc[r] = "new" => r.op \in CodeOps)
    BY <1>7 DEF claimExisting, Arrives, Stands, At, Passes, CodePlaces, CodeOps, Entering
  <2> DEFINE c == seen[r].row
  <2>2. c \in DOMAIN code => IsSight([seen[r] EXCEPT !.row = c, !.n = code[c].minute])
    BY <1>0, SightsChange, RowsAreTyped, Zenon
  <2>3. c \in DOMAIN code
    BY <1>7 DEF claimExisting, Stands, CodeSights, CodeSight, RowOf
  <2>4. Reads(r, "latest", seen[r]) \/ ToSend(r, c, code[c].minute)
    BY <1>7 DEF claimExisting
  <2> QED BY <1>0, <2>1, <2>2, <2>3, <2>4, ReadsMove, GoesMove, Zenon DEF ToSend, CodePlaces
<1>8. CASE readLatest(r)
  <2>1. pc[r] \in F /\ (pc[r] = "new" => r.op \in CodeOps)
    BY <1>8 DEF readLatest, Arrives, Stands, At, Passes, CodePlaces, CodeOps, Entering
  <2> QED BY <1>0, <1>8, <2>1, EndsMove, ReadsMove, GoesMove, PlacesMove DEF readLatest, CodePlaces, Ended, ToSend,
         Renewed, Answered, Refused
<1>9. CASE sendSafely(r)
  <2>1. pc[r] \in F /\ (pc[r] = "new" => r.op \in CodeOps)
    BY <1>9 DEF sendSafely, Arrives, Stands, At, Passes, CodePlaces, CodeOps, Entering
  <2> QED BY <1>0, <1>9, <2>1, EndsMove, ReadsMove, GoesMove, PlacesMove DEF sendSafely, CodePlaces, Ended, ToSend,
         Renewed, Answered, Refused
<1>10. CASE markDelivered(r)
  <2>1. pc[r] \in F /\ (pc[r] = "new" => r.op \in CodeOps)
    BY <1>10 DEF markDelivered, Arrives, Stands, At, Passes, CodePlaces, CodeOps, Entering
  <2> QED BY <1>0, <1>10, <2>1, EndsMove, ReadsMove, GoesMove, PlacesMove DEF markDelivered, CodePlaces, Ended,
         ToSend, Renewed, Answered, Refused
<1>11. CASE requestChangeEmailCode(r)
  <2>1. pc[r] \in F /\ (pc[r] = "new" => r.op \in CodeOps)
    BY <1>11, Zenon DEF requestChangeEmailCode, Arrives, Stands, At, Passes, CodePlaces, CodeOps, Entering
  <2> DEFINE old == Found("CHANGE_EMAIL", r.user, r.email)
             reused == {c \in old : code[c].fresh /\ code[c].email = r.email}
             c == Only(reused)
  <2>2. IsSight([seen[r] EXCEPT !.row = Len(code) + 1, !.n = 1])
    BY <1>0, SightsChange, RowsAreTyped, Zenon
  <2>3. reused # {} => IsSight([seen[r] EXCEPT !.row = c, !.n = code[c].minute])
    <3>1. reused \subseteq DOMAIN code
      BY DEF Found, Rows
    <3> HIDE DEF reused
    <3> QED BY <1>0, <3>1, Chosen, SightsChange, RowsAreTyped, Zenon
  <2>4. \/ Refused(r) \/ Answered(r) \/ ToSend(r, Len(code) + 1, 1)
        \/ reused # {} /\ ToSend(r, c, code[c].minute)
    BY <1>11 DEF requestChangeEmailCode
  <2> HIDE DEF old, reused, c
  <2> QED BY <2>1, <2>2, <2>3, <2>4, EndsMove, GoesMove DEF ToSend, CodePlaces, Ended
<1>12. CASE findAccount(r)
  <2>1. pc[r] \in F /\ (pc[r] = "new" => r.op \in CodeOps)
    BY <1>12, Zenon DEF findAccount, Arrives, Stands, At, Passes, CodePlaces, CodeOps, Entering
  <2> DEFINE us == {u \in Holders(r.email) : Live(u)}
  <2>2. us # {} => IsSight([NoSight EXCEPT !.user = Only(us)])
    <3>1. us \subseteq Users
      BY DEF Holders
    <3> HIDE DEF us
    <3> QED BY <1>0, <3>1, Chosen, SightsChange, Zenon
  <2>3. IsSight([NoSight EXCEPT !.user = r.user])
    BY <1>0, SightsChange, Zenon DEF Commands
  <2>4. \/ Refused(r) \/ Reads(r, "look", [NoSight EXCEPT !.user = r.user])
        \/ us # {} /\ Reads(r, "look", [NoSight EXCEPT !.user = Only(us)])
    BY <1>12 DEF findAccount
  <2> HIDE DEF us
  <2> QED BY <2>1, <2>2, <2>3, <2>4, EndsMove, ReadsMove DEF CodePlaces, Ended
<1>13. CASE lookForCode(r)
  <2>1. pc[r] \in F /\ (pc[r] = "new" => r.op \in CodeOps)
    BY <1>13, Zenon DEF lookForCode, Arrives, Stands, At, Passes, CodePlaces, CodeOps, Entering
  <2>2. \A c \in Rows : \A entry \in Readable(r) :
            IsSight([seen[r] EXCEPT !.row = c, !.entry = entry, !.n = code[c].wrong])
    <3>1. Readable(r) \subseteq Nat
      BY RowsAreTyped DEF Readable
    <3> QED BY <1>0, <3>1, SightsChange, RowsAreTyped, Zenon
  <2>3. Refused(r) \/ \E c \in Rows : \E entry \in Readable(r) :
                       Reads(r, "enter", [seen[r] EXCEPT !.row = c, !.entry = entry, !.n = code[c].wrong])
    BY <1>13 DEF lookForCode
  <2> QED BY <2>1, <2>2, <2>3, EndsMove, ReadsMove DEF CodePlaces, Ended
<1>14. CASE refuseCode(r)
  <2>1. pc[r] \in F /\ (pc[r] = "new" => r.op \in CodeOps)
    BY <1>14 DEF refuseCode, Arrives, Stands, At, Passes, CodePlaces, CodeOps, Entering
  <2> QED BY <1>0, <1>14, <2>1, EndsMove, ReadsMove, GoesMove, PlacesMove DEF refuseCode, CodePlaces, Ended,
         ToSend, Renewed, Answered, Refused
<1>15. CASE verifyAndComplete(r)
  <2>1. pc[r] \in F /\ (pc[r] = "new" => r.op \in CodeOps)
    BY <1>15 DEF verifyAndComplete, Arrives, Stands, At, Passes, CodePlaces, CodeOps, Entering
  <2> QED BY <1>0, <1>15, <2>1, EndsMove, ReadsMove, GoesMove, PlacesMove DEF verifyAndComplete, CodePlaces, Ended,
         ToSend, Renewed, Answered, Refused
<1>16. CASE resetPassword(r)
  <2>1. pc[r] \in F /\ (pc[r] = "new" => r.op \in CodeOps)
    BY <1>16 DEF resetPassword, Arrives, Stands, At, Passes, CodePlaces, CodeOps, Entering
  <2> QED BY <1>0, <1>16, <2>1, EndsMove, ReadsMove, GoesMove, PlacesMove DEF resetPassword, CodePlaces, Ended,
         ToSend, Renewed, Answered, Refused
<1>17. CASE verifyChangeEmail(r)
  <2>1. pc[r] \in F /\ (pc[r] = "new" => r.op \in CodeOps)
    BY <1>17 DEF verifyChangeEmail, Arrives, Stands, At, Passes, CodePlaces, CodeOps, Entering
  <2> QED BY <1>0, <1>17, <2>1, EndsMove, ReadsMove, GoesMove, PlacesMove DEF verifyChangeEmail, CodePlaces, Ended,
         ToSend, Renewed, Answered, Refused
<1>18. CASE readOldPassword(r)
  <2>1. pc[r] \in F /\ (pc[r] = "new" => r.op \in CodeOps)
    BY <1>18 DEF readOldPassword, Arrives, Stands, At, Passes, CodePlaces, CodeOps, Entering
  <2> QED BY <1>0, <1>18, <2>1, EndsMove, ReadsMove, GoesMove, PlacesMove DEF readOldPassword, CodePlaces, Ended,
         ToSend, Renewed, Answered, Refused
<1>19. CASE changePassword(r)
  <2>1. pc[r] \in F /\ (pc[r] = "new" => r.op \in CodeOps)
    BY <1>19 DEF changePassword, Arrives, Stands, At, Passes, CodePlaces, CodeOps, Entering
  <2> QED BY <1>0, <1>19, <2>1, EndsMove, ReadsMove, GoesMove, PlacesMove DEF changePassword, CodePlaces, Ended,
         ToSend, Renewed, Answered, Refused
<1> QED BY <1>1, <1>2, <1>3, <1>4, <1>5, <1>6, <1>7, <1>8, <1>9, <1>10, <1>11, <1>12, <1>13, <1>14, <1>15, <1>16,
       <1>17, <1>18, <1>19 DEF CodeActions

(* What follows from a move. *)
LEMMA MovesElsewhere ==
    ASSUME RequestsTyped, NEW r, NEW F, NEW T, NEW P, Moves(r, F, T), F \cap P = {}, T \cap P = {}
    PROVE  Elsewhere(P)
  BY StepsAreElsewhere DEF Moves

LEMMA MovesAreTyped ==
    ASSUME RequestsTyped, NEW r, NEW F, NEW T, Moves(r, F, T)
    PROVE  RequestsTyped'
  BY StepsAreTyped DEF Moves

LEMMA MovesGoOn ==
    ASSUME RequestsTyped, NEW r, NEW F, NEW T, Moves(r, F, T), {"done", "refused"} \cap F = {}
    PROVE  /\ \A q \in plot.requests : pc[q] = "refused" => pc'[q] = "refused"
           /\ "new" \notin T => \A q \in plot.requests : pc'[q] = "new" => pc[q] = "new"
           /\ pc[r] \in F /\ pc'[r] \in T /\ plot' = plot
           /\ \A q \in plot.requests \ {r} : pc'[q] = pc[q] /\ seen'[q] = seen[q]
  BY DEF RequestsTyped, Moves, Step

-------------------------------------------------------------------------------
(* The parts of the invariant, and what leaves each of them alone *)

CodesHold_ == CodesSound /\ CodeSights /\ MailsSound /\ Spaced /\ Confirmations
AdminHolds == AdminSessionsSound /\ AdminSights
ProfilesHold == RenamesSound /\ ProfilesSound
PushesHold == TerminalsBegin /\ PushesSound /\ DevicesSound

(* Nobody who asks for a new password forgets whose it is, or starts again. *)
ForgottenStay ==
    \A q \in plot.requests : q.op = "forgotPassword" =>
        seen'[q].user = seen[q].user /\ (pc'[q] = "new" => pc[q] = "new")

(* The rows of codes, and what is known about them. *)
CodesStay ==
    /\ UNCHANGED <<code, begun, accepted, confirmed>>
    /\ mailed \subseteq mailed' /\ \A m \in mailed' \ mailed : m[2] # "code"

LEMMA CodesAreLeftAlone ==
    ASSUME CodesHold_, CodesStay, Elsewhere(CodePlaces), ForgottenStay,
           \A u \in Users : account'[u].password = account[u].password,
           \A u \in Users : account[u].state # "none" => account'[u].state # "none",
           CodesTyped
    PROVE  CodesHold_'
<1> USE DEF CodesHold_, CodesStay
<1>0. plot' = plot
  BY DEF Elsewhere
<1>1. CodesSound'
  <2>1. \A c \in DOMAIN code : code[c].user # Nothing => code[c].user \in Users
    BY RowsAreTyped DEF CodeRows
  <2> QED BY <2>1 DEF CodesSound
<1>2. CodeSights'
  <2> SUFFICES ASSUME NEW r \in plot.requests
               PROVE  /\ r.op = "forgotPassword" /\ pc'[r] = "new" => seen'[r].user = Nothing
                      /\ pc'[r] \in Asking_ => AsksFor(r)'
                      /\ pc'[r] \in {"discard", "claim", "latest", "send", "mark"} => RowOf(r)'
                      /\ pc'[r] = "mark" => <<seen'[r].row, seen'[r].n>> \in accepted'
                      /\ pc'[r] \in {"look", "enter"} => Enters(r)'
    BY <1>0 DEF CodeSights, CodeSight
  <2>1. pc'[r] \in CodePlaces => pc'[r] = pc[r] /\ seen'[r] = seen[r]
    BY DEF Elsewhere
  <2>2. r.op = "forgotPassword" /\ pc'[r] = "new" => seen'[r].user = Nothing
    BY DEF ForgottenStay, CodeSights, CodeSight
  <2>3. pc'[r] \in Asking_ => AsksFor(r)'
    BY <2>1 DEF CodeSights, CodeSight, CodePlaces, Asking_, AsksFor
  <2>4. pc'[r] \in {"discard", "claim", "latest", "send", "mark"} => RowOf(r)'
    BY <2>1 DEF CodeSights, CodeSight, CodePlaces, RowOf
  <2>5. pc'[r] = "mark" => <<seen'[r].row, seen'[r].n>> \in accepted'
    BY <2>1 DEF CodeSights, CodeSight, CodePlaces
  <2>6. pc'[r] \in {"look", "enter"} => Enters(r)'
    BY <2>1 DEF CodeSights, CodeSight, CodePlaces, Enters
  <2> QED BY <2>2, <2>3, <2>4, <2>5, <2>6
<1>3. \A e, c : WasAsked(e, c) => WasAsked(e, c)'
  BY <1>0 DEF WasAsked, ForgottenStay
<1>4. MailsSound'
  BY <1>3 DEF MailsSound
<1>5. Spaced'
  BY DEF Spaced, MailIsSpaced, Rows
<1>6. Confirmations'
  BY <1>3 DEF Confirmations
<1> QED BY <1>1, <1>2, <1>4, <1>5, <1>6

LEMMA AdminIsLeftAlone ==
    ASSUME AdminHolds, UNCHANGED <<challenge, adminSession>>, mailed \subseteq mailed', Elsewhere(AdminPlaces)
    PROVE  AdminHolds'
<1>0. plot' = plot
  BY DEF Elsewhere
<1>1. \A h, u, purpose : Proven(h, u, purpose) => Proven(h, u, purpose)'
  BY DEF Proven, ChallengesOf
<1>2. AdminSessionsSound'
  BY <1>1 DEF AdminHolds, AdminSessionsSound
<1>3. \A u : AdminSessionsOf(u)' = AdminSessionsOf(u)
  BY DEF AdminSessionsOf
<1>4. AdminSights'
  <2> SUFFICES ASSUME NEW r \in plot.requests
               PROVE  /\ pc'[r] = "guarded" => seen'[r].row \in AdminSessionsOf(r.user)'
                      /\ pc'[r] = "expire" => seen'[r].row \in DOMAIN adminSession'
                      /\ pc'[r] \in {"addressed", "make"} => \E e \in Emails \cup {Nothing} : seen'[r].set = {e}
                      /\ pc'[r] = "open" =>
                           /\ seen'[r].row \in DOMAIN challenge'
                           /\ Proven(seen[r].row, challenge[seen[r].row].user, "LOGIN")'
                      /\ pc'[r] \in {"miss", "close"} => seen'[r].row \in DOMAIN challenge'
                      /\ pc'[r] = "elevate" =>
                           /\ seen'[r].row \in AdminSessionsOf(r.user)'
                           /\ Proven(seen[r].entry, r.user, "STEP_UP")'
    BY <1>0 DEF AdminSights, AdminSight
  <2>1. pc'[r] \in AdminPlaces => pc'[r] = pc[r] /\ seen'[r] = seen[r]
    BY DEF Elsewhere
  <2>2. pc'[r] = "open" => Proven(seen[r].row, challenge[seen[r].row].user, "LOGIN")'
    BY <1>1, <2>1 DEF AdminHolds, AdminSights, AdminSight, AdminPlaces
  <2>3. pc'[r] = "elevate" => Proven(seen[r].entry, r.user, "STEP_UP")'
    BY <1>1, <2>1 DEF AdminHolds, AdminSights, AdminSight, AdminPlaces
  <2> QED BY <1>3, <2>1, <2>2, <2>3 DEF AdminHolds, AdminSights, AdminSight, AdminPlaces
<1> QED BY <1>2, <1>4 DEF AdminHolds

(* To the profiles, it is all the same what else happens to an account, ... *)
ProfilesStay ==
    \A u \in Users :
        \/ account[u].state = "none" /\ ~account'[u].renamed
        \/ /\ account[u].state # "none" /\ account'[u].state # "none"
           /\ account'[u].renamed = account[u].renamed /\ Profile(u)' = Profile(u)

LEMMA ProfilesAreLeftAlone ==
    ASSUME ProfilesHold, UNCHANGED <<renames, profile, suspect>>, ProfilesStay, RequestsTyped,
           Elsewhere({"rename", "fill", "invalidate"})
    PROVE  ProfilesHold'
<1>0. plot' = plot /\ \A r \in plot.requests : r.user \in Users
  BY Plotted DEF Elsewhere, RequestsTyped, RequestsStart, Commands
<1>1. \A r \in plot.requests : pc[r] \in {"rename", "fill", "invalidate"} \/ pc'[r] \in {"rename", "fill", "invalidate"}
                               => pc'[r] = pc[r] /\ seen'[r] = seen[r]
  BY DEF Elsewhere
<1>2. RenamesSound'
  BY <1>0, <1>1 DEF ProfilesHold, RenamesSound, ProfilesStay
<1>3. \A u \in Users : Dropping(u)' <=> Dropping(u)
  BY <1>0, <1>1 DEF Dropping
<1>4. ProfilesSound'
  <2>1. ASSUME NEW r \in plot.requests, pc'[r] = "fill"
        PROVE  /\ account'[r.user].state # "none"
               /\ r.user \in suspect' \/ seen'[r].set = {Profile(r.user)'}
    BY <1>0, <1>1, <2>1 DEF ProfilesHold, ProfilesSound, ProfilesStay
  <2>2. ASSUME NEW u \in Users, profile'[u].full
        PROVE  /\ account'[u].state # "none"
               /\ u \in suspect' \/ Dropping(u)' \/ profile'[u].shows = Profile(u)'
    BY <1>3, <2>2 DEF ProfilesHold, ProfilesSound, ProfilesStay
  <2> QED BY <1>0, <2>1, <2>2 DEF ProfilesSound
<1> QED BY <1>2, <1>4 DEF ProfilesHold

(* ... and to the switches whatever does not read or write them. *)
LEMMA PausesAreLeftAlone ==
    ASSUME PausesSound, UNCHANGED <<settings, pauses, behind>>, Elsewhere(PausePlaces)
    PROVE  PausesSound'
<1>1. plot' = plot /\ \A r \in plot.requests :
        pc[r] \in PausePlaces \/ pc'[r] \in PausePlaces => pc'[r] = pc[r] /\ seen'[r] = seen[r]
  BY DEF Elsewhere
<1>2. ASSUME NEW r \in plot.requests, pc'[r] = "fill pauses"
      PROVE  \E s \in Settings : seen'[r].set = {s} /\ (r.server \notin behind' => s = settings')
  BY <1>1, <1>2 DEF PausesSound, PausePlaces
<1>3. PausesTakeHold'
  <2>1. \A r \in plot.requests : pc[r] = "drop pauses" => pc'[r] = "drop pauses"
    BY <1>1 DEF PausePlaces
  <2> QED BY <1>1, <2>1 DEF PausesSound, PausesTakeHold
<1> QED BY <1>1, <1>2, <1>3 DEF PausesSound

LEMMA PushesAreLeftAlone ==
    ASSUME PushesHold, UNCHANGED <<device, pushed>>, signedIn' \subseteq signedIn, Elsewhere(DevicePlaces),
           \A q \in plot.requests : pc'[q] = "new" => pc[q] = "new"
    PROVE  PushesHold'
<1>1. plot' = plot /\ \A r \in plot.requests :
        pc[r] \in DevicePlaces \/ pc'[r] \in DevicePlaces => pc'[r] = pc[r] /\ seen'[r] = seen[r]
  BY DEF Elsewhere
<1>2. \A x : NotYet(x)' => NotYet(x)
  BY <1>1 DEF NotYet
<1>3. TerminalsBegin'
  BY <1>1, <1>2 DEF PushesHold, TerminalsBegin, DevicePlaces, TerminalOf
<1>4. \A r \in plot.requests : \A d : pc'[r] \in {"check", "push"} /\ Aims(r, d) => Aims(r, d)'
  BY <1>1, <1>2 DEF Aims, DevicePlaces
<1>5. PushesSound'
  BY <1>1, <1>4 DEF PushesHold, PushesSound, DevicePlaces, PushesEndWithTheSession
<1>6. DevicesSound'
  BY DEF PushesHold, DevicesSound, Devices, TerminalOf
<1> QED BY <1>3, <1>5, <1>6 DEF PushesHold

(* Wrong entries are counted with the requests, the codes and the accounts. *)
LEMMA CountsAreLeftAlone ==
    ASSUME Counts, UNCHANGED misses, plot' = plot,
           \A q \in plot.requests : pc[q] = "refused" => pc'[q] = "refused",
           DOMAIN code \subseteq DOMAIN code',
           \A c \in Rows' : IF c \in Rows THEN code'[c].wrong = code[c].wrong
                            ELSE code'[c].wrong = 0 /\ c \notin DOMAIN code,
           \A u \in Users : account'[u].wrong = account[u].wrong,
           MaxTries \in Nat \ {0}
    PROVE  Counts'
<1>1. \A what, x : MissesAt(what, x)' = MissesAt(what, x)
  BY DEF MissesAt
<1>2. ASSUME NEW c \in Rows'
      PROVE  code'[c].wrong = Cardinality(MissesAt("code", c)) /\ code'[c].wrong < MaxTries
  <2>1. CASE c \in Rows
    BY <2>1 DEF Counts
  <2>2. CASE c \notin Rows
    <3>1. MissesAt("code", c) = {}
      BY <2>2 DEF MissesAt, Counts
    <3> QED BY <2>2, <3>1, FS_EmptySet
  <2> QED BY <2>1, <2>2
<1> QED BY <1>1, <1>2 DEF Counts

-------------------------------------------------------------------------------
(* Codes: how their rows change *)

(* Rows are added and removed; whose they are, and what they are for, stays. *)
Grown(codes) ==
    /\ codes \in Seq(CodeRows) /\ Len(code) <= Len(codes)
    /\ \A c \in DOMAIN code :
         /\ codes[c].user = code[c].user /\ codes[c].email = code[c].email
         /\ codes[c].type = code[c].type /\ codes[c].password = code[c].password
         /\ codes[c].live => code[c].live
         /\ codes[c].attempt >= code[c].attempt

(* Nothing but one field of a row, or none, is written. *)
LEMMA RowsChange ==
    ASSUME NEW row \in CodeRows
    PROVE  /\ [row EXCEPT !.live = FALSE] \in CodeRows /\ [row EXCEPT !.fresh = FALSE] \in CodeRows
           /\ \A n \in Nat : [row EXCEPT !.wrong = n] \in CodeRows
           /\ \A m \in 1..MaxMinutes : [row EXCEPT !.minute = m] \in CodeRows /\ [row EXCEPT !.attempt = m] \in CodeRows
           /\ \A n \in 0..MaxMinutes : [row EXCEPT !.sent = n] \in CodeRows
  BY DEF CodeRows

LEMMA CodesAreGrown ==
    ASSUME CodesTyped
    PROVE  Grown(code)
  BY RowsAreTyped DEF CodesTyped, Grown

LEMMA CodesWithout ==
    ASSUME CodesTyped, NEW C
    PROVE  /\ Grown(Without(C)) /\ DOMAIN Without(C) = DOMAIN code /\ Len(Without(C)) = Len(code)
           /\ \A c \in DOMAIN code :
                /\ Without(C)[c].live <=> code[c].live /\ c \notin C
                /\ Without(C)[c].wrong = code[c].wrong /\ Without(C)[c].sent = code[c].sent
                /\ Without(C)[c].attempt = code[c].attempt
<1> DEFINE codes == Without(C)
<1>1. \A c \in DOMAIN code : code[c] \in CodeRows /\ codes[c] \in CodeRows
  BY RowsAreTyped, RowsChange DEF Without
<1>2. codes \in Seq(CodeRows) /\ DOMAIN codes = DOMAIN code /\ Len(codes) = Len(code)
  BY <1>1 DEF Without, CodesTyped
<1>3. \A c \in DOMAIN code :
        /\ codes[c].user = code[c].user /\ codes[c].email = code[c].email
        /\ codes[c].type = code[c].type /\ codes[c].password = code[c].password
        /\ codes[c].live <=> code[c].live /\ c \notin C
        /\ codes[c].wrong = code[c].wrong /\ codes[c].sent = code[c].sent
        /\ codes[c].attempt = code[c].attempt /\ code[c].attempt \in Nat
  BY RowsAreTyped DEF Without, CodeRows
<1> QED BY <1>2, <1>3 DEF Grown, CodesTyped

LEMMA CodesClaimed ==
    ASSUME CodesTyped, NEW c \in DOMAIN code, Claimable(c)
    PROVE  /\ Grown(Claimed(c)) /\ Len(Claimed(c)) = Len(code)
           /\ Claimed(c)[c].attempt = code[c].minute
           /\ \A d \in DOMAIN code :
                /\ Claimed(c)[d].live = code[d].live /\ Claimed(c)[d].wrong = code[d].wrong
                /\ Claimed(c)[d].sent = code[d].sent
<1>0. PICK m : m = code[c].minute
  OBVIOUS
<1>k. code[c] \in CodeRows /\ m \in 1..MaxMinutes
  BY <1>0, RowsAreTyped DEF CodeRows
<1>c. Claimed(c)[c] = [code[c] EXCEPT !.attempt = m] /\ \A d \in DOMAIN code \ {c} : Claimed(c)[d] = code[d]
  BY <1>0 DEF Claimed, CodesTyped
<1>1. \A d \in DOMAIN code : code[d] \in CodeRows /\ Claimed(c)[d] \in CodeRows
  <2>1. [code[c] EXCEPT !.attempt = m] \in CodeRows
    BY <1>k, RowsChange
  <2> QED BY <1>c, <2>1, RowsAreTyped
<1>2. Claimed(c) \in Seq(CodeRows) /\ DOMAIN Claimed(c) = DOMAIN code /\ Len(Claimed(c)) = Len(code)
  BY <1>1 DEF Claimed, CodesTyped
<1>3. \A d \in DOMAIN code :
        /\ Claimed(c)[d].user = code[d].user /\ Claimed(c)[d].email = code[d].email
        /\ Claimed(c)[d].type = code[d].type /\ Claimed(c)[d].password = code[d].password
        /\ Claimed(c)[d].live = code[d].live /\ Claimed(c)[d].wrong = code[d].wrong
        /\ Claimed(c)[d].sent = code[d].sent
        /\ Claimed(c)[d].attempt = IF d = c THEN code[d].minute ELSE code[d].attempt
        /\ code[d].attempt \in Nat /\ code[d].minute \in Nat
  BY <1>1, RowsAreTyped DEF Claimed, CodeRows
<1> QED BY <1>2, <1>3 DEF Grown, CodesTyped, Claimable

LEMMA CodesAdded ==
    ASSUME CodesTyped, NEW row \in CodeRows, NEW codes, Grown(codes), Len(codes) = Len(code)
    PROVE  /\ Grown(Append(codes, row)) /\ Len(Append(codes, row)) = Len(code) + 1
           /\ Append(codes, row)[Len(code) + 1] = row
           /\ \A c \in DOMAIN code : Append(codes, row)[c] = codes[c]
  BY DEF Grown, CodesTyped

(* One field of one row: the count of wrong entries, or what is known of *)
(* the mail, or its age.                                                 *)
LEMMA CodesNoted ==
    ASSUME CodesTyped, NEW c \in DOMAIN code, NEW row \in CodeRows, row.user = code[c].user,
           row.email = code[c].email, row.type = code[c].type, row.password = code[c].password,
           row.live = code[c].live, row.attempt = code[c].attempt
    PROVE  Grown([code EXCEPT ![c] = row])
<1>1. \A d \in DOMAIN code : code[d].attempt \in Nat
  BY RowsAreTyped
<1> QED BY <1>1 DEF Grown, CodesTyped

(* What a step of the codes leaves of the tables. *)
CodesMoveOn ==
    /\ Grown(code') /\ mailed \subseteq mailed' /\ begun \subseteq begun' /\ accepted \subseteq accepted'
    /\ UNCHANGED <<plot, adminVars, deviceVars, profileVars>> /\ signedIn' \subseteq signedIn
    /\ \A u \in Users : account[u].state # "none" => account'[u].state # "none"
    /\ \A c \in DOMAIN code :
         code'[c].live /\ code[c].user # Nothing => account'[code[c].user].password = account[code[c].user].password

LEMMA NothingMoves ==
    ASSUME CodesTyped, UNCHANGED <<plot, tableVars>>
    PROVE  CodesMoveOn
  BY CodesAreGrown DEF CodesMoveOn, tableVars, codeVars

LEMMA CodesBecomeOthers ==
    ASSUME NEW codes, Grown(codes), CodesBecome(codes), UNCHANGED <<plot>>, begun \subseteq begun'
    PROVE  CodesMoveOn
  BY DEF CodesMoveOn, CodesBecome

(* The passwords that codes belong to change with the codes. *)
LEMMA CodesAreVoided ==
    ASSUME RequestsTyped, CodesTyped, TablesTyped, CodesSound, NEW r \in plot.requests, NEW u \in Users, Live(u), NEW C, NEW n \in Nat,
           Renewed(r, u, [account EXCEPT ![u].password = n], C), CodesOf(u, Resetting) \subseteq C
    PROVE  CodesMoveOn
<1>1. Grown(code') /\ \A c \in DOMAIN code : code'[c].live <=> code[c].live /\ c \notin C
  BY CodesWithout DEF Renewed
<1>2. ASSUME NEW c \in DOMAIN code, code'[c].live, code[c].user # Nothing
      PROVE  account'[code[c].user].password = account[code[c].user].password
  <2>1. code[c].type # "REGISTRATION" /\ code[c] \in CodeRows
    BY <1>2, RowsAreTyped DEF CodesSound
  <2>2. code[c].type \in Resetting
    BY <2>1 DEF Resetting, CodeRows, Types
  <2>3. code[c].user # u
    BY <1>1, <1>2, <2>2 DEF CodesOf, Rows
  <2>4. code[c].user \in Users
    BY <1>2, <2>1 DEF CodeRows
  <2> QED BY <2>3, <2>4 DEF Renewed, TablesTyped
<1>3. \A v \in Users : account'[v].state = account[v].state
  BY DEF Renewed, TablesTyped, Accounts_
<1> QED BY <1>1, <1>2, <1>3 DEF CodesMoveOn, Renewed, Done, Place

LEMMA TypesOfCodes ==
    ASSUME NEW r
    PROVE  /\ TypeOf(r) \in Types
           /\ r.op \in {"requestCode", "verifyAndComplete"} => TypeOf(r) = "REGISTRATION"
           /\ r.op \in {"forgotPassword", "resetPassword"} => TypeOf(r) = "PASSWORD_RESET"
           /\ r.op \in {"requestChangeEmailCode", "verifyChangeEmail"} => TypeOf(r) = "CHANGE_EMAIL"
  BY DEF TypeOf, Types

LEMMA NewCodesAreTyped ==
    ASSUME TablesTyped, MaxMinutes \in Nat \ {0}, NEW type \in Types, NEW u \in Users \cup {Nothing}, NEW e \in Emails
    PROVE  NewCode(type, u, e) \in CodeRows
<1>1. (IF u = Nothing THEN 0 ELSE account[u].password) \in Nat
  BY DEF TablesTyped, Accounts_
<1> QED BY <1>1 DEF NewCode, CodeRows

LEMMA AddressesOfRequests ==
    ASSUME RequestsTyped, NEW r \in plot.requests
    PROVE  /\ r \in Commands
           /\ r.op \in {"requestCode", "forgotPassword", "requestChangeEmailCode"} => r.email \in Emails
           /\ r.op = "register" => r.token \in Phones
           /\ r.op = "login" => r.session \in Sessions
  BY Plotted DEF RequestsTyped, RequestsStart

(* Every step of the codes does. *)
LEMMA CodesDoMoveOn ==
    ASSUME IInv, NEW r \in plot.requests, CodeActions(r)
    PROVE  CodesMoveOn
<1> USE DEF IInv
<1>0. /\ MaxMinutes \in Nat \ {0} /\ MaxTries \in Nat \ {0} /\ IsSight(seen[r])
      /\ \A c \in DOMAIN code : code[c] \in CodeRows
  BY AccountsAssumption, RowsAreTyped DEF RequestsTyped
<1>1. CASE requestCode(r)
  BY <1>1, NothingMoves DEF requestCode, Reads, Goes, Refused, Answered, Ends, Done, Place
<1>2. CASE forgotPassword(r)
  BY <1>2, NothingMoves DEF forgotPassword, Reads, Goes, Refused, Answered, Ends, Done, Place
<1>3. CASE findCode(r)
  BY <1>3, NothingMoves DEF findCode, Reads, Goes, Refused, Answered, Ends, Done, Place
<1>4. CASE refind(r)
  BY <1>4, NothingMoves DEF refind, Reads, Goes, Refused, Answered, Ends, Done, Place
<1>5. CASE readLatest(r)
  BY <1>5, NothingMoves DEF readLatest, Reads, Goes, Refused, Answered, Ends, Done, Place
<1>6. CASE findAccount(r)
  BY <1>6, NothingMoves DEF findAccount, Reads, Goes, Refused, Answered, Ends, Done, Place
<1>7. CASE lookForCode(r)
  BY <1>7, NothingMoves DEF lookForCode, Reads, Goes, Refused, Answered, Ends, Done, Place
<1>8. CASE readOldPassword(r)
  BY <1>8, NothingMoves DEF readOldPassword, Reads, Goes, Refused, Answered, Ends, Done, Place
<1>9. CASE discard(r)
  BY <1>9, CodesWithout, CodesBecomeOthers DEF discard, Place
<1>10. CASE insert(r)
  <2>1. CASE Reads(r, "refind", seen[r])
    BY <2>1, NothingMoves DEF Reads, Goes, Place
  <2>2. CASE CodesBecome(Append(code, NewCode(TypeOf(r), seen[r].user, r.email))) /\ ToSend(r, Len(code) + 1, 1)
    <3>1. r.email \in Emails
      BY <1>10, AddressesOfRequests DEF insert, Stands, CodeSights, CodeSight, Asking_, AsksFor
    <3>2. NewCode(TypeOf(r), seen[r].user, r.email) \in CodeRows
      BY <1>0, <3>1, NewCodesAreTyped, TypesOfCodes DEF IsSight
    <3>3. Grown(Append(code, NewCode(TypeOf(r), seen[r].user, r.email)))
      BY <3>2, CodesAreGrown, CodesAdded
    <3> QED BY <2>2, <3>3, CodesBecomeOthers DEF ToSend, Goes, Place
  <2> QED BY <1>10, <2>1, <2>2 DEF insert
<1>11. CASE claimExisting(r)
  <2>1. CASE Reads(r, "latest", seen[r])
    BY <2>1, NothingMoves DEF Reads, Goes, Place
  <2>2. CASE ~Reads(r, "latest", seen[r])
    <3> DEFINE c == seen[r].row
    <3>1. Claimable(c) /\ CodesBecome(Claimed(c)) /\ ToSend(r, c, code[c].minute)
      BY <1>11, <2>2 DEF claimExisting
    <3>2. c \in DOMAIN code
      BY <1>11 DEF claimExisting, Stands, CodeSights, CodeSight, RowOf
    <3>3. Grown(Claimed(c))
      BY <3>1, <3>2, CodesClaimed
    <3> QED BY <3>1, <3>3, CodesBecomeOthers DEF ToSend, Goes, Place
  <2> QED BY <2>1, <2>2
<1>12. CASE sendSafely(r)
  <2>1. UNCHANGED <<plot, code, account, begun, adminVars, signedIn, deviceVars, profileVars>>
    BY <1>12 DEF sendSafely, Place, Done
  <2>2. mailed \subseteq mailed' /\ accepted \subseteq accepted'
    BY <1>12 DEF sendSafely
  <2> QED BY <2>1, <2>2, CodesAreGrown DEF CodesMoveOn
<1>13. CASE markDelivered(r)
  <2> DEFINE c == seen[r].row
             row == [code[c] EXCEPT !.sent = seen[r].n]
  <2>1. CASE CodesBecome(code)
    BY <1>13, <2>1, CodesAreGrown, CodesBecomeOthers DEF markDelivered, Done, Place
  <2>2. CASE ~CodesBecome(code)
    <3>1. code[c].attempt = seen[r].n /\ CodesBecome([code EXCEPT ![c].sent = seen[r].n])
      BY <1>13, <2>2 DEF markDelivered
    <3>2. c \in DOMAIN code
      BY <1>13 DEF markDelivered, Stands, CodeSights, CodeSight, RowOf
    <3>3. seen[r].n \in 1..MaxMinutes
      BY <1>0, <3>1, <3>2 DEF CodeRows
    <3>4. code[c] \in CodeRows /\ seen[r].n \in 0..MaxMinutes
      BY <1>0, <3>2, <3>3
    <3>5. row \in CodeRows
      BY <3>4, RowsChange
    <3>6. /\ row.user = code[c].user /\ row.email = code[c].email /\ row.type = code[c].type
          /\ row.password = code[c].password /\ row.live = code[c].live /\ row.attempt = code[c].attempt
      BY <3>4 DEF CodeRows
    <3>7. Grown([code EXCEPT ![c] = row])
      BY <3>2, <3>5, <3>6, CodesNoted
    <3>8. Grown([code EXCEPT ![c].sent = seen[r].n])
      BY <3>7, <3>2
    <3> QED BY <1>13, <3>1, <3>8, CodesBecomeOthers DEF markDelivered, Done, Place
  <2> QED BY <2>1, <2>2
<1>14. CASE requestChangeEmailCode(r)
  <2> DEFINE u == r.user
             old == Found("CHANGE_EMAIL", u, r.email)
             reused == {c \in old : code[c].fresh /\ code[c].email = r.email}
             rest == Without(old)
             added == Append(rest, NewCode("CHANGE_EMAIL", u, r.email))
  <2>1. \/ Refused(r) \/ Answered(r)
        \/ reused # {} /\ Claimable(Only(reused)) /\ CodesBecome(Claimed(Only(reused)))
           /\ ToSend(r, Only(reused), code[Only(reused)].minute)
        \/ CodesBecome(added) /\ ToSend(r, Len(code) + 1, 1)
    BY <1>14 DEF requestChangeEmailCode
  <2>2. CASE Refused(r) \/ Answered(r)
    BY <2>2, NothingMoves DEF Refused, Answered, Ends, Done, Place
  <2>3. CASE reused # {} /\ Claimable(Only(reused)) /\ CodesBecome(Claimed(Only(reused)))
             /\ ToSend(r, Only(reused), code[Only(reused)].minute)
    <3>1. reused \subseteq DOMAIN code
      BY DEF Found, Rows
    <3> HIDE DEF reused
    <3>2. Only(reused) \in DOMAIN code
      BY <2>3, <3>1, Chosen
    <3>3. Grown(Claimed(Only(reused)))
      BY <2>3, <3>2, CodesClaimed
    <3> QED BY <2>3, <3>3, CodesBecomeOthers DEF ToSend, Goes, Place
  <2>4. CASE CodesBecome(added) /\ ToSend(r, Len(code) + 1, 1)
    <3>1. r.email \in Emails /\ u \in Users
      BY <1>14, AddressesOfRequests DEF requestChangeEmailCode, Arrives, Commands
    <3>2. NewCode("CHANGE_EMAIL", u, r.email) \in CodeRows
      BY <1>0, <3>1, NewCodesAreTyped DEF Types
    <3>3. Grown(rest) /\ Len(rest) = Len(code)
      BY CodesWithout
    <3> HIDE DEF rest
    <3>4. Grown(added)
      BY <3>2, <3>3, CodesAdded
    <3> HIDE DEF added
    <3> QED BY <2>4, <3>4, CodesBecomeOthers DEF ToSend, Goes, Place
  <2> HIDE DEF reused, added
  <2> QED BY <2>1, <2>2, <2>3, <2>4
<1>15. CASE refuseCode(r)
  <2> DEFINE c == seen[r].row
             row == [code[c] EXCEPT !.wrong = @ + 1]
  <2>1. c \in DOMAIN code
    BY <1>15 DEF refuseCode, Stands, CodeSights, CodeSight, Enters
  <2>2. Grown(code) /\ Grown(Without({c}))
    BY CodesAreGrown, CodesWithout
  <2>3. Grown([code EXCEPT ![c].wrong = @ + 1])
    <3>1. code[c] \in CodeRows /\ code[c].wrong + 1 \in Nat
      BY <1>0, <2>1, RowsAreTyped
    <3>2. row \in CodeRows
      BY <3>1, RowsChange
    <3>3. /\ row.user = code[c].user /\ row.email = code[c].email /\ row.type = code[c].type
          /\ row.password = code[c].password /\ row.live = code[c].live /\ row.attempt = code[c].attempt
      BY <3>1 DEF CodeRows
    <3>4. Grown([code EXCEPT ![c] = row])
      BY <2>1, <3>2, <3>3, CodesNoted
    <3> QED BY <3>4, <2>1
  <2>4. code' = code \/ code' = Without({c}) \/ code' = [code EXCEPT ![c].wrong = @ + 1]
    BY <1>15 DEF refuseCode
  <2> HIDE DEF c
  <2>5. Grown(code')
    BY <2>2, <2>3, <2>4
  <2>6. UNCHANGED <<plot, account, mailed, begun, accepted, adminVars, signedIn, deviceVars, profileVars>>
    BY <1>15 DEF refuseCode, Ends, Place
  <2> QED BY <2>5, <2>6 DEF CodesMoveOn
<1>16. CASE verifyAndComplete(r)
  <2>1. CASE Refused(r)
    BY <2>1, NothingMoves DEF Refused, Ends, Place
  <2>2. CASE ~Refused(r)
    <3>1. /\ account[r.user].state = "none" /\ account' = [account EXCEPT ![r.user] = NewAccount(r)]
          /\ code' = Without({seen[r].row})
          /\ UNCHANGED <<plot, mailed, begun, accepted, adminVars, signedIn, deviceVars, profileVars>>
      BY <1>16, <2>2 DEF verifyAndComplete, Done, Place
    <3>2. Grown(code')
      BY <3>1, CodesWithout
    <3>3. \A u \in Users : account[u].state # "none" => account'[u] = account[u]
      BY <3>1 DEF TablesTyped
    <3>4. \A c \in DOMAIN code : code[c].user # Nothing => code[c].user \in Users /\ account[code[c].user].state # "none"
      BY <1>0 DEF CodesSound, CodeRows
    <3> QED BY <3>1, <3>2, <3>3, <3>4 DEF CodesMoveOn
  <2> QED BY <2>1, <2>2
<1>17. CASE resetPassword(r)
  <2> DEFINE u == seen[r].user
  <2>1. CASE Refused(r)
    BY <2>1, NothingMoves DEF Refused, Ends, Place
  <2>2. CASE ~Refused(r)
    <3>1. u \in Users
      BY <1>17, AddressesOfRequests DEF resetPassword, Passes, At, CodeSights, CodeSight, Enters, Commands
    <3>2. PICK C : /\ Live(u) /\ Renewed(r, u, [account EXCEPT ![u].password = @ + 1], C)
                   /\ CodesOf(u, Resetting) \subseteq C
      BY <1>17, <2>2 DEF resetPassword
    <3>3. account[u].password + 1 \in Nat
      BY <3>1 DEF TablesTyped, Accounts_
    <3>4. [account EXCEPT ![u].password = @ + 1] = [account EXCEPT ![u].password = account[u].password + 1]
      OBVIOUS
    <3> QED BY <3>1, <3>2, <3>3, <3>4, CodesAreVoided
  <2> QED BY <2>1, <2>2
<1>18. CASE changePassword(r)
  <2> DEFINE u == r.user
  <2>1. CASE Refused(r)
    BY <2>1, NothingMoves DEF Refused, Ends, Place
  <2>2. CASE ~Refused(r)
    <3>1. u \in Users
      BY <1>18, AddressesOfRequests DEF changePassword, Passes, At, CodeSights, CodeSight, Enters, Commands
    <3>2. PICK C : /\ Live(u) /\ Renewed(r, u, [account EXCEPT ![u].password = @ + 1], C)
                   /\ CodesOf(u, Resetting) \subseteq C
      BY <1>18, <2>2 DEF changePassword
    <3>3. account[u].password + 1 \in Nat
      BY <3>1 DEF TablesTyped, Accounts_
    <3>4. [account EXCEPT ![u].password = @ + 1] = [account EXCEPT ![u].password = account[u].password + 1]
      OBVIOUS
    <3> QED BY <3>1, <3>2, <3>3, <3>4, CodesAreVoided
  <2> QED BY <2>1, <2>2
<1>19. CASE verifyChangeEmail(r)
  <2> DEFINE u == r.user
             C == CodesOf(u, Types)
  <2>1. CASE Refused(r)
    BY <2>1, NothingMoves DEF Refused, Ends, Place
  <2>2. CASE ~Refused(r)
    <3>1. Renewed(r, u, [account EXCEPT ![u].email = r.email], C)
      BY <1>19, <2>2 DEF verifyChangeEmail
    <3>2. Grown(code')
      BY <3>1, CodesWithout DEF Renewed
    <3>3. \A v \in Users : account'[v].state = account[v].state /\ account'[v].password = account[v].password
      BY <3>1 DEF TablesTyped, Accounts_, Renewed
    <3>4. \A c \in DOMAIN code : code[c].user # Nothing => code[c].user \in Users
      BY <1>0 DEF CodeRows
    <3> QED BY <3>1, <3>2, <3>3, <3>4 DEF CodesMoveOn, Renewed, Done, Place
  <2> QED BY <2>1, <2>2
<1> QED BY <1>1, <1>2, <1>3, <1>4, <1>5, <1>6, <1>7, <1>8, <1>9, <1>10, <1>11, <1>12, <1>13, <1>14, <1>15, <1>16,
       <1>17, <1>18, <1>19 DEF CodeActions

(* Which steps mail, begin to mail, confirm and refuse. *)
LEMMA CodeHistories ==
    ASSUME NEW r \in plot.requests, CodeActions(r)
    PROVE  /\ sendSafely(r) \/ UNCHANGED <<mailed, accepted>>
           /\ insert(r) \/ claimExisting(r) \/ requestChangeEmailCode(r) \/ UNCHANGED begun
           /\ verifyAndComplete(r) \/ resetPassword(r) \/ verifyChangeEmail(r) \/ UNCHANGED confirmed
           /\ refuseCode(r) \/ UNCHANGED misses
<1>1. CASE requestCode(r)
  BY <1>1 DEF requestCode, Reads, Goes, Refused, Answered, Ends, Done, Place, CodesBecome, ToSend, Renewed,
         tableVars, codeVars
<1>2. CASE forgotPassword(r)
  BY <1>2 DEF forgotPassword, Reads, Goes, Refused, Answered, Ends, Done, Place, CodesBecome, ToSend, Renewed,
         tableVars, codeVars
<1>3. CASE findCode(r)
  BY <1>3 DEF findCode, Reads, Goes, Refused, Answered, Ends, Done, Place, CodesBecome, ToSend, Renewed, tableVars,
         codeVars
<1>4. CASE discard(r)
  BY <1>4 DEF discard, Reads, Goes, Refused, Answered, Ends, Done, Place, CodesBecome, ToSend, Renewed, tableVars,
         codeVars
<1>5. CASE insert(r)
  BY <1>5 DEF insert, Reads, Goes, Refused, Answered, Ends, Done, Place, CodesBecome, ToSend, Renewed, tableVars,
         codeVars
<1>6. CASE refind(r)
  BY <1>6 DEF refind, Reads, Goes, Refused, Answered, Ends, Done, Place, CodesBecome, ToSend, Renewed, tableVars,
         codeVars
<1>7. CASE claimExisting(r)
  BY <1>7 DEF claimExisting, Reads, Goes, Refused, Answered, Ends, Done, Place, CodesBecome, ToSend, Renewed,
         tableVars, codeVars
<1>8. CASE readLatest(r)
  BY <1>8 DEF readLatest, Reads, Goes, Refused, Answered, Ends, Done, Place, CodesBecome, ToSend, Renewed,
         tableVars, codeVars
<1>9. CASE sendSafely(r)
  BY <1>9 DEF sendSafely, Reads, Goes, Refused, Answered, Ends, Done, Place, CodesBecome, ToSend, Renewed,
         tableVars, codeVars
<1>10. CASE markDelivered(r)
  BY <1>10 DEF markDelivered, Reads, Goes, Refused, Answered, Ends, Done, Place, CodesBecome, ToSend, Renewed,
         tableVars, codeVars
<1>11. CASE requestChangeEmailCode(r)
  BY <1>11 DEF requestChangeEmailCode, Reads, Goes, Refused, Answered, Ends, Done, Place, CodesBecome, ToSend,
         Renewed, tableVars, codeVars
<1>12. CASE findAccount(r)
  BY <1>12 DEF findAccount, Reads, Goes, Refused, Answered, Ends, Done, Place, CodesBecome, ToSend, Renewed,
         tableVars, codeVars
<1>13. CASE lookForCode(r)
  BY <1>13 DEF lookForCode, Reads, Goes, Refused, Answered, Ends, Done, Place, CodesBecome, ToSend, Renewed,
         tableVars, codeVars
<1>14. CASE refuseCode(r)
  BY <1>14 DEF refuseCode, Reads, Goes, Refused, Answered, Ends, Done, Place, CodesBecome, ToSend, Renewed,
         tableVars, codeVars
<1>15. CASE verifyAndComplete(r)
  BY <1>15 DEF verifyAndComplete, Reads, Goes, Refused, Answered, Ends, Done, Place, CodesBecome, ToSend, Renewed,
         tableVars, codeVars
<1>16. CASE resetPassword(r)
  BY <1>16 DEF resetPassword, Reads, Goes, Refused, Answered, Ends, Done, Place, CodesBecome, ToSend, Renewed,
         tableVars, codeVars
<1>17. CASE verifyChangeEmail(r)
  BY <1>17 DEF verifyChangeEmail, Reads, Goes, Refused, Answered, Ends, Done, Place, CodesBecome, ToSend, Renewed,
         tableVars, codeVars
<1>18. CASE readOldPassword(r)
  BY <1>18 DEF readOldPassword, Reads, Goes, Refused, Answered, Ends, Done, Place, CodesBecome, ToSend, Renewed,
         tableVars, codeVars
<1>19. CASE changePassword(r)
  BY <1>19 DEF changePassword, Reads, Goes, Refused, Answered, Ends, Done, Place, CodesBecome, ToSend, Renewed,
         tableVars, codeVars
<1> QED BY <1>1, <1>2, <1>3, <1>4, <1>5, <1>6, <1>7, <1>8, <1>9, <1>10, <1>11, <1>12, <1>13, <1>14, <1>15, <1>16,
       <1>17, <1>18, <1>19 DEF CodeActions

(* A row is added for whoever is known. *)
Added(r, u) ==
    /\ Len(code') = Len(code) + 1 /\ code'[Len(code) + 1] = NewCode(TypeOf(r), u, r.email)
    /\ account' = account /\ r.email \in Emails /\ ToSend(r, Len(code) + 1, 1)
    /\ \/ r.op = "requestCode" /\ u = Nothing /\ u = seen[r].user
       \/ r.op = "forgotPassword" /\ u \in Users /\ account[u].state # "none" /\ u = seen[r].user
       \/ r.op = "requestChangeEmailCode" /\ u \in Users /\ account[u].state # "none"

LEMMA CodesAreAdded ==
    ASSUME IInv, NEW r \in plot.requests, CodeActions(r)
    PROVE  Len(code') = Len(code) \/ \E u : Added(r, u)
<1> USE DEF IInv
<1>1. CASE requestCode(r)
  BY <1>1 DEF requestCode, Reads, Goes, Refused, Answered, Ends, Done, Place, CodesBecome, ToSend, Renewed,
         tableVars, codeVars
<1>2. CASE forgotPassword(r)
  BY <1>2 DEF forgotPassword, Reads, Goes, Refused, Answered, Ends, Done, Place, CodesBecome, ToSend, Renewed,
         tableVars, codeVars
<1>3. CASE findCode(r)
  BY <1>3 DEF findCode, Reads, Goes, Refused, Answered, Ends, Done, Place, CodesBecome, ToSend, Renewed, tableVars,
         codeVars
<1>4. CASE refind(r)
  BY <1>4 DEF refind, Reads, Goes, Refused, Answered, Ends, Done, Place, CodesBecome, ToSend, Renewed, tableVars,
         codeVars
<1>5. CASE readLatest(r)
  BY <1>5 DEF readLatest, Reads, Goes, Refused, Answered, Ends, Done, Place, CodesBecome, ToSend, Renewed,
         tableVars, codeVars
<1>6. CASE findAccount(r)
  BY <1>6 DEF findAccount, Reads, Goes, Refused, Answered, Ends, Done, Place, CodesBecome, ToSend, Renewed,
         tableVars, codeVars
<1>7. CASE lookForCode(r)
  BY <1>7 DEF lookForCode, Reads, Goes, Refused, Answered, Ends, Done, Place, CodesBecome, ToSend, Renewed,
         tableVars, codeVars
<1>8. CASE readOldPassword(r)
  BY <1>8 DEF readOldPassword, Reads, Goes, Refused, Answered, Ends, Done, Place, CodesBecome, ToSend, Renewed,
         tableVars, codeVars
<1>9. CASE discard(r)
  BY <1>9, CodesWithout DEF discard, CodesBecome
<1>10. CASE insert(r)
  <2> DEFINE u == seen[r].user
             row == NewCode(TypeOf(r), u, r.email)
  <2>1. CASE Reads(r, "refind", seen[r])
    BY <2>1 DEF Reads, tableVars, codeVars
  <2>2. CASE CodesBecome(Append(code, row)) /\ ToSend(r, Len(code) + 1, 1)
    <3>1. AsksFor(r) /\ pc[r] = "insert"
      BY <1>10 DEF insert, Stands, CodeSights, CodeSight, Asking_
    <3>2. r.email \in Emails
      BY <3>1, AddressesOfRequests DEF AsksFor
    <3>3. Len(code') = Len(code) + 1 /\ code'[Len(code) + 1] = row /\ account' = account
      BY <2>2 DEF CodesBecome, CodesTyped
    <3>4. Added(r, u)
      BY <2>2, <3>1, <3>2, <3>3 DEF Added, AsksFor
    <3> QED BY <3>4
  <2> QED BY <1>10, <2>1, <2>2 DEF insert
<1>11. CASE claimExisting(r)
  <2>1. CASE Reads(r, "latest", seen[r])
    BY <2>1 DEF Reads, tableVars, codeVars
  <2>2. CASE ~Reads(r, "latest", seen[r])
    <3> DEFINE c == seen[r].row
    <3>1. Claimable(c) /\ code' = Claimed(c)
      BY <1>11, <2>2 DEF claimExisting, CodesBecome
    <3>2. c \in DOMAIN code
      BY <1>11 DEF claimExisting, Stands, CodeSights, CodeSight, RowOf
    <3> QED BY <3>1, <3>2, CodesClaimed
  <2> QED BY <2>1, <2>2
<1>12. CASE sendSafely(r)
  BY <1>12 DEF sendSafely
<1>13. CASE markDelivered(r)
  BY <1>13 DEF markDelivered, CodesBecome, CodesTyped
<1>14. CASE requestChangeEmailCode(r)
  <2> DEFINE u == r.user
             old == Found("CHANGE_EMAIL", u, r.email)
             reused == {c \in old : code[c].fresh /\ code[c].email = r.email}
             rest == Without(old)
             row == NewCode("CHANGE_EMAIL", u, r.email)
             added == Append(rest, row)
  <2>1. \/ Refused(r) \/ Answered(r)
        \/ reused # {} /\ Claimable(Only(reused)) /\ CodesBecome(Claimed(Only(reused)))
        \/ CodesBecome(added) /\ ToSend(r, Len(code) + 1, 1) /\ Live(u)
    BY <1>14 DEF requestChangeEmailCode
  <2>2. CASE Refused(r) \/ Answered(r)
    BY <2>2 DEF Refused, Answered, tableVars, codeVars
  <2>3. CASE reused # {} /\ Claimable(Only(reused)) /\ CodesBecome(Claimed(Only(reused)))
    <3>1. reused \subseteq DOMAIN code
      BY DEF Found, Rows
    <3> HIDE DEF reused
    <3> QED BY <2>3, <3>1, Chosen, CodesClaimed DEF CodesBecome
  <2>4. CASE CodesBecome(added) /\ ToSend(r, Len(code) + 1, 1) /\ Live(u)
    <3>1. r.op = "requestChangeEmailCode" /\ r.email \in Emails /\ u \in Users
      BY <1>14, AddressesOfRequests DEF requestChangeEmailCode, Arrives, Commands
    <3>2. account[u].state # "none"
      BY <2>4 DEF Live
    <3>3. Len(rest) = Len(code) /\ rest \in Seq(CodeRows)
      BY CodesWithout DEF Grown
    <3> HIDE DEF rest
    <3>4. Len(added) = Len(code) + 1 /\ added[Len(code) + 1] = row
      BY <3>3
    <3>5. row = NewCode(TypeOf(r), u, r.email)
      BY <3>1, TypesOfCodes
    <3>6. code' = added /\ account' = account
      BY <2>4 DEF CodesBecome
    <3> HIDE DEF added, row
    <3>7. Added(r, u)
      BY <2>4, <3>1, <3>2, <3>4, <3>5, <3>6 DEF Added
    <3> QED BY <3>7
  <2> HIDE DEF reused, added
  <2> QED BY <2>1, <2>2, <2>3, <2>4
<1>15. CASE refuseCode(r)
  BY <1>15, CodesWithout DEF refuseCode, CodesTyped
<1>16. CASE verifyAndComplete(r)
  BY <1>16, CodesWithout DEF verifyAndComplete, Refused, tableVars, codeVars
<1>17. CASE resetPassword(r)
  BY <1>17, CodesWithout DEF resetPassword, Renewed, Refused, tableVars, codeVars
<1>18. CASE verifyChangeEmail(r)
  BY <1>18, CodesWithout DEF verifyChangeEmail, Renewed, Refused, tableVars, codeVars
<1>19. CASE changePassword(r)
  BY <1>19, CodesWithout DEF changePassword, Renewed, Refused, tableVars, codeVars
<1> QED BY <1>1, <1>2, <1>3, <1>4, <1>5, <1>6, <1>7, <1>8, <1>9, <1>10, <1>11, <1>12, <1>13, <1>14, <1>15, <1>16,
       <1>17, <1>18, <1>19 DEF CodeActions

LEMMA CodesStaySound ==
    ASSUME IInv, NEW r \in plot.requests, CodeActions(r)
    PROVE  CodesSound'
<1> USE DEF IInv
<1>1. CodesMoveOn
  BY CodesDoMoveOn
<1>2. ASSUME NEW c \in DOMAIN code
      PROVE  /\ code'[c].user = Nothing <=> code'[c].type = "REGISTRATION"
             /\ code'[c].user # Nothing => account'[code'[c].user].state # "none"
             /\ code'[c].live /\ code'[c].user # Nothing => code'[c].password = account'[code'[c].user].password
  <2>1. code[c].user # Nothing => code[c].user \in Users
    BY RowsAreTyped DEF CodeRows
  <2>2. /\ code[c].user = Nothing <=> code[c].type = "REGISTRATION"
        /\ code[c].user # Nothing => account[code[c].user].state # "none"
        /\ code[c].live /\ code[c].user # Nothing => code[c].password = account[code[c].user].password
    BY DEF CodesSound
  <2>3. /\ code'[c].user = code[c].user /\ code'[c].type = code[c].type
        /\ code'[c].password = code[c].password /\ (code'[c].live => code[c].live)
    BY <1>1 DEF CodesMoveOn, Grown
  <2>4. code'[c].live /\ code[c].user # Nothing => account'[code[c].user].password = account[code[c].user].password
    BY <1>1 DEF CodesMoveOn
  <2>5. code[c].user # Nothing => account'[code[c].user].state # "none"
    BY <1>1, <2>1, <2>2 DEF CodesMoveOn
  <2> QED BY <2>2, <2>3, <2>4, <2>5
<1>3. code \in Seq(CodeRows) /\ code' \in Seq(CodeRows)
  BY <1>1 DEF CodesTyped, CodesMoveOn, Grown
<1>4. ASSUME NEW c \in DOMAIN code', c \notin DOMAIN code
      PROVE  /\ code'[c].user = Nothing <=> code'[c].type = "REGISTRATION"
             /\ code'[c].user # Nothing => account'[code'[c].user].state # "none"
             /\ code'[c].live /\ code'[c].user # Nothing => code'[c].password = account'[code'[c].user].password
  <2>1. PICK u : Added(r, u)
    BY <1>3, <1>4, CodesAreAdded
  <2>2. c = Len(code) + 1
    BY <1>3, <1>4, <2>1 DEF Added
  <2>3. Nothing \notin Users
    BY AccountsAssumption
  <2>4. code'[c].user = u /\ code'[c].type = TypeOf(r) /\ code'[c].password = IF u = Nothing THEN 0 ELSE account[u].password
    BY <2>1, <2>2 DEF Added, NewCode
  <2> QED BY <2>1, <2>3, <2>4, TypesOfCodes DEF Added
<1> QED BY <1>2, <1>4 DEF CodesSound

(* What is noted of a row: that a mail was taken, and wrong entries. *)
LEMMA NotesStay ==
    ASSUME IInv, NEW r \in plot.requests, CodeActions(r)
    PROVE  \A c \in DOMAIN code :
             /\ code'[c].live => code'[c].sent = code[c].sent \/ <<c, code'[c].sent>> \in accepted
             /\ code'[c].live => code'[c].wrong = code[c].wrong \/ refuseCode(r)
<1> USE DEF IInv
<1>1. CASE requestCode(r)
  BY <1>1 DEF requestCode, Reads, Goes, Refused, Answered, Ends, Done, Place, CodesBecome, ToSend, Renewed,
         tableVars, codeVars
<1>2. CASE forgotPassword(r)
  BY <1>2 DEF forgotPassword, Reads, Goes, Refused, Answered, Ends, Done, Place, CodesBecome, ToSend, Renewed,
         tableVars, codeVars
<1>3. CASE findCode(r)
  BY <1>3 DEF findCode, Reads, Goes, Refused, Answered, Ends, Done, Place, CodesBecome, ToSend, Renewed, tableVars,
         codeVars
<1>4. CASE refind(r)
  BY <1>4 DEF refind, Reads, Goes, Refused, Answered, Ends, Done, Place, CodesBecome, ToSend, Renewed, tableVars,
         codeVars
<1>5. CASE readLatest(r)
  BY <1>5 DEF readLatest, Reads, Goes, Refused, Answered, Ends, Done, Place, CodesBecome, ToSend, Renewed,
         tableVars, codeVars
<1>6. CASE findAccount(r)
  BY <1>6 DEF findAccount, Reads, Goes, Refused, Answered, Ends, Done, Place, CodesBecome, ToSend, Renewed,
         tableVars, codeVars
<1>7. CASE lookForCode(r)
  BY <1>7 DEF lookForCode, Reads, Goes, Refused, Answered, Ends, Done, Place, CodesBecome, ToSend, Renewed,
         tableVars, codeVars
<1>8. CASE readOldPassword(r)
  BY <1>8 DEF readOldPassword, Reads, Goes, Refused, Answered, Ends, Done, Place, CodesBecome, ToSend, Renewed,
         tableVars, codeVars
<1>9. CASE discard(r)
  BY <1>9, CodesWithout DEF discard, CodesBecome
<1>10. CASE insert(r)
  <2> DEFINE row == NewCode(TypeOf(r), seen[r].user, r.email)
  <2>1. CASE UNCHANGED code
    BY <2>1
  <2>2. CASE code' = Append(code, row)
    BY <2>2 DEF CodesTyped
  <2> QED BY <1>10, <2>1, <2>2 DEF insert, CodesBecome, Reads, tableVars, codeVars
<1>11. CASE claimExisting(r)
  <2>1. CASE UNCHANGED code
    BY <2>1
  <2>2. CASE Claimable(seen[r].row) /\ code' = Claimed(seen[r].row)
    <3>1. seen[r].row \in DOMAIN code
      BY <1>11 DEF claimExisting, Stands, CodeSights, CodeSight, RowOf
    <3> QED BY <2>2, <3>1, CodesClaimed
  <2> QED BY <1>11, <2>1, <2>2 DEF claimExisting, CodesBecome, Reads, tableVars, codeVars
<1>12. CASE sendSafely(r)
  BY <1>12 DEF sendSafely
<1>13. CASE markDelivered(r)
  <2> DEFINE c == seen[r].row
  <2>1. c \in DOMAIN code /\ <<c, seen[r].n>> \in accepted
    BY <1>13 DEF markDelivered, Stands, CodeSights, CodeSight, RowOf
  <2>2. CASE UNCHANGED code
    BY <2>2
  <2>3. CASE code' = [code EXCEPT ![c].sent = seen[r].n]
    <3>1. code'[c].sent = seen[r].n /\ code'[c].wrong = code[c].wrong
      BY <2>1, <2>3, RowsAreTyped DEF CodeRows
    <3>2. \A d \in DOMAIN code \ {c} : code'[d] = code[d]
      BY <2>3
    <3> HIDE DEF c
    <3> QED BY <2>1, <3>1, <3>2
  <2> QED BY <1>13, <2>2, <2>3 DEF markDelivered, CodesBecome
<1>14. CASE requestChangeEmailCode(r)
  <2> DEFINE u == r.user
             old == Found("CHANGE_EMAIL", u, r.email)
             reused == {c \in old : code[c].fresh /\ code[c].email = r.email}
             rest == Without(old)
             added == Append(rest, NewCode("CHANGE_EMAIL", u, r.email))
  <2>1. \/ UNCHANGED code
        \/ reused # {} /\ Claimable(Only(reused)) /\ code' = Claimed(Only(reused))
        \/ code' = added
    BY <1>14 DEF requestChangeEmailCode, CodesBecome, Refused, Answered, tableVars, codeVars
  <2>2. CASE reused # {} /\ Claimable(Only(reused)) /\ code' = Claimed(Only(reused))
    <3>1. reused \subseteq DOMAIN code
      BY DEF Found, Rows
    <3> HIDE DEF reused
    <3> QED BY <2>2, <3>1, Chosen, CodesClaimed
  <2>3. CASE code' = added
    <3>1. Len(rest) = Len(code) /\ rest \in Seq(CodeRows)
      BY CodesWithout DEF Grown
    <3>2. \A c \in DOMAIN code : rest[c].live => rest[c].sent = code[c].sent /\ rest[c].wrong = code[c].wrong
      BY CodesWithout
    <3> HIDE DEF rest
    <3>3. \A c \in DOMAIN code : added[c] = rest[c]
      BY <3>1 DEF CodesTyped
    <3> HIDE DEF added
    <3> QED BY <2>3, <3>2, <3>3
  <2> HIDE DEF reused, added
  <2> QED BY <2>1, <2>2, <2>3
<1>15. CASE refuseCode(r)
  <2> DEFINE c == seen[r].row
  <2>1. c \in DOMAIN code
    BY <1>15 DEF refuseCode, Stands, CodeSights, CodeSight, Enters
  <2>2. CASE code' = code \/ code' = Without({c})
    BY <2>2, CodesWithout
  <2>3. CASE code' = [code EXCEPT ![c].wrong = @ + 1]
    <3>1. code'[c].sent = code[c].sent
      BY <2>1, <2>3, RowsAreTyped DEF CodeRows
    <3>2. \A d \in DOMAIN code \ {c} : code'[d] = code[d]
      BY <2>3
    <3> HIDE DEF c
    <3> QED BY <1>15, <2>1, <3>1, <3>2
  <2> QED BY <1>15, <2>2, <2>3 DEF refuseCode
<1>16. CASE verifyAndComplete(r)
  BY <1>16, CodesWithout DEF verifyAndComplete, Renewed, Refused, tableVars, codeVars
<1>17. CASE resetPassword(r)
  BY <1>17, CodesWithout DEF resetPassword, Renewed, Refused, tableVars, codeVars
<1>18. CASE verifyChangeEmail(r)
  BY <1>18, CodesWithout DEF verifyChangeEmail, Renewed, Refused, tableVars, codeVars
<1>19. CASE changePassword(r)
  BY <1>19, CodesWithout DEF changePassword, Renewed, Refused, tableVars, codeVars
<1> QED BY <1>1, <1>2, <1>3, <1>4, <1>5, <1>6, <1>7, <1>8, <1>9, <1>10, <1>11, <1>12, <1>13, <1>14, <1>15, <1>16,
       <1>17, <1>18, <1>19 DEF CodeActions

(* A code is mailed in a minute in which nobody has begun to mail it. *)
LEMMA MailsBegin ==
    ASSUME IInv, NEW r \in plot.requests, CodeActions(r)
    PROVE  \/ begun' = begun
           \/ \E c \in DOMAIN code', m \in Nat :
                /\ begun' = begun \cup {<<c, m, r.id>>} /\ m <= code'[c].attempt
                /\ c \in DOMAIN code => code[c].attempt < m
<1> USE DEF IInv
<1>0. /\ code \in Seq(CodeRows) /\ \A c \in DOMAIN code : code[c].attempt \in Nat /\ code[c].minute \in Nat
  BY RowsAreTyped DEF CodesTyped
<1>1. CASE UNCHANGED begun
  BY <1>1
<1>2. ASSUME NEW c \in DOMAIN code, Claimable(c), code' = Claimed(c), ToSend(r, c, code[c].minute)
      PROVE  \E d \in DOMAIN code', m \in Nat :
                /\ begun' = begun \cup {<<d, m, r.id>>} /\ m <= code'[d].attempt
                /\ d \in DOMAIN code => code[d].attempt < m
  <2>1. code'[c].attempt = code[c].minute /\ c \in DOMAIN code'
    BY <1>2, CodesClaimed DEF Claimed
  <2>2. begun' = begun \cup {<<c, code[c].minute, r.id>>} /\ code[c].attempt < code[c].minute
    BY <1>2 DEF Claimable, ToSend
  <2> QED BY <1>0, <2>1, <2>2
<1>3. ASSUME NEW u, Added(r, u)
      PROVE  \E d \in DOMAIN code', m \in Nat :
                /\ begun' = begun \cup {<<d, m, r.id>>} /\ m <= code'[d].attempt
                /\ d \in DOMAIN code => code[d].attempt < m
  <2> DEFINE c == Len(code) + 1
  <2>1. code' \in Seq(CodeRows)
    BY CodesDoMoveOn DEF CodesMoveOn, Grown
  <2>2. c \in DOMAIN code' /\ c \notin DOMAIN code
    BY <1>0, <1>3, <2>1 DEF Added
  <2>3. code'[c].attempt = 1 /\ begun' = begun \cup {<<c, 1, r.id>>}
    BY <1>3 DEF Added, NewCode, ToSend
  <2> HIDE DEF c
  <2> QED BY <2>2, <2>3
<1>4. CASE Len(code') # Len(code)
  BY <1>3, <1>4, CodesAreAdded
<1>5. CASE Len(code') = Len(code) /\ insert(r)
  BY <1>0, <1>5 DEF insert, CodesBecome, Reads, tableVars, codeVars
<1>6. CASE claimExisting(r)
  <2>1. seen[r].row \in DOMAIN code
    BY <1>6 DEF claimExisting, Stands, CodeSights, CodeSight, RowOf
  <2> QED BY <1>1, <1>2, <1>6, <2>1 DEF claimExisting, CodesBecome, Reads, tableVars, codeVars
<1>7. CASE Len(code') = Len(code) /\ requestChangeEmailCode(r)
  <2> DEFINE u == r.user
             old == Found("CHANGE_EMAIL", u, r.email)
             reused == {c \in old : code[c].fresh /\ code[c].email = r.email}
             rest == Without(old)
             added == Append(rest, NewCode("CHANGE_EMAIL", u, r.email))
             c == Only(reused)
  <2>1. \/ UNCHANGED begun \/ code' = added
        \/ reused # {} /\ Claimable(c) /\ code' = Claimed(c) /\ ToSend(r, c, code[c].minute)
    BY <1>7 DEF requestChangeEmailCode, CodesBecome, Refused, Answered, tableVars, codeVars
  <2>2. code' # added
    <3>1. Len(rest) = Len(code) /\ rest \in Seq(CodeRows)
      BY CodesWithout DEF Grown
    <3> HIDE DEF rest
    <3> QED BY <1>0, <1>7, <3>1
  <2>3. reused \subseteq DOMAIN code
    BY DEF Found, Rows
  <2> HIDE DEF reused, added
  <2> QED BY <1>1, <1>2, <2>1, <2>2, <2>3, Chosen
<1> QED BY <1>1, <1>4, <1>5, <1>6, <1>7, CodeHistories

LEMMA CodesStayTyped ==
    ASSUME IInv, NEW r \in plot.requests, CodeActions(r)
    PROVE  CodesTyped'
<1> USE DEF IInv
<1>1. code' \in Seq(CodeRows)
  BY CodesDoMoveOn DEF CodesMoveOn, Grown
<1>2. begun' \subseteq Nat \X Nat \X Nat
  <2>1. CASE UNCHANGED begun
    BY <2>1 DEF CodesTyped
  <2>2. ASSUME NEW c \in DOMAIN code', NEW m \in Nat, begun' = begun \cup {<<c, m, r.id>>}
        PROVE  begun' \subseteq Nat \X Nat \X Nat
    <3>1. c \in Nat /\ r.id \in Nat
      BY <1>1, AddressesOfRequests DEF Commands
    <3> QED BY <2>2, <3>1 DEF CodesTyped
  <2> QED BY <2>1, <2>2, MailsBegin
<1>3. mailed' \subseteq Mails /\ accepted' \subseteq Nat \X Nat
  <2>1. CASE UNCHANGED <<mailed, accepted>>
    BY <2>1 DEF CodesTyped
  <2>2. CASE sendSafely(r)
    <3>1. r.email \in Emails \cup {Nothing} /\ seen[r].row \in Nat /\ seen[r].n \in Nat
      BY AddressesOfRequests DEF Commands, RequestsTyped, IsSight
    <3>2. <<r.email, "code", seen[r].row>> \in Mails /\ <<seen[r].row, seen[r].n>> \in Nat \X Nat
      BY <3>1 DEF Mails
    <3> QED BY <2>2, <3>2 DEF sendSafely, CodesTyped
  <2> QED BY <2>1, <2>2, CodeHistories
<1> QED BY <1>1, <1>2, <1>3 DEF CodesTyped

(* ... and so in one minute by one request. *)
LEMMA MailsStaySpaced ==
    ASSUME IInv, NEW r \in plot.requests, CodeActions(r)
    PROVE  Spaced'
<1> USE DEF IInv
<1>0. /\ code \in Seq(CodeRows) /\ code' \in Seq(CodeRows) /\ Grown(code') /\ accepted \subseteq accepted'
      /\ \A c \in DOMAIN code : code[c].attempt \in Nat
      /\ \A x \in begun : x[1] \in DOMAIN code /\ x[2] \in Nat /\ x[2] <= code[x[1]].attempt
  BY CodesDoMoveOn, RowsAreTyped DEF CodesTyped, CodesMoveOn, Grown, Spaced
<1>1. \A c \in DOMAIN code : c \in DOMAIN code' /\ code'[c].attempt >= code[c].attempt /\ code'[c].attempt \in Nat
  <2>1. \A c \in DOMAIN code : c \in DOMAIN code' /\ code'[c].attempt >= code[c].attempt
    BY <1>0 DEF Grown
  <2>2. \A row \in CodeRows : row.attempt \in Nat
    BY DEF CodeRows
  <2>3. \A c \in DOMAIN code' : code'[c] \in CodeRows
    BY <1>0
  <2> QED BY <2>1, <2>2, <2>3
<1>2. \A x \in begun : x[1] \in DOMAIN code' /\ x[2] <= code'[x[1]].attempt
  BY <1>0, <1>1
<1>3. \A x \in begun' : x[1] \in DOMAIN code' /\ x[2] <= code'[x[1]].attempt
  BY <1>2, MailsBegin
<1>4. \A x, y \in begun' : x[1] = y[1] /\ x[2] = y[2] => x = y
  <2>1. \A x, y \in begun : x[1] = y[1] /\ x[2] = y[2] => x = y
    BY DEF Spaced, MailIsSpaced
  <2>2. ASSUME NEW c \in DOMAIN code', NEW m \in Nat, begun' = begun \cup {<<c, m, r.id>>},
               c \in DOMAIN code => code[c].attempt < m
        PROVE  \A x, y \in begun' : x[1] = y[1] /\ x[2] = y[2] => x = y
    <3>1. \A x \in begun : ~(x[1] = c /\ x[2] = m)
      BY <1>0, <2>2
    <3> QED BY <2>1, <2>2, <3>1
  <2> QED BY <2>1, <2>2, MailsBegin
<1>5. ASSUME NEW c \in DOMAIN code', code'[c].live, code'[c].sent # 0
      PROVE  <<c, code'[c].sent>> \in accepted'
  <2>1. CASE c \in DOMAIN code
    <3>1. code[c].live /\ (code'[c].sent = code[c].sent \/ <<c, code'[c].sent>> \in accepted)
      BY <1>0, <1>5, <2>1, NotesStay DEF Grown
    <3>2. code[c].sent # 0 => <<c, code[c].sent>> \in accepted
      BY <2>1, <3>1 DEF Spaced, MailIsSpaced, Rows
    <3> QED BY <1>0, <1>5, <3>1, <3>2
  <2>2. CASE c \notin DOMAIN code
    <3>1. PICK u : Added(r, u)
      BY <1>0, <2>2, CodesAreAdded
    <3>2. c = Len(code) + 1
      BY <1>0, <2>2, <3>1 DEF Added
    <3> QED BY <1>5, <3>1, <3>2 DEF Added, NewCode
  <2> QED BY <2>1, <2>2
<1> QED BY <1>3, <1>4, <1>5 DEF Spaced, MailIsSpaced, Rows

(* Where a step leaves a request. *)
LEMMA Arrivals ==
    ASSUME RequestsTyped, NEW r \in plot.requests
    PROVE  /\ \A to, s : Goes(r, to, s) \/ Reads(r, to, s) => pc'[r] = to /\ seen'[r] = s
           /\ \A to : Place(r, to) /\ UNCHANGED seen => pc'[r] = to /\ seen'[r] = seen[r]
           /\ Done(r) \/ Answered(r) => pc'[r] = "done" /\ seen'[r] = seen[r]
           /\ Ends(r) \/ Refused(r) => pc'[r] = "refused" /\ seen'[r] = seen[r]
  BY DEF RequestsTyped, Goes, Reads, Place, Done, Answered, Ends, Refused

(* Whoever asks for a new password does not forget for whom. *)
LEMMA AskersStay ==
    ASSUME IInv, NEW r \in plot.requests, CodeActions(r), r.op = "forgotPassword", pc[r] # "new"
    PROVE  seen'[r].user = seen[r].user
<1> USE DEF IInv
<1>0. IsSight(seen[r])
  BY DEF RequestsTyped
<1>1. CASE requestCode(r)
  BY <1>1, Arrivals DEF requestCode, Arrives, At, Passes, ToSend, Renewed, Done
<1>2. CASE forgotPassword(r)
  BY <1>2, Arrivals DEF forgotPassword, Arrives, At, Passes, ToSend, Renewed, Done
<1>3. CASE findCode(r)
  <2> DEFINE found == Found(TypeOf(r), seen[r].user, r.email)
             sight == [seen[r] EXCEPT !.row = Only(found), !.n = code[Only(found)].minute,
                                      !.entry = code[Only(found)].attempt]
  <2>1. Reads(r, "insert", seen[r]) \/ \E to : Reads(r, to, sight)
    BY <1>3 DEF findCode
  <2>2. seen'[r] = seen[r] \/ seen'[r] = sight
    BY <2>1, Arrivals
  <2> QED BY <1>0, <2>2 DEF IsSight
<1>4. CASE discard(r)
  BY <1>4, Arrivals DEF discard, Arrives, At, Passes, ToSend, Renewed, Done
<1>5. CASE insert(r)
  <2>1. seen'[r] = seen[r] \/ seen'[r] = [seen[r] EXCEPT !.row = Len(code) + 1, !.n = 1]
    BY <1>5, Arrivals DEF insert, ToSend
  <2> QED BY <1>0, <2>1 DEF IsSight
<1>6. CASE refind(r)
  <2>1. PICK row : Refused(r) \/ Reads(r, "claim", [seen[r] EXCEPT !.row = row])
    BY <1>6 DEF refind
  <2>2. seen'[r] = seen[r] \/ seen'[r] = [seen[r] EXCEPT !.row = row]
    BY <2>1, Arrivals
  <2> QED BY <1>0, <2>2 DEF IsSight
<1>7. CASE claimExisting(r)
  <2>1. seen'[r] = seen[r] \/ seen'[r] = [seen[r] EXCEPT !.row = seen[r].row, !.n = code[seen[r].row].minute]
    BY <1>7, Arrivals DEF claimExisting, ToSend
  <2> QED BY <1>0, <2>1 DEF IsSight
<1>8. CASE readLatest(r)
  BY <1>8, Arrivals DEF readLatest, Arrives, At, Passes, ToSend, Renewed, Done
<1>9. CASE sendSafely(r)
  BY <1>9, Arrivals DEF sendSafely, Arrives, At, Passes, ToSend, Renewed, Done
<1>10. CASE markDelivered(r)
  BY <1>10, Arrivals DEF markDelivered, Arrives, At, Passes, ToSend, Renewed, Done
<1>11. CASE requestChangeEmailCode(r)
  BY <1>11, Arrivals DEF requestChangeEmailCode, Arrives, At, Passes, ToSend, Renewed, Done
<1>12. CASE findAccount(r)
  BY <1>12, Arrivals DEF findAccount, Arrives, At, Passes, ToSend, Renewed, Done
<1>13. CASE lookForCode(r)
  BY <1>13 DEF lookForCode, Stands, CodeSights, CodeSight, Enters, Entering
<1>14. CASE refuseCode(r)
  BY <1>14, Arrivals DEF refuseCode, Arrives, At, Passes, ToSend, Renewed, Done
<1>15. CASE verifyAndComplete(r)
  BY <1>15, Arrivals DEF verifyAndComplete, Arrives, At, Passes, ToSend, Renewed, Done
<1>16. CASE resetPassword(r)
  BY <1>16, Arrivals DEF resetPassword, Arrives, At, Passes, ToSend, Renewed, Done
<1>17. CASE verifyChangeEmail(r)
  BY <1>17, Arrivals DEF verifyChangeEmail, Arrives, At, Passes, ToSend, Renewed, Done
<1>18. CASE readOldPassword(r)
  BY <1>18, Arrivals DEF readOldPassword, Arrives, At, Passes, ToSend, Renewed, Done
<1>19. CASE changePassword(r)
  BY <1>19, Arrivals DEF changePassword, Arrives, At, Passes, ToSend, Renewed, Done
<1> QED BY <1>1, <1>2, <1>3, <1>4, <1>5, <1>6, <1>7, <1>8, <1>9, <1>10, <1>11, <1>12, <1>13, <1>14, <1>15, <1>16,
       <1>17, <1>18, <1>19 DEF CodeActions

LEMMA AskedStays ==
    ASSUME IInv, NEW r \in plot.requests, CodeActions(r)
    PROVE  \A e, c : c \in DOMAIN code /\ code[c].user # Nothing /\ WasAsked(e, c) => WasAsked(e, c)'
<1> USE DEF IInv
<1>1. \A q \in plot.requests : q.op = "forgotPassword" /\ seen[q].user # Nothing => seen'[q].user = seen[q].user
  <2>1. \A q \in plot.requests \ {r} : seen'[q] = seen[q]
    <3>1. Moves(r, {"new"} \cup CodePlaces, Ended \cup CodePlaces)
      BY CodeMoves
    <3>2. {"done", "refused"} \cap ({"new"} \cup CodePlaces) = {}
      BY DEF CodePlaces
    <3> QED BY <3>1, <3>2, MovesGoOn
  <2>2. r.op = "forgotPassword" /\ seen[r].user # Nothing => seen'[r].user = seen[r].user
    BY AskersStay DEF CodeSights, CodeSight
  <2> QED BY <2>1, <2>2
<1>2. plot' = plot /\ \A c \in DOMAIN code : code'[c].user = code[c].user
  BY CodesDoMoveOn DEF CodesMoveOn, Grown
<1> QED BY <1>1, <1>2 DEF WasAsked

(* What others know stays true, ... *)
LEMMA OtherSightsStay ==
    ASSUME IInv, CodesMoveOn, NEW q \in plot.requests, pc'[q] = pc[q], seen'[q] = seen[q]
    PROVE  CodeSight(q)'
<1> USE DEF IInv
<1>0. CodeSight(q) /\ CodesMoveOn
  BY DEF CodeSights
<1>1. \A c \in DOMAIN code : /\ c \in DOMAIN code' /\ code'[c].user = code[c].user
                             /\ code'[c].email = code[c].email /\ code'[c].type = code[c].type
  BY <1>0 DEF CodesMoveOn, Grown, CodesTyped
<1>2. AsksFor(q) => AsksFor(q)'
  BY <1>0 DEF AsksFor, CodesMoveOn
<1>3. RowOf(q) => RowOf(q)'
  BY <1>1 DEF RowOf
<1>4. Enters(q) => Enters(q)'
  BY <1>0, <1>1 DEF Enters, CodesMoveOn
<1> QED BY <1>0, <1>2, <1>3, <1>4 DEF CodeSight, CodesMoveOn

(* ... and what r knows, once it has gone on. *)
LEMMA AsksOn ==
    ASSUME IInv, CodesMoveOn, NEW r \in plot.requests, AsksFor(r), seen'[r].user = seen[r].user,
           pc[r] \in {"send", "mark"} => pc'[r] \in {"send", "mark"}
    PROVE  AsksFor(r)'
  BY DEF AsksFor, CodesMoveOn

LEMMA FoundIsRow ==
    ASSUME IInv, NEW r \in plot.requests, AsksFor(r), pc[r] \notin {"send", "mark"},
           Found(TypeOf(r), seen[r].user, r.email) # {}
    PROVE  LET c == Only(Found(TypeOf(r), seen[r].user, r.email))
           IN  /\ c \in DOMAIN code
               /\ IF r.op = "forgotPassword" THEN code[c].type = "PASSWORD_RESET" /\ code[c].user = seen[r].user
                  ELSE code[c].email = r.email
<1> USE DEF IInv
<1> DEFINE found == Found(TypeOf(r), seen[r].user, r.email)
<1>1. \A c \in found :
        /\ c \in DOMAIN code
        /\ IF r.op = "forgotPassword" THEN code[c].type = "PASSWORD_RESET" /\ code[c].user = seen[r].user
           ELSE code[c].email = r.email
  BY AccountsAssumption, TypesOfCodes DEF Found, Rows, AsksFor
<1>2. Only(found) \in found
  BY Chosen
<1> HIDE DEF found
<1>3. /\ Only(found) \in DOMAIN code
      /\ IF r.op = "forgotPassword" THEN code[Only(found)].type = "PASSWORD_RESET" /\ code[Only(found)].user = seen[r].user
         ELSE code[Only(found)].email = r.email
  BY <1>1, <1>2
<1> QED BY <1>3 DEF found

LEMMA RowsGoOn ==
    ASSUME IInv, CodesMoveOn, NEW r \in plot.requests, seen'[r].user = seen[r].user,
           seen'[r].row \in DOMAIN code,
           IF r.op = "forgotPassword"
           THEN code[seen'[r].row].type = "PASSWORD_RESET" /\ code[seen'[r].row].user = seen[r].user
           ELSE code[seen'[r].row].email = r.email
    PROVE  RowOf(r)'
<1>1. \A c \in DOMAIN code : /\ c \in DOMAIN code' /\ code'[c].user = code[c].user
                             /\ code'[c].email = code[c].email /\ code'[c].type = code[c].type
  BY DEF IInv, CodesMoveOn, Grown, CodesTyped
<1> QED BY <1>1 DEF RowOf

(* A row that is added is that of whom it is added for. *)
LEMMA NewRowIsRow ==
    ASSUME IInv, CodesMoveOn, NEW r \in plot.requests, NEW u, Added(r, u)
    PROVE  RowOf(r)' /\ pc'[r] = "send" /\ seen'[r].user = seen[r].user
<1> USE DEF IInv
<1> DEFINE c == Len(code) + 1
<1>1. pc'[r] = "send" /\ seen'[r] = [seen[r] EXCEPT !.row = c, !.n = 1]
  BY Arrivals DEF Added, ToSend
<1>2. seen'[r].row = c /\ seen'[r].user = seen[r].user
  BY <1>1 DEF RequestsTyped, IsSight
<1>3. c \in DOMAIN code'
  BY DEF Added, CodesMoveOn, Grown, CodesTyped
<1>4. code'[c].type = TypeOf(r) /\ code'[c].user = u /\ code'[c].email = r.email
  BY DEF Added, NewCode
<1> HIDE DEF c
<1>5. RowOf(r)'
  BY <1>2, <1>3, <1>4, TypesOfCodes DEF RowOf, Added
<1> QED BY <1>1, <1>2, <1>5

LEMMA SightsGoOn ==
    ASSUME IInv, NEW r \in plot.requests, CodeActions(r)
    PROVE  CodeSight(r)'
<1> USE DEF IInv
<1>0. CodeSight(r) /\ IsSight(seen[r]) /\ IsSight(NoSight) /\ CodesMoveOn
  BY NoSightIsSight, CodesDoMoveOn DEF CodeSights, RequestsTyped
<1>e. CASE pc'[r] \in Ended
  BY <1>e DEF CodeSight, Ended, Asking_
<1>a. ASSUME NEW u, Added(r, u)
      PROVE  CodeSight(r)'
  <2>1. RowOf(r)' /\ pc'[r] = "send" /\ seen'[r].user = seen[r].user
    BY <1>0, <1>a, NewRowIsRow
  <2>2. AsksFor(r)'
    BY <1>0, <1>a, <2>1 DEF Added, AsksFor, CodesMoveOn
  <2> QED BY <2>1, <2>2 DEF CodeSight, Asking_
<1>1. CASE requestCode(r)
  <2>1. CASE Reads(r, "find", NoSight)
    <3>1. pc'[r] = "find" /\ seen'[r] = NoSight /\ r.op = "requestCode"
      BY <1>1, <2>1, Arrivals DEF requestCode, Arrives
    <3>2. AsksFor(r)'
      BY <3>1 DEF AsksFor, NoSight
    <3> QED BY <3>1, <3>2 DEF CodeSight, Asking_
  <2>2. CASE Refused(r)
    BY <1>e, <2>2, Arrivals DEF Ended
  <2> QED BY <1>1, <2>1, <2>2 DEF requestCode
<1>2. CASE forgotPassword(r)
  <2> DEFINE us == {u \in Holders(r.email) : Live(u)}
  <2>1. Answered(r) \/ (us # {} /\ Reads(r, "find", [NoSight EXCEPT !.user = Only(us)]))
    BY <1>2 DEF forgotPassword
  <2>2. CASE Answered(r)
    BY <1>e, <2>2, Arrivals DEF Ended
  <2>3. CASE us # {} /\ Reads(r, "find", [NoSight EXCEPT !.user = Only(us)])
    <3>1. Only(us) \in Users /\ account[Only(us)].state # "none"
      <4>1. \A u \in us : u \in Users /\ account[u].state # "none"
        BY DEF Holders
      <4> HIDE DEF us
      <4> QED BY <2>3, <4>1, Chosen
    <3> HIDE DEF us
    <3>2. pc'[r] = "find" /\ seen'[r].user = Only(us) /\ r.op = "forgotPassword"
      <4>1. pc'[r] = "find" /\ seen'[r] = [NoSight EXCEPT !.user = Only(us)] /\ r.op = "forgotPassword"
        BY <1>2, <2>3, Arrivals DEF forgotPassword, Arrives
      <4> QED BY <4>1 DEF NoSight
    <3>3. AsksFor(r)'
      BY <1>0, <3>1, <3>2 DEF AsksFor, CodesMoveOn
    <3> QED BY <3>2, <3>3 DEF CodeSight, Asking_
  <2> QED BY <2>1, <2>2, <2>3
<1>3. CASE findCode(r)
  <2> DEFINE found == Found(TypeOf(r), seen[r].user, r.email)
             sight == [seen[r] EXCEPT !.row = Only(found), !.n = code[Only(found)].minute,
                                      !.entry = code[Only(found)].attempt]
  <2>1. AsksFor(r) /\ pc[r] = "find"
    BY <1>3, <1>0 DEF findCode, Stands, CodeSight, Asking_
  <2>2. Reads(r, "insert", seen[r]) \/ (found # {} /\ \E to \in {"claim", "discard"} : Reads(r, to, sight))
    BY <1>3 DEF findCode
  <2>3. CASE Reads(r, "insert", seen[r])
    <3>1. pc'[r] = "insert" /\ seen'[r] = seen[r]
      BY <2>3, Arrivals
    <3> QED BY <1>0, <2>1, <3>1, AsksOn DEF CodeSight, Asking_
  <2>4. CASE found # {} /\ \E to \in {"claim", "discard"} : Reads(r, to, sight)
    <3>1. pc'[r] \in {"claim", "discard"} /\ seen'[r].user = seen[r].user /\ seen'[r].row = Only(found)
      <4>1. pc'[r] \in {"claim", "discard"} /\ seen'[r] = sight
        BY <2>4, Arrivals
      <4> QED BY <1>0, <4>1 DEF IsSight
    <3>2. RowOf(r)'
      BY <1>0, <2>1, <2>4, <3>1, FoundIsRow, RowsGoOn
    <3> QED BY <1>0, <2>1, <3>1, <3>2, AsksOn DEF CodeSight, Asking_
  <2> HIDE DEF found, sight
  <2> QED BY <2>2, <2>3, <2>4
<1>4. CASE discard(r)
  <2>1. pc'[r] = "insert" /\ seen'[r] = seen[r]
    BY <1>4, Arrivals DEF discard
  <2>2. AsksFor(r) /\ pc[r] = "discard"
    BY <1>4, <1>0 DEF discard, Stands, CodeSight, Asking_
  <2> QED BY <1>0, <2>1, <2>2, AsksOn DEF CodeSight, Asking_
<1>5. CASE insert(r)
  <2>1. AsksFor(r) /\ pc[r] = "insert"
    BY <1>5, <1>0 DEF insert, Stands, CodeSight, Asking_
  <2>2. CASE Reads(r, "refind", seen[r])
    <3>1. pc'[r] = "refind" /\ seen'[r] = seen[r]
      BY <2>2, Arrivals
    <3> QED BY <1>0, <2>1, <3>1, AsksOn DEF CodeSight, Asking_
  <2>3. CASE ~Reads(r, "refind", seen[r])
    <3>1. Len(code') # Len(code)
      BY <1>5, <2>3 DEF insert, CodesBecome, CodesTyped
    <3> QED BY <1>a, <3>1, CodesAreAdded
  <2> QED BY <2>2, <2>3
<1>6. CASE refind(r)
  <2> DEFINE found == Found(TypeOf(r), seen[r].user, r.email)
  <2>1. AsksFor(r) /\ pc[r] = "refind"
    BY <1>6, <1>0 DEF refind, Stands, CodeSight, Asking_
  <2>2. Refused(r) \/ (found # {} /\ Reads(r, "claim", [seen[r] EXCEPT !.row = Only(found)]))
    BY <1>6 DEF refind
  <2>3. CASE Refused(r)
    BY <1>e, <2>3, Arrivals DEF Ended
  <2>4. CASE found # {} /\ Reads(r, "claim", [seen[r] EXCEPT !.row = Only(found)])
    <3>1. pc'[r] = "claim" /\ seen'[r].user = seen[r].user /\ seen'[r].row = Only(found)
      <4>1. pc'[r] = "claim" /\ seen'[r] = [seen[r] EXCEPT !.row = Only(found)]
        BY <2>4, Arrivals
      <4> QED BY <1>0, <4>1 DEF IsSight
    <3>2. RowOf(r)'
      BY <1>0, <2>1, <2>4, <3>1, FoundIsRow, RowsGoOn
    <3> QED BY <1>0, <2>1, <3>1, <3>2, AsksOn DEF CodeSight, Asking_
  <2> HIDE DEF found
  <2> QED BY <2>2, <2>3, <2>4
<1>7. CASE claimExisting(r)
  <2>1. AsksFor(r) /\ RowOf(r) /\ pc[r] = "claim"
    BY <1>7, <1>0 DEF claimExisting, Stands, CodeSight, Asking_
  <2>2. pc'[r] \in {"latest", "send"} /\ seen'[r].user = seen[r].user /\ seen'[r].row = seen[r].row
    <3>1. /\ pc'[r] \in {"latest", "send"}
          /\ seen'[r] = seen[r] \/ seen'[r] = [seen[r] EXCEPT !.row = seen[r].row, !.n = code[seen[r].row].minute]
      BY <1>7, Arrivals DEF claimExisting, ToSend
    <3> QED BY <1>0, <3>1 DEF IsSight
  <2>3. RowOf(r)'
    BY <1>0, <2>1, <2>2, RowsGoOn DEF RowOf
  <2> QED BY <1>0, <2>1, <2>2, <2>3, AsksOn DEF CodeSight, Asking_
<1>8. CASE readLatest(r)
  <2>1. pc'[r] \in Ended
    BY <1>8, Arrivals DEF readLatest, Renewed, Ended
  <2> QED BY <1>e, <2>1
<1>9. CASE sendSafely(r)
  <2>1. AsksFor(r) /\ RowOf(r) /\ pc[r] = "send"
    BY <1>9, <1>0 DEF sendSafely, Stands, CodeSight, Asking_
  <2>2. CASE Done(r)
    BY <1>e, <2>2, Arrivals DEF Ended
  <2>3. CASE Place(r, "mark") /\ UNCHANGED seen /\ accepted' = accepted \cup {<<seen[r].row, seen[r].n>>}
    <3>1. pc'[r] = "mark" /\ seen'[r] = seen[r]
      BY <2>3, Arrivals
    <3>2. RowOf(r)'
      BY <1>0, <2>1, <3>1, RowsGoOn DEF RowOf
    <3>3. AsksFor(r)'
      BY <1>0, <2>1, <3>1, AsksOn
    <3> QED BY <2>3, <3>1, <3>2, <3>3 DEF CodeSight, Asking_
  <2> QED BY <1>9, <2>2, <2>3 DEF sendSafely
<1>10. CASE markDelivered(r)
  <2>1. pc'[r] \in Ended
    BY <1>10, Arrivals DEF markDelivered, Renewed, Ended
  <2> QED BY <1>e, <2>1
<1>11. CASE requestChangeEmailCode(r)
  <2> DEFINE u == r.user
             old == Found("CHANGE_EMAIL", u, r.email)
             reused == {c \in old : code[c].fresh /\ code[c].email = r.email}
             rest == Without(old)
             added == Append(rest, NewCode("CHANGE_EMAIL", u, r.email))
             c == Only(reused)
  <2>1. \/ Refused(r) \/ Answered(r)
        \/ reused # {} /\ ToSend(r, c, code[c].minute)
        \/ code' = added
    BY <1>11 DEF requestChangeEmailCode, CodesBecome
  <2>2. CASE Refused(r) \/ Answered(r)
    BY <1>e, <2>2, Arrivals DEF Ended
  <2>3. CASE reused # {} /\ ToSend(r, c, code[c].minute)
    <3>1. \A d \in reused : d \in DOMAIN code /\ code[d].email = r.email
      BY DEF Found, Rows
    <3> HIDE DEF reused
    <3>2. c \in DOMAIN code /\ code[c].email = r.email
      BY <2>3, <3>1, Chosen
    <3>3. pc'[r] = "send" /\ seen'[r].user = seen[r].user /\ seen'[r].row = c /\ r.op = "requestChangeEmailCode"
      <4>1. pc'[r] = "send" /\ seen'[r] = [seen[r] EXCEPT !.row = c, !.n = code[c].minute]
        BY <2>3, Arrivals DEF ToSend
      <4>2. r.op = "requestChangeEmailCode"
        BY <1>11 DEF requestChangeEmailCode, Arrives
      <4> QED BY <1>0, <4>1, <4>2 DEF IsSight
    <3> HIDE DEF c
    <3>4. RowOf(r)'
      BY <1>0, <3>2, <3>3, RowsGoOn
    <3> QED BY <3>3, <3>4 DEF CodeSight, Asking_, AsksFor
  <2>4. CASE code' = added
    <3>1. Len(rest) = Len(code) /\ rest \in Seq(CodeRows)
      BY CodesWithout DEF Grown
    <3> HIDE DEF rest
    <3>2. Len(code') # Len(code)
      BY <2>4, <3>1 DEF CodesTyped
    <3> QED BY <1>a, <3>2, CodesAreAdded
  <2> HIDE DEF reused, added, c
  <2> QED BY <2>1, <2>2, <2>3, <2>4
<1>12. CASE findAccount(r)
  <2> DEFINE us == {u \in Holders(r.email) : Live(u)}
  <2>1. \/ Refused(r) \/ (r.op # "resetPassword" /\ Reads(r, "look", [NoSight EXCEPT !.user = r.user]))
        \/ r.op = "resetPassword" /\ us # {} /\ Reads(r, "look", [NoSight EXCEPT !.user = Only(us)])
    BY <1>12 DEF findAccount
  <2>2. CASE Refused(r)
    BY <1>e, <2>2, Arrivals DEF Ended
  <2>3. us # {} => Only(us) \in Users
    <3>1. us \subseteq Users
      BY DEF Holders
    <3> HIDE DEF us
    <3> QED BY <3>1, Chosen
  <2> HIDE DEF us
  <2>4. CASE ~Refused(r)
    <3>1. pc'[r] = "look" /\ IF r.op = "resetPassword" THEN seen'[r].user \in Users ELSE seen'[r].user = r.user
      <4>1. /\ pc'[r] = "look"
            /\ IF r.op = "resetPassword" THEN us # {} /\ seen'[r] = [NoSight EXCEPT !.user = Only(us)]
               ELSE seen'[r] = [NoSight EXCEPT !.user = r.user]
        BY <2>1, <2>4, Arrivals
      <4> QED BY <2>3, <4>1 DEF NoSight
    <3>2. r.op \in Entering
      BY <1>12 DEF findAccount
    <3> QED BY <3>1, <3>2 DEF CodeSight, Asking_, Enters, Entering
  <2> QED BY <2>2, <2>4
<1>13. CASE lookForCode(r)
  <2>1. Enters(r) /\ pc[r] = "look"
    BY <1>13, <1>0 DEF lookForCode, Stands, CodeSight
  <2>2. CASE Refused(r)
    BY <1>e, <2>2, Arrivals DEF Ended
  <2>3. CASE ~Refused(r)
    <3>1. PICK c \in Rows, entry \in Readable(r) :
                Reads(r, "enter", [seen[r] EXCEPT !.row = c, !.entry = entry, !.n = code[c].wrong])
      BY <1>13, <2>3 DEF lookForCode
    <3>2. pc'[r] = "enter" /\ seen'[r].user = seen[r].user /\ seen'[r].row = c /\ seen'[r].entry = entry
      <4>1. pc'[r] = "enter" /\ seen'[r] = [seen[r] EXCEPT !.row = c, !.entry = entry, !.n = code[c].wrong]
        BY <3>1, Arrivals
      <4> QED BY <1>0, <4>1 DEF IsSight
    <3>3. c \in DOMAIN code' /\ mailed \subseteq mailed'
      BY <1>0 DEF CodesMoveOn, Grown, CodesTyped, Rows
    <3>4. entry # 0 => <<r.mailbox, "code", entry>> \in mailed
      BY DEF Readable
    <3>5. Enters(r)'
      BY <2>1, <3>2, <3>3, <3>4 DEF Enters
    <3> QED BY <2>1, <3>2, <3>5 DEF CodeSight, Asking_, Enters, Entering
  <2> QED BY <2>2, <2>3
<1>14. CASE refuseCode(r)
  <2>1. pc'[r] \in Ended
    BY <1>14, Arrivals DEF refuseCode, Renewed, Ended
  <2> QED BY <1>e, <2>1
<1>15. CASE verifyAndComplete(r)
  <2>1. pc'[r] \in Ended
    BY <1>15, Arrivals DEF verifyAndComplete, Renewed, Ended
  <2> QED BY <1>e, <2>1
<1>16. CASE resetPassword(r)
  <2>1. pc'[r] \in Ended
    BY <1>16, Arrivals DEF resetPassword, Renewed, Ended
  <2> QED BY <1>e, <2>1
<1>17. CASE verifyChangeEmail(r)
  <2>1. pc'[r] \in Ended
    BY <1>17, Arrivals DEF verifyChangeEmail, Renewed, Ended
  <2> QED BY <1>e, <2>1
<1>18. CASE readOldPassword(r)
  <2>1. pc'[r] \in {"refused", "change"}
    BY <1>18, Arrivals DEF readOldPassword
  <2> QED BY <2>1 DEF CodeSight, Asking_
<1>19. CASE changePassword(r)
  <2>1. pc'[r] \in Ended
    BY <1>19, Arrivals DEF changePassword, Renewed, Ended
  <2> QED BY <1>e, <2>1
<1> QED BY <1>1, <1>2, <1>3, <1>4, <1>5, <1>6, <1>7, <1>8, <1>9, <1>10, <1>11, <1>12, <1>13, <1>14, <1>15, <1>16,
       <1>17, <1>18, <1>19 DEF CodeActions

LEMMA SightsOfCodesStay ==
    ASSUME IInv, NEW r \in plot.requests, CodeActions(r)
    PROVE  CodeSights'
<1> USE DEF IInv
<1>0. Moves(r, {"new"} \cup CodePlaces, Ended \cup CodePlaces)
  BY CodeMoves
<1>00. {"done", "refused"} \cap ({"new"} \cup CodePlaces) = {}
  BY DEF CodePlaces
<1>1. \A q \in plot.requests \ {r} : pc'[q] = pc[q] /\ seen'[q] = seen[q]
  BY <1>0, <1>00, MovesGoOn
<1>2. \A q \in plot.requests \ {r} : CodeSight(q)'
  BY <1>1, CodesDoMoveOn, OtherSightsStay
<1>3. plot' = plot
  BY CodesDoMoveOn DEF CodesMoveOn
<1> QED BY <1>2, <1>3, SightsGoOn DEF CodeSights

LEMMA MailsStaySound ==
    ASSUME IInv, NEW r \in plot.requests, CodeActions(r)
    PROVE  MailsSound'
<1> USE DEF IInv
<1>0. /\ CodesMoveOn /\ Nothing \notin Users
      /\ \A c \in DOMAIN code : /\ c \in DOMAIN code' /\ code'[c].user = code[c].user
                                /\ code'[c].email = code[c].email /\ code'[c].type = code[c].type
  BY AccountsAssumption, CodesDoMoveOn DEF CodesMoveOn, Grown, CodesTyped
<1>1. ASSUME NEW m \in mailed, m[2] = "code"
      PROVE  /\ m[1] \in Emails /\ m[3] \in DOMAIN code'
             /\ m[1] = code'[m[3]].email \/ (code'[m[3]].type = "PASSWORD_RESET" /\ WasAsked(m[1], m[3])')
  <2>1. /\ m[1] \in Emails /\ m[3] \in DOMAIN code
        /\ m[1] = code[m[3]].email \/ (code[m[3]].type = "PASSWORD_RESET" /\ WasAsked(m[1], m[3]))
    BY <1>1 DEF MailsSound
  <2>2. code[m[3]].type = "PASSWORD_RESET" => code[m[3]].user # Nothing
    BY <2>1 DEF CodesSound
  <2> QED BY <1>0, <2>1, <2>2, AskedStays
<1>2. CASE UNCHANGED mailed
  BY <1>1, <1>2 DEF MailsSound
<1>3. CASE sendSafely(r)
  <2>0. PICK c, new : c = seen[r].row /\ new = <<r.email, "code", c>>
    OBVIOUS
  <2>1. mailed' \subseteq mailed \cup {new} /\ plot' = plot /\ code' = code /\ pc[r] = "send"
    BY <1>3, <2>0 DEF sendSafely, Place, Done, Stands
  <2>2. AsksFor(r) /\ RowOf(r)
    BY <2>1 DEF CodeSights, CodeSight, Asking_
  <2>3. r.email \in Emails /\ c \in DOMAIN code'
    BY <2>0, <2>1, <2>2, AddressesOfRequests DEF AsksFor, RowOf
  <2>4. seen'[r].user = seen[r].user \/ r.op # "forgotPassword"
    BY <2>1, AskersStay
  <2>5. r.email = code'[c].email \/ (code'[c].type = "PASSWORD_RESET" /\ WasAsked(r.email, c)')
    BY <2>0, <2>1, <2>2, <2>4 DEF RowOf, WasAsked
  <2>6. new[1] = r.email /\ new[3] = c
    BY <2>0
  <2>7. /\ new[1] \in Emails /\ new[3] \in DOMAIN code'
        /\ new[1] = code'[new[3]].email \/ (code'[new[3]].type = "PASSWORD_RESET" /\ WasAsked(new[1], new[3])')
    BY <2>3, <2>5, <2>6
  <2> QED BY <1>1, <2>1, <2>7 DEF MailsSound
<1> QED BY <1>2, <1>3, CodeHistories

(* Which code has been mailed to whoever enters it. *)
LEMMA EnteredWasMailed ==
    ASSUME IInv, NEW r \in plot.requests, pc[r] = "enter", Fits(r, seen[r].row), seen[r].entry = seen[r].row
    PROVE  /\ seen[r].row \in DOMAIN code /\ r.email \in Emails
           /\ \E e \in Emails :
                /\ <<e, "code", seen[r].row>> \in mailed
                /\ e = r.email \/ (r.op = "resetPassword" /\ WasAsked(e, seen[r].row))
           /\ r.op = "resetPassword" => code[seen[r].row].user # Nothing
<1> USE DEF IInv
<1> DEFINE c == seen[r].row
           m == <<r.mailbox, "code", c>>
<1>1. Enters(r)
  BY DEF CodeSights, CodeSight
<1>2. c \in DOMAIN code /\ c # 0 /\ code[c] \in CodeRows
  BY <1>1 DEF Enters, CodesTyped
<1>3. m \in mailed
  BY <1>1, <1>2 DEF Enters
<1>4. code[c].email = r.email /\ code[c].type = TypeOf(r)
  BY DEF Fits
<1>5. code[c].type = "PASSWORD_RESET" => r.op = "resetPassword"
  BY <1>1, <1>4, TypesOfCodes DEF Enters, Entering
<1>6. /\ r.mailbox \in Emails
      /\ r.mailbox = code[c].email \/ (code[c].type = "PASSWORD_RESET" /\ WasAsked(r.mailbox, c))
  BY <1>3 DEF MailsSound
<1>7. r.op = "resetPassword" => code[c].user # Nothing
  BY <1>2, <1>4, TypesOfCodes DEF CodesSound
<1>8. r.email \in Emails
  BY <1>2, <1>4 DEF CodeRows
<1> QED BY <1>2, <1>3, <1>4, <1>5, <1>6, <1>7, <1>8

LEMMA ConfirmationsStay ==
    ASSUME IInv, NEW r \in plot.requests, CodeActions(r)
    PROVE  Confirmations'
<1> USE DEF IInv
<1>0. /\ CodesMoveOn /\ mailed \subseteq mailed'
      /\ \A c \in DOMAIN code : c \in DOMAIN code' /\ code'[c].user = code[c].user /\ (code'[c].live => code[c].live)
  BY CodesDoMoveOn DEF CodesMoveOn, Grown, CodesTyped
<1>1. ASSUME NEW x \in confirmed
      PROVE  /\ x.code \in DOMAIN code' /\ ~code'[x.code].live
             /\ x.op = "resetPassword" => code'[x.code].user # Nothing
             /\ \E e \in Emails :
                  /\ <<e, "code", x.code>> \in mailed'
                  /\ e = x.address \/ (x.op = "resetPassword" /\ WasAsked(e, x.code)')
  <2>1. /\ x.code \in DOMAIN code /\ ~code[x.code].live
        /\ x.op = "resetPassword" => code[x.code].user # Nothing
    BY DEF Confirmations
  <2>2. PICK e \in Emails : /\ <<e, "code", x.code>> \in mailed
                            /\ e = x.address \/ (x.op = "resetPassword" /\ WasAsked(e, x.code))
    BY DEF Confirmations
  <2>3. x.op = "resetPassword" /\ WasAsked(e, x.code) => WasAsked(e, x.code)'
    BY <2>1, AskedStays
  <2> QED BY <1>0, <2>1, <2>2, <2>3
<1>2. CASE UNCHANGED confirmed
  BY <1>1, <1>2 DEF Confirmations
<1>3. ASSUME NEW C, Fits(r, seen[r].row), seen[r].entry = seen[r].row, pc[r] = "enter",
             Confirms(r, r.email), code' = Without(C), seen[r].row \in C
      PROVE  Confirmations'
  <2>0. PICK c, new : c = seen[r].row /\ new = [request |-> r.id, op |-> r.op, address |-> r.email, code |-> c]
    OBVIOUS
  <2>1. confirmed' = confirmed \cup {new}
    BY <1>3, <2>0 DEF Confirms
  <2>2. c \in DOMAIN code /\ code[c].live /\ c \in DOMAIN code' /\ ~code'[c].live
    BY <1>3, <2>0, EnteredWasMailed, CodesWithout DEF Fits
  <2>3. PICK e \in Emails : /\ <<e, "code", c>> \in mailed
                            /\ e = r.email \/ (r.op = "resetPassword" /\ WasAsked(e, c))
    BY <1>3, <2>0, EnteredWasMailed
  <2>4. r.op = "resetPassword" => code[c].user # Nothing /\ (WasAsked(e, c) => WasAsked(e, c)')
    BY <1>3, <2>0, <2>2, EnteredWasMailed, AskedStays
  <2>5. new.code = c /\ new.op = r.op /\ new.address = r.email
    BY <2>0
  <2>6. /\ new.code \in DOMAIN code' /\ ~code'[new.code].live
        /\ new.op = "resetPassword" => code'[new.code].user # Nothing
        /\ \E d \in Emails :
             /\ <<d, "code", new.code>> \in mailed'
             /\ d = new.address \/ (new.op = "resetPassword" /\ WasAsked(d, new.code)')
    BY <1>0, <2>2, <2>3, <2>4, <2>5
  <2>7. \A x \in confirmed : x.code # new.code
    BY <2>2, <2>5 DEF Confirmations
  <2>8. \A x, y \in confirmed : x.code = y.code => x = y
    BY DEF Confirmations
  <2> QED BY <1>1, <2>1, <2>6, <2>7, <2>8 DEF Confirmations
<1>4. CASE verifyAndComplete(r)
  BY <1>2, <1>3, <1>4 DEF verifyAndComplete, Passes, At, Refused, tableVars, codeVars
<1>5. CASE resetPassword(r)
  <2>1. CASE ~UNCHANGED confirmed
    <3>1. Confirms(r, r.email) /\ code' = Without(CodesOf(seen[r].user, Resetting) \cup {seen[r].row})
      BY <1>5, <2>1 DEF resetPassword, Renewed, Refused, tableVars, codeVars
    <3> QED BY <1>3, <1>5, <3>1 DEF resetPassword, Passes, At
  <2> QED BY <1>2, <2>1
<1>6. CASE verifyChangeEmail(r)
  <2> DEFINE C == CodesOf(r.user, Types)
  <2>1. CASE ~UNCHANGED confirmed
    <3>1. Confirms(r, r.email) /\ code' = Without(C)
      BY <1>6, <2>1 DEF verifyChangeEmail, Renewed, Refused, tableVars, codeVars
    <3>2. pc[r] = "enter" /\ Fits(r, seen[r].row) /\ seen[r].entry = seen[r].row /\ r.op = "verifyChangeEmail"
      BY <1>6 DEF verifyChangeEmail, Passes, At
    <3>3. Enters(r)
      BY <3>2 DEF CodeSights, CodeSight
    <3>4. code[seen[r].row].user = r.user /\ seen[r].row \in Rows
      BY <3>2, <3>3 DEF Enters, Fits, Rows
    <3>5. seen[r].row \in C
      BY <3>4, RowsAreTyped DEF CodesOf, CodeRows, Rows
    <3> HIDE DEF C
    <3> QED BY <1>3, <3>1, <3>2, <3>5
  <2> QED BY <1>2, <2>1
<1> QED BY <1>2, <1>4, <1>5, <1>6, CodeHistories

(* What a step of the codes writes into the accounts. *)
LEMMA AccountsOfCodes ==
    ASSUME IInv, NEW r \in plot.requests, CodeActions(r)
    PROVE  /\ account' \in [Users -> Accounts_]
           /\ \A u \in Users :
                \/ account'[u] = account[u]
                \/ account[u].state = "none" /\ account'[u] = NewAccount(r) /\ r.email \in Emails
                \/ \E n \in Nat : account'[u] = [account[u] EXCEPT !.password = n]
                \/ \E e \in Emails : account'[u] = [account[u] EXCEPT !.email = e]
           /\ verifyAndComplete(r) \/ \A u \in Users : account'[u].wrong = account[u].wrong
<1> USE DEF IInv
<1>0. /\ account \in [Users -> Accounts_] /\ r \in Commands
      /\ \A row \in Accounts_ : /\ \A n \in Nat : /\ [row EXCEPT !.password = n] \in Accounts_
                                                  /\ [row EXCEPT !.password = n].wrong = row.wrong
                                /\ \A e \in Emails : /\ [row EXCEPT !.email = e] \in Accounts_
                                                     /\ [row EXCEPT !.email = e].wrong = row.wrong
  <2>1. \A row \in Accounts_ : \A n \in Nat : /\ [row EXCEPT !.password = n] \in Accounts_
                                              /\ [row EXCEPT !.password = n].wrong = row.wrong
    BY DEF Accounts_
  <2>2. \A row \in Accounts_ : \A e \in Emails : /\ [row EXCEPT !.email = e] \in Accounts_
                                                 /\ [row EXCEPT !.email = e].wrong = row.wrong
    BY DEF Accounts_
  <2> QED BY <2>1, <2>2, AddressesOfRequests DEF TablesTyped
<1>1. CASE UNCHANGED account
  BY <1>0, <1>1
<1>2. ASSUME NEW u \in Users, NEW n \in Nat, account' = [account EXCEPT ![u].password = n]
      PROVE  /\ account' \in [Users -> Accounts_]
             /\ \A v \in Users : account'[v] = account[v] \/ account'[v] = [account[v] EXCEPT !.password = n]
             /\ \A v \in Users : account'[v].wrong = account[v].wrong
  <2>1. account' = [account EXCEPT ![u] = [account[u] EXCEPT !.password = n]]
    BY <1>2
  <2> QED BY <1>0, <2>1
<1>3. ASSUME NEW u \in Users, NEW e \in Emails, account' = [account EXCEPT ![u].email = e]
      PROVE  /\ account' \in [Users -> Accounts_]
             /\ \A v \in Users : account'[v] = account[v] \/ account'[v] = [account[v] EXCEPT !.email = e]
             /\ \A v \in Users : account'[v].wrong = account[v].wrong
  <2>1. account' = [account EXCEPT ![u] = [account[u] EXCEPT !.email = e]]
    BY <1>3
  <2> QED BY <1>0, <2>1
<1>4. CASE verifyAndComplete(r)
  <2>1. CASE ~UNCHANGED account
    <3>1. account[r.user].state = "none" /\ account' = [account EXCEPT ![r.user] = NewAccount(r)]
      BY <1>4, <2>1 DEF verifyAndComplete, Refused, tableVars
    <3>2. r.email \in Emails
      BY <1>4, EnteredWasMailed DEF verifyAndComplete, Passes, At
    <3>3. NewAccount(r) \in Accounts_
      BY <1>0, <3>2 DEF NewAccount, Accounts_, Commands
    <3> QED BY <1>0, <1>4, <3>1, <3>2, <3>3
  <2> QED BY <1>1, <2>1
<1>5. CASE resetPassword(r)
  <2> DEFINE u == seen[r].user
  <2>1. u \in Users
    BY <1>5 DEF resetPassword, Passes, At, CodeSights, CodeSight, Enters
  <2>2. CASE ~UNCHANGED account
    <3>1. account' = [account EXCEPT ![u].password = @ + 1]
      BY <1>5, <2>2 DEF resetPassword, Renewed, Refused, tableVars
    <3>2. account' = [account EXCEPT ![u].password = account[u].password + 1] /\ account[u].password + 1 \in Nat
      BY <1>0, <2>1, <3>1 DEF Accounts_
    <3> HIDE DEF u
    <3> QED BY <1>2, <2>1, <3>2
  <2> QED BY <1>1, <2>2
<1>6. CASE changePassword(r)
  <2> DEFINE u == r.user
  <2>1. u \in Users
    BY <1>0 DEF Commands
  <2>2. CASE ~UNCHANGED account
    <3>1. account' = [account EXCEPT ![u].password = @ + 1]
      BY <1>6, <2>2 DEF changePassword, Renewed, Refused, tableVars
    <3>2. account' = [account EXCEPT ![u].password = account[u].password + 1] /\ account[u].password + 1 \in Nat
      BY <1>0, <2>1, <3>1 DEF Accounts_
    <3> HIDE DEF u
    <3> QED BY <1>2, <2>1, <3>2
  <2> QED BY <1>1, <2>2
<1>7. CASE verifyChangeEmail(r)
  <2>1. r.user \in Users /\ r.email \in Emails
    BY <1>0, <1>7, EnteredWasMailed DEF Commands, verifyChangeEmail, Passes, At
  <2>2. CASE ~UNCHANGED account
    <3>1. account' = [account EXCEPT ![r.user].email = r.email]
      BY <1>7, <2>2 DEF verifyChangeEmail, Renewed, Refused, tableVars
    <3> QED BY <1>3, <2>1, <3>1
  <2> QED BY <1>1, <2>2
<1>8. UNCHANGED account \/ verifyAndComplete(r) \/ resetPassword(r) \/ changePassword(r) \/ verifyChangeEmail(r)
  BY DEF CodeActions, requestCode, forgotPassword, findCode, discard, insert, refind, claimExisting, readLatest,
         sendSafely, markDelivered, requestChangeEmailCode, findAccount, lookForCode, refuseCode, readOldPassword,
         Reads, Refused, Answered, CodesBecome, tableVars
<1> QED BY <1>1, <1>4, <1>5, <1>6, <1>7, <1>8

LEMMA TablesOfCodes ==
    ASSUME IInv, NEW r \in plot.requests, CodeActions(r)
    PROVE  TablesTyped' /\ AccountsSound' /\ TerminalsSound' /\ ProfilesStay
<1> USE DEF IInv
<1>0. CodesMoveOn /\ account' \in [Users -> Accounts_] /\ account \in [Users -> Accounts_]
  BY CodesDoMoveOn, AccountsOfCodes DEF TablesTyped
<1>1. UNCHANGED <<challenge, adminSession, appealing, device, settings, pauses, clock, behind, picture, profile, suspect, renames>>
  BY <1>0 DEF CodesMoveOn, adminVars, deviceVars, settingVars, profileVars
<1>2. TablesTyped'
  BY <1>0, <1>1 DEF TablesTyped, CodesMoveOn, There
<1>3. TerminalsSound'
  BY <1>0 DEF TerminalsSound, CodesMoveOn
<1>4. ASSUME NEW u \in Users
      PROVE  /\ account'[u].state = "live" => account'[u].email \in Emails
             /\ account'[u].state = "none" => account'[u].wrong = 0
             /\ PicturesOf(account'[u]) \subseteq There
             /\ \/ account[u].state = "none" /\ ~account'[u].renamed
                \/ /\ account[u].state # "none" /\ account'[u].state # "none"
                   /\ account'[u].renamed = account[u].renamed /\ Profile(u)' = Profile(u)
  <2>1. /\ account[u].state = "live" => account[u].email \in Emails
        /\ account[u].state = "none" => account[u].wrong = 0
        /\ PicturesOf(account[u]) \subseteq There
        /\ account[u].state = "none" => ~account[u].renamed
    BY DEF AccountsSound, RenamesSound
  <2>2. CASE account'[u] = account[u]
    BY <2>1, <2>2 DEF Profile
  <2>3. CASE account[u].state = "none" /\ account'[u] = NewAccount(r) /\ r.email \in Emails
    BY <2>3 DEF NewAccount, PicturesOf
  <2>4. ASSUME NEW n \in Nat, account'[u] = [account[u] EXCEPT !.password = n]
        PROVE  /\ account'[u].state = account[u].state /\ account'[u].email = account[u].email
               /\ account'[u].wrong = account[u].wrong /\ PicturesOf(account'[u]) = PicturesOf(account[u])
               /\ account'[u].renamed = account[u].renamed /\ Profile(u)' = Profile(u)
    BY <1>0, <2>4 DEF Accounts_, PicturesOf, Profile
  <2>5. ASSUME NEW e \in Emails, account'[u] = [account[u] EXCEPT !.email = e]
        PROVE  /\ account'[u].state = account[u].state /\ account'[u].email \in Emails
               /\ account'[u].wrong = account[u].wrong /\ PicturesOf(account'[u]) = PicturesOf(account[u])
               /\ account'[u].renamed = account[u].renamed /\ Profile(u)' = Profile(u)
    BY <1>0, <2>5 DEF Accounts_, PicturesOf, Profile
  <2>6. \/ account'[u] = account[u]
        \/ account[u].state = "none" /\ account'[u] = NewAccount(r) /\ r.email \in Emails
        \/ \E n \in Nat : account'[u] = [account[u] EXCEPT !.password = n]
        \/ \E e \in Emails : account'[u] = [account[u] EXCEPT !.email = e]
    BY AccountsOfCodes
  <2>7. CASE \E n \in Nat : account'[u] = [account[u] EXCEPT !.password = n]
    BY <2>1, <2>4, <2>7
  <2>8. CASE \E e \in Emails : account'[u] = [account[u] EXCEPT !.email = e]
    BY <2>1, <2>5, <2>8
  <2> QED BY <2>1, <2>2, <2>3, <2>6, <2>7, <2>8
<1>5. AccountsSound'
  BY <1>1, <1>4 DEF AccountsSound, There
<1>6. ProfilesStay
  BY <1>4 DEF ProfilesStay
<1> QED BY <1>2, <1>3, <1>5, <1>6

(* A wrong entry is one more, by a request that has been refused. *)
LEMMA MissesAreCounted ==
    ASSUME RequestsTyped, Counts, NEW r \in plot.requests, NEW what, NEW x, pc[r] # "refused",
           misses' = misses \cup {<<r.id, what, x>>}
    PROVE  /\ IsFiniteSet(misses')
           /\ Cardinality(MissesAt(what, x)') = Cardinality(MissesAt(what, x)) + 1
           /\ \A w, y : <<w, y>> # <<what, x>> => MissesAt(w, y)' = MissesAt(w, y)
<1>0. PICK new : new = <<r.id, what, x>>
  OBVIOUS
<1>1. new \notin misses /\ new[2] = what /\ new[3] = x
  BY <1>0 DEF Counts
<1>2. IsFiniteSet(misses) /\ IsFiniteSet(misses') /\ IsFiniteSet(MissesAt(what, x))
  BY <1>0, FS_AddElement, FS_Subset DEF Counts, MissesAt
<1>3. MissesAt(what, x)' = MissesAt(what, x) \cup {new}
  BY <1>0, <1>1 DEF MissesAt
<1>4. new \notin MissesAt(what, x)
  BY <1>1 DEF MissesAt
<1>5. Cardinality(MissesAt(what, x)') = Cardinality(MissesAt(what, x)) + 1
  BY <1>2, <1>3, <1>4, FS_AddElement
<1>6. \A w, y : <<w, y>> # <<what, x>> => MissesAt(w, y)' = MissesAt(w, y)
  BY <1>0, <1>1 DEF MissesAt
<1> QED BY <1>2, <1>5, <1>6

(* Ids tell requests apart. *)
LEMMA IdsDiffer ==
    ASSUME RequestsTyped
    PROVE  \A r, q \in plot.requests : r.id = q.id => r = q
  BY Plotted DEF RequestsTyped, RequestsStart

LEMMA CountsOfCodes ==
    ASSUME IInv, NEW r \in plot.requests, CodeActions(r)
    PROVE  Counts'
<1> USE DEF IInv
<1>0. /\ CodesMoveOn /\ code \in Seq(CodeRows) /\ code' \in Seq(CodeRows) /\ MaxTries \in Nat \ {0}
      /\ DOMAIN code \subseteq DOMAIN code' /\ plot' = plot
      /\ \A c \in DOMAIN code : code'[c].live => code[c].live
  BY CodesDoMoveOn, AccountsAssumption DEF CodesMoveOn, Grown, CodesTyped
<1>1. \A q \in plot.requests : pc[q] = "refused" => pc'[q] = "refused"
  BY CodeMoves, MovesGoOn DEF CodePlaces
<1>2. CASE ~refuseCode(r)
  <2>1. UNCHANGED misses
    BY <1>2, CodeHistories
  <2>2. ASSUME NEW c \in Rows'
        PROVE  IF c \in Rows THEN code'[c].wrong = code[c].wrong ELSE code'[c].wrong = 0 /\ c \notin DOMAIN code
    <3>1. c \in DOMAIN code' /\ code'[c].live
      BY DEF Rows
    <3>2. CASE c \in DOMAIN code
      BY <1>0, <1>2, <3>1, <3>2, NotesStay DEF Rows
    <3>3. CASE c \notin DOMAIN code
      <4>1. PICK u : Added(r, u)
        BY <1>0, <3>1, <3>3, CodesAreAdded
      <4>2. c = Len(code) + 1
        BY <1>0, <3>1, <3>3, <4>1 DEF Added
      <4> QED BY <3>3, <4>1, <4>2 DEF Added, NewCode, Rows
    <3> QED BY <3>2, <3>3
  <2>3. ASSUME NEW u \in Users
        PROVE  account'[u].wrong = account[u].wrong
    <3>1. CASE account[u].state = "none" /\ account'[u] = NewAccount(r)
      BY <3>1 DEF NewAccount, AccountsSound
    <3>2. CASE account'[u] = account[u]
      BY <3>2
    <3>3. \A row \in Accounts_ : /\ \A n : [row EXCEPT !.password = n].wrong = row.wrong
                                 /\ \A e : [row EXCEPT !.email = e].wrong = row.wrong
      BY DEF Accounts_
    <3>4. account[u] \in Accounts_
      BY DEF TablesTyped
    <3>5. \/ account'[u] = account[u] \/ (account[u].state = "none" /\ account'[u] = NewAccount(r))
          \/ \E n : account'[u] = [account[u] EXCEPT !.password = n]
          \/ \E e : account'[u] = [account[u] EXCEPT !.email = e]
      <4>1. \/ account'[u] = account[u] \/ (account[u].state = "none" /\ account'[u] = NewAccount(r) /\ r.email \in Emails)
            \/ \E n \in Nat : account'[u] = [account[u] EXCEPT !.password = n]
            \/ \E e \in Emails : account'[u] = [account[u] EXCEPT !.email = e]
        BY AccountsOfCodes
      <4> QED BY <4>1
    <3>6. CASE \E n : account'[u] = [account[u] EXCEPT !.password = n]
      BY <3>3, <3>4, <3>6
    <3>7. CASE \E e : account'[u] = [account[u] EXCEPT !.email = e]
      BY <3>3, <3>4, <3>7
    <3> QED BY <3>1, <3>2, <3>5, <3>6, <3>7
  <2> QED BY <1>0, <1>1, <2>1, <2>2, <2>3, CountsAreLeftAlone
<1>3. CASE refuseCode(r) /\ UNCHANGED misses
  <2>1. code' = code \/ code' = Without({seen[r].row})
    <3>1. <<r.id, "code", seen[r].row>> \notin misses
      BY <1>3, IdsDiffer DEF Counts, refuseCode, Stands
    <3> QED BY <1>3, <3>1 DEF refuseCode
  <2>2. account' = account
    BY <1>3 DEF refuseCode
  <2>3. \A c \in Rows' : IF c \in Rows THEN code'[c].wrong = code[c].wrong
                         ELSE code'[c].wrong = 0 /\ c \notin DOMAIN code
    BY <2>1, CodesWithout DEF Rows
  <2> QED BY <1>0, <1>1, <1>3, <2>2, <2>3, CountsAreLeftAlone
<1>4. CASE refuseCode(r) /\ ~UNCHANGED misses
  <2>0. PICK c : c = seen[r].row
    OBVIOUS
  <2>1. /\ misses' = misses \cup {<<r.id, "code", c>>} /\ account' = account
        /\ code' = IF code[c].wrong + 1 >= MaxTries THEN Without({c}) ELSE [code EXCEPT ![c].wrong = @ + 1]
        /\ Fits(r, c) /\ pc[r] = "enter" /\ pc'[r] = "refused"
    BY <1>4, <2>0, Arrivals DEF refuseCode, Stands
  <2>2. c \in DOMAIN code /\ code[c].live
    BY <2>0, <2>1 DEF CodeSights, CodeSight, Enters, Fits
  <2>3. /\ IsFiniteSet(misses')
        /\ Cardinality(MissesAt("code", c)') = Cardinality(MissesAt("code", c)) + 1
        /\ \A w, y : <<w, y>> # <<"code", c>> => MissesAt(w, y)' = MissesAt(w, y)
    <3>1. misses' = misses \cup {<<r.id, "code", c>>} /\ pc[r] # "refused"
      BY <2>1
    <3> QED BY <3>1, MissesAreCounted
  <2>4. \A m \in misses' : /\ m[2] = "code" => m[3] \in DOMAIN code'
                           /\ \A q \in plot.requests : q.id = m[1] => pc'[q] = "refused"
    <3>1. misses' = misses \cup {<<r.id, "code", c>>} /\ pc'[r] = "refused"
      BY <2>1
    <3>2. \A m \in misses : /\ m[2] = "code" => m[3] \in DOMAIN code'
                            /\ \A q \in plot.requests : q.id = m[1] => pc'[q] = "refused"
      BY <1>0, <1>1 DEF Counts
    <3>3. \A q \in plot.requests : q.id = r.id => pc'[q] = "refused"
      BY <3>1, IdsDiffer
    <3> QED BY <1>0, <2>2, <3>1, <3>2, <3>3
  <2>5. \A u \in Users : account'[u].wrong = Cardinality(MissesAt("password", u)')
    BY <2>1, <2>3 DEF Counts
  <2>6. ASSUME NEW d \in Rows'
        PROVE  code'[d].wrong = Cardinality(MissesAt("code", d)') /\ code'[d].wrong < MaxTries
    <3>1. d \in DOMAIN code' /\ code'[d].live
      BY DEF Rows
    <3>2. DOMAIN code' = DOMAIN code
      BY <2>1, CodesWithout
    <3>3. d \in Rows
      BY <1>0, <3>1, <3>2 DEF Rows
    <3>4. code[d].wrong = Cardinality(MissesAt("code", d)) /\ code[d].wrong < MaxTries
      BY <3>3 DEF Counts
    <3>5. CASE d # c
      <4>1. code'[d].wrong = code[d].wrong
        BY <2>1, <3>1, <3>2, <3>5, CodesWithout
      <4> QED BY <2>3, <3>4, <3>5, <4>1
    <3>6. CASE d = c
      <4>1. ~(code[c].wrong + 1 >= MaxTries)
        BY <2>1, <2>2, <3>1, <3>6, CodesWithout
      <4>2. code'[c].wrong = code[c].wrong + 1
        BY <2>1, <2>2, <4>1, RowsAreTyped DEF CodeRows
      <4>3. code[c].wrong \in Nat
        BY <2>2, RowsAreTyped
      <4> QED BY <1>0, <2>3, <3>4, <3>6, <4>1, <4>2, <4>3
    <3> QED BY <3>5, <3>6
  <2> QED BY <1>0, <2>3, <2>4, <2>5, <2>6 DEF Counts
<1> QED BY <1>2, <1>3, <1>4

(* What the invariant says of the rest. *)
LEMMA CodeStepsKeep ==
    ASSUME IInv, NEW r \in plot.requests, CodeActions(r)
    PROVE  IInv'
<1> USE DEF IInv
<1>1. Moves(r, {"new"} \cup CodePlaces, Ended \cup CodePlaces) /\ CodesMoveOn
  BY CodeMoves, CodesDoMoveOn
<1>2. RequestsTyped'
  BY <1>1, MovesAreTyped
<1>3. CodesHold_' /\ CodesTyped'
  BY CodesStayTyped, CodesStaySound, SightsOfCodesStay, MailsStaySound, MailsStaySpaced,
         ConfirmationsStay DEF CodesHold_
<1>4. Counts' /\ TablesTyped' /\ AccountsSound' /\ TerminalsSound'
  BY CountsOfCodes, TablesOfCodes
<1>5. Elsewhere(AdminPlaces) /\ Elsewhere({"rename", "fill", "invalidate"}) /\ Elsewhere(PausePlaces) /\ Elsewhere(DevicePlaces)
  <2>1. \A P : ({"new"} \cup CodePlaces) \cap P = {} /\ (Ended \cup CodePlaces) \cap P = {} => Elsewhere(P)
    BY <1>1, MovesElsewhere
  <2> QED BY <2>1 DEF Ended, CodePlaces, AdminPlaces, PausePlaces, DevicePlaces
<1>6. \A q \in plot.requests : pc'[q] = "new" => pc[q] = "new"
  BY <1>1, MovesGoOn DEF CodePlaces, Ended
<1>7. AdminHolds'
  BY <1>1, <1>5, AdminIsLeftAlone DEF AdminHolds, CodesMoveOn, adminVars
<1>8. ProfilesHold'
  BY <1>1, <1>5, TablesOfCodes, ProfilesAreLeftAlone DEF ProfilesHold, CodesMoveOn, profileVars
<1>9. PausesSound'
  BY <1>1, <1>5, PausesAreLeftAlone DEF CodesMoveOn, deviceVars, settingVars
<1>10. PushesHold'
  BY <1>1, <1>5, <1>6, PushesAreLeftAlone DEF PushesHold, CodesMoveOn, deviceVars
<1> QED BY <1>2, <1>3, <1>4, <1>7, <1>8, <1>9, <1>10 DEF CodesHold_, AdminHolds, ProfilesHold, PushesHold

-------------------------------------------------------------------------------
(* Administrators *)

(* The actions of AdminActions that are about administrators and appeals. *)
AdminSteps(r) ==
    \/ validateSession(r) \/ expireSession(r) \/ act(r) \/ adminLogout(r)
    \/ readAdmin(r) \/ readEmail(r) \/ closeChallenges(r) \/ openChallenge(r)
    \/ readLogin(r) \/ readStepUp(r) \/ missChallenge(r) \/ closeLogin(r) \/ verifyLoginChallenge(r) \/ verifyStepUp(r)
    \/ findAppellant(r) \/ verifyCredentials(r) \/ useAppealToken(r)
    \/ dismiss(r)

LEMMA AdminRowsAreTyped ==
    ASSUME TablesTyped
    PROVE  /\ \A h \in DOMAIN challenge : h \in Nat /\ challenge[h] \in ChallengeRows
           /\ \A s \in DOMAIN adminSession : s \in Nat /\ adminSession[s] \in AdminSessionRows
           /\ Len(challenge) \in Nat /\ Len(adminSession) \in Nat
           /\ \A u, p : ChallengesOf(u, p) \subseteq DOMAIN challenge
           /\ \A u : AdminSessionsOf(u) \subseteq DOMAIN adminSession
  BY DEF TablesTyped, ChallengesOf, AdminSessionsOf

LEMMA AdminsMove ==
    ASSUME RequestsTyped, TablesTyped, NEW r \in plot.requests, AdminSteps(r)
    PROVE  /\ Moves(r, {"new"} \cup AdminPlaces, Ended \cup AdminPlaces)
           /\ pc[r] = "new" => r.op # "forgotPassword"
           /\ r.op = "forgotPassword" => seen'[r].user = seen[r].user
<1> DEFINE F == {"new"} \cup AdminPlaces
           T == Ended \cup AdminPlaces
<1>0. IsSight(seen[r]) /\ IsSight(NoSight) /\ r \in Commands
  BY NoSightIsSight, Plotted, Zenon DEF RequestsTyped, RequestsStart
<1>1. CASE validateSession(r)
  <2>1. pc[r] \in F /\ (pc[r] = "new" => r.op # "forgotPassword")
    BY <1>1, Zenon DEF validateSession, Arrives, Stands, At, AdminPlaces, Guarded
  <2>2. \A s \in AdminSessionsOf(r.user), n \in {0, 1} :
          IsSight([NoSight EXCEPT !.row = s, !.n = n]) /\ IsSight([NoSight EXCEPT !.row = s])
    BY <1>0, SightsChange, AdminRowsAreTyped, Zenon
  <2>3. \/ Refused(r)
        \/ \E s \in AdminSessionsOf(r.user) :
             \/ Reads(r, "guarded", [NoSight EXCEPT !.row = s, !.n = IF adminSession[s].elevated THEN 1 ELSE 0])
             \/ Reads(r, "expire", [NoSight EXCEPT !.row = s])
    BY <1>1 DEF validateSession
  <2>4. r.op # "forgotPassword"
    BY <1>1 DEF validateSession, Guarded
  <2> QED BY <2>1, <2>2, <2>3, <2>4, EndsMove, ReadsMove DEF AdminPlaces, Ended
<1>2. CASE expireSession(r)
  <2>1. pc[r] \in F /\ (pc[r] = "new" => r.op # "forgotPassword")
    BY <1>2 DEF expireSession, Arrives, Stands, At, AdminPlaces, Guarded
  <2>2. Done(r) \/ Answered(r) \/ Ends(r) \/ Refused(r)
    BY <1>2 DEF expireSession, Mistaken, Recognised
  <2> QED BY <2>1, <2>2, EndsMove, Arrivals DEF Ended
<1>3. CASE act(r)
  <2>1. pc[r] \in F /\ (pc[r] = "new" => r.op # "forgotPassword")
    BY <1>3 DEF act, Arrives, Stands, At, AdminPlaces, Guarded
  <2>2. Done(r) \/ Answered(r) \/ Ends(r) \/ Refused(r)
    BY <1>3 DEF act, Mistaken, Recognised
  <2> QED BY <2>1, <2>2, EndsMove, Arrivals DEF Ended
<1>4. CASE adminLogout(r)
  <2>1. pc[r] \in F /\ (pc[r] = "new" => r.op # "forgotPassword")
    BY <1>4 DEF adminLogout, Arrives, Stands, At, AdminPlaces, Guarded
  <2>2. Done(r) \/ Answered(r) \/ Ends(r) \/ Refused(r)
    BY <1>4 DEF adminLogout, Mistaken, Recognised
  <2> QED BY <2>1, <2>2, EndsMove, Arrivals DEF Ended
<1>5. CASE readAdmin(r)
  <2>1. pc[r] \in F /\ (pc[r] = "new" => r.op # "forgotPassword")
    BY <1>5, Zenon DEF readAdmin, Arrives, Stands, At, AdminPlaces, Guarded
  <2>2. IsSight(Addressed(r)) /\ r.op # "forgotPassword"
    BY <1>5, <1>0, SightsChange, Zenon DEF Addressed, readAdmin, Arrives, At
  <2>3. Refused(r) \/ Reads(r, "addressed", Addressed(r))
    BY <1>5 DEF readAdmin
  <2> QED BY <2>1, <2>2, <2>3, EndsMove, ReadsMove DEF AdminPlaces, Ended
<1>6. CASE readEmail(r)
  <2>1. pc[r] \in F /\ (pc[r] = "new" => r.op # "forgotPassword")
    BY <1>6 DEF readEmail, Arrives, Stands, At, AdminPlaces, Guarded
  <2>2. IsSight(Addressed(r)) /\ r.op # "forgotPassword"
    BY <1>6, <1>0, SightsChange, Zenon DEF Addressed, readEmail, Arrives, At
  <2>3. Refused(r) \/ Reads(r, "addressed", Addressed(r))
    BY <1>6 DEF readEmail
  <2> QED BY <2>1, <2>2, <2>3, EndsMove, ReadsMove DEF AdminPlaces, Ended
<1>7. CASE closeChallenges(r)
  <2>1. pc[r] \in F /\ (pc[r] = "new" => r.op # "forgotPassword")
    BY <1>7 DEF closeChallenges, Arrives, Stands, At, AdminPlaces, Guarded
  <2>2. Place(r, "make") /\ UNCHANGED seen
    BY <1>7 DEF closeChallenges
  <2> QED BY <2>1, <2>2, PlacesMove DEF AdminPlaces
<1>8. CASE openChallenge(r)
  <2>1. pc[r] \in F /\ (pc[r] = "new" => r.op # "forgotPassword")
    BY <1>8 DEF openChallenge, Arrives, Stands, At, AdminPlaces, Guarded
  <2>2. Done(r) \/ Answered(r) \/ Ends(r) \/ Refused(r)
    BY <1>8 DEF openChallenge, Mistaken, Recognised
  <2> QED BY <2>1, <2>2, EndsMove, Arrivals DEF Ended
<1>9. CASE readLogin(r)
  <2>1. pc[r] \in F /\ (pc[r] = "new" => r.op # "forgotPassword")
    BY <1>9, Zenon DEF readLogin, Arrives, Stands, At, AdminPlaces, Guarded
  <2>2. \A h \in DOMAIN challenge : IsSight([NoSight EXCEPT !.row = h, !.n = Len(adminSession)])
    BY <1>0, SightsChange, AdminRowsAreTyped, Zenon
  <2>3. \/ Refused(r)
        \/ \E h \in DOMAIN challenge, to \in {"open", "close", "miss"} :
             Reads(r, to, [NoSight EXCEPT !.row = h, !.n = Len(adminSession)])
    BY <1>9 DEF readLogin
  <2>4. r.op # "forgotPassword"
    BY <1>9 DEF readLogin, Arrives
  <2> QED BY <2>1, <2>2, <2>3, <2>4, EndsMove, ReadsMove DEF AdminPlaces, Ended
<1>10. CASE readStepUp(r)
  <2>1. pc[r] \in F /\ (pc[r] = "new" => r.op # "forgotPassword")
    BY <1>10 DEF readStepUp, Arrives, Stands, At, AdminPlaces, Guarded
  <2>2. \A h \in ChallengesOf(r.user, "STEP_UP") : IsSight([seen[r] EXCEPT !.entry = h]) /\ IsSight([seen[r] EXCEPT !.row = h])
    BY <1>0, SightsChange, AdminRowsAreTyped, Zenon
  <2>3. \/ Refused(r)
        \/ \E h \in ChallengesOf(r.user, "STEP_UP") :
             Reads(r, "elevate", [seen[r] EXCEPT !.entry = h]) \/ Reads(r, "miss", [seen[r] EXCEPT !.row = h])
    BY <1>10 DEF readStepUp
  <2>4. r.op # "forgotPassword"
    BY <1>10 DEF readStepUp, At
  <2> QED BY <2>1, <2>2, <2>3, <2>4, EndsMove, ReadsMove DEF AdminPlaces, Ended
<1>11. CASE missChallenge(r)
  <2>1. pc[r] \in F /\ (pc[r] = "new" => r.op # "forgotPassword")
    BY <1>11 DEF missChallenge, Arrives, Stands, At, AdminPlaces, Guarded
  <2>2. Done(r) \/ Answered(r) \/ Ends(r) \/ Refused(r)
    BY <1>11 DEF missChallenge, Mistaken, Recognised
  <2> QED BY <2>1, <2>2, EndsMove, Arrivals DEF Ended
<1>12. CASE closeLogin(r)
  <2>1. pc[r] \in F /\ (pc[r] = "new" => r.op # "forgotPassword")
    BY <1>12 DEF closeLogin, Arrives, Stands, At, AdminPlaces, Guarded
  <2>2. Done(r) \/ Answered(r) \/ Ends(r) \/ Refused(r)
    BY <1>12 DEF closeLogin, Mistaken, Recognised
  <2> QED BY <2>1, <2>2, EndsMove, Arrivals DEF Ended
<1>13. CASE verifyLoginChallenge(r)
  <2>1. pc[r] \in F /\ (pc[r] = "new" => r.op # "forgotPassword")
    BY <1>13 DEF verifyLoginChallenge, Arrives, Stands, At, AdminPlaces, Guarded
  <2>2. Done(r) \/ Answered(r) \/ Ends(r) \/ Refused(r)
    BY <1>13 DEF verifyLoginChallenge, Mistaken, Recognised
  <2> QED BY <2>1, <2>2, EndsMove, Arrivals DEF Ended
<1>14. CASE verifyStepUp(r)
  <2>1. pc[r] \in F /\ (pc[r] = "new" => r.op # "forgotPassword")
    BY <1>14 DEF verifyStepUp, Arrives, Stands, At, AdminPlaces, Guarded
  <2>2. Done(r) \/ Answered(r) \/ Ends(r) \/ Refused(r)
    BY <1>14 DEF verifyStepUp, Mistaken, Recognised
  <2> QED BY <2>1, <2>2, EndsMove, Arrivals DEF Ended
<1>15. CASE findAppellant(r)
  <2>1. pc[r] \in F /\ (pc[r] = "new" => r.op # "forgotPassword")
    BY <1>15 DEF findAppellant, Arrives, Stands, At, AdminPlaces, Guarded
  <2>2. (Refused(r) \/ Reads(r, "verify", NoSight)) /\ r.op # "forgotPassword"
    BY <1>15 DEF findAppellant, Arrives
  <2> QED BY <1>0, <2>1, <2>2, EndsMove, ReadsMove DEF AdminPlaces, Ended
<1>16. CASE verifyCredentials(r)
  <2>1. pc[r] \in F /\ (pc[r] = "new" => r.op # "forgotPassword")
    BY <1>16 DEF verifyCredentials, Arrives, Stands, At, AdminPlaces, Guarded
  <2>2. Done(r) \/ Answered(r) \/ Ends(r) \/ Refused(r)
    BY <1>16 DEF verifyCredentials, Mistaken, Recognised
  <2> QED BY <2>1, <2>2, EndsMove, Arrivals DEF Ended
<1>17. CASE useAppealToken(r)
  <2>1. pc[r] \in F /\ (pc[r] = "new" => r.op # "forgotPassword")
    BY <1>17 DEF useAppealToken, Arrives, Stands, At, AdminPlaces, Guarded
  <2>2. Done(r) \/ Answered(r) \/ Ends(r) \/ Refused(r)
    BY <1>17 DEF useAppealToken, Mistaken, Recognised
  <2> QED BY <2>1, <2>2, EndsMove, Arrivals DEF Ended
<1>18. CASE dismiss(r)
  <2>1. pc[r] \in F /\ (pc[r] = "new" => r.op # "forgotPassword")
    BY <1>18 DEF dismiss, Arrives, Stands, At, AdminPlaces, Guarded
  <2>2. Done(r) \/ Answered(r) \/ Ends(r) \/ Refused(r)
    BY <1>18 DEF dismiss, Mistaken, Recognised
  <2> QED BY <2>1, <2>2, EndsMove, Arrivals DEF Ended
<1> QED BY <1>1, <1>2, <1>3, <1>4, <1>5, <1>6, <1>7, <1>8, <1>9, <1>10, <1>11, <1>12, <1>13, <1>14, <1>15, <1>16,
       <1>17, <1>18 DEF AdminSteps

(* Everything of an account but its role, its lock and, while it is      *)
(* live, the wrong passwords.                                            *)
Kept(u) ==
    /\ account'[u].state = account[u].state /\ account'[u].email = account[u].email
    /\ account'[u].name = account[u].name /\ account'[u].password = account[u].password
    /\ account'[u].sanctioned = account[u].sanctioned /\ account'[u].renamed = account[u].renamed
    /\ account'[u].avatar = account[u].avatar /\ account'[u].cover = account[u].cover
    /\ account'[u].mobile = account[u].mobile
    /\ Live(u) \/ account'[u].wrong = account[u].wrong

ChallengesGrow ==
    /\ challenge' \in Seq(ChallengeRows) /\ Len(challenge) <= Len(challenge')
    /\ \A h \in DOMAIN challenge :
         challenge'[h].user = challenge[h].user /\ challenge'[h].purpose = challenge[h].purpose

(* Sessions are kept, but end; or one more begins. *)
SessionsEnd(sessions) ==
    /\ sessions \in Seq(AdminSessionRows) /\ Len(sessions) = Len(adminSession)
    /\ \A s \in DOMAIN adminSession :
         /\ sessions[s].user = adminSession[s].user /\ sessions[s].proof = adminSession[s].proof
         /\ sessions[s].step = adminSession[s].step
         /\ sessions[s].live => adminSession[s].live
         /\ sessions[s].elevated => adminSession[s].elevated

AdminsMoveOn ==
    /\ UNCHANGED <<plot, code, begun, accepted, confirmed, deviceVars, profileVars>>
    /\ mailed \subseteq mailed' /\ mailed' \subseteq Mails /\ \A m \in mailed' \ mailed : m[2] # "code"
    /\ signedIn' \subseteq signedIn /\ appealing' \subseteq Users
    /\ account' \in [Users -> Accounts_] /\ \A u \in Users : Kept(u)
    /\ ChallengesGrow

LEMMA AccountFieldsChange ==
    ASSUME NEW row \in Accounts_, NEW n \in Nat, NEW b \in BOOLEAN
    PROVE  /\ [row EXCEPT !.role = "USER"] \in Accounts_ /\ [row EXCEPT !.locked = b] \in Accounts_
           /\ [row EXCEPT !.wrong = n] \in Accounts_
  BY DEF Accounts_

LEMMA AccountsCounted ==
    ASSUME TablesTyped, NEW r, r.user \in Users, NEW n \in Nat, Live(r.user), account' = Counted(r, n), MaxTries \in Nat \ {0}
    PROVE  /\ account' \in [Users -> Accounts_] /\ \A u \in Users : Kept(u)
           /\ account'[r.user].wrong = n /\ \A u \in Users \ {r.user} : account'[u] = account[u]
<1> DEFINE row == [[account[r.user] EXCEPT !.wrong = n] EXCEPT !.locked = n >= MaxTries]
<1>1. account' = [account EXCEPT ![r.user] = row]
  BY DEF Counted, TablesTyped
<1>2. account[r.user] \in Accounts_ /\ (n >= MaxTries) \in BOOLEAN
  BY DEF TablesTyped
<1>3. [account[r.user] EXCEPT !.wrong = n] \in Accounts_
  BY <1>2, AccountFieldsChange
<1>4. row \in Accounts_
  BY <1>2, <1>3, AccountFieldsChange
<1>5. /\ row.state = account[r.user].state /\ row.email = account[r.user].email
      /\ row.name = account[r.user].name /\ row.password = account[r.user].password
      /\ row.sanctioned = account[r.user].sanctioned /\ row.renamed = account[r.user].renamed
      /\ row.avatar = account[r.user].avatar /\ row.cover = account[r.user].cover
      /\ row.mobile = account[r.user].mobile /\ row.wrong = n
  BY <1>2 DEF Accounts_
<1> HIDE DEF row
<1>6. account'[r.user] = row /\ \A u \in Users \ {r.user} : account'[u] = account[u]
  BY <1>1 DEF TablesTyped
<1> QED BY <1>1, <1>4, <1>5, <1>6 DEF TablesTyped, Kept

LEMMA ChallengeChanges ==
    ASSUME TablesTyped, NEW row \in ChallengeRows, NEW h \in DOMAIN challenge,
           row.user = challenge[h].user, row.purpose = challenge[h].purpose, challenge' = [challenge EXCEPT ![h] = row]
    PROVE  ChallengesGrow
  BY DEF TablesTyped, ChallengesGrow

LEMMA SessionChanges ==
    ASSUME TablesTyped, NEW row \in AdminSessionRows, NEW s \in DOMAIN adminSession,
           row.user = adminSession[s].user, row.proof = adminSession[s].proof, row.step = adminSession[s].step,
           row.live => adminSession[s].live, row.elevated => adminSession[s].elevated
    PROVE  SessionsEnd([adminSession EXCEPT ![s] = row])
  BY DEF TablesTyped, SessionsEnd

LEMMA SessionsAreRevoked ==
    ASSUME TablesTyped, NEW u
    PROVE  /\ SessionsEnd(RevokedOf(u)) /\ SessionsEnd(adminSession)
           /\ \A s \in DOMAIN adminSession : adminSession[s].user = u => ~RevokedOf(u)[s].live
<1> DEFINE sessions == RevokedOf(u)
<1>1. \A row \in AdminSessionRows :
        /\ [row EXCEPT !.live = FALSE] \in AdminSessionRows
        /\ [row EXCEPT !.live = FALSE].user = row.user /\ [row EXCEPT !.live = FALSE].proof = row.proof
        /\ [row EXCEPT !.live = FALSE].step = row.step /\ [row EXCEPT !.live = FALSE].elevated = row.elevated
        /\ ~[row EXCEPT !.live = FALSE].live
  BY DEF AdminSessionRows
<1>2. \A s \in DOMAIN adminSession : adminSession[s] \in AdminSessionRows
  BY AdminRowsAreTyped
<1>3. sessions = [s \in DOMAIN adminSession |->
                    IF adminSession[s].user = u THEN [adminSession[s] EXCEPT !.live = FALSE] ELSE adminSession[s]]
  BY DEF RevokedOf
<1> HIDE DEF sessions
<1>4. sessions \in Seq(AdminSessionRows) /\ Len(sessions) = Len(adminSession)
  <2>1. \A s \in DOMAIN adminSession : sessions[s] \in AdminSessionRows
    BY <1>1, <1>2, <1>3
  <2>2. DOMAIN sessions = DOMAIN adminSession /\ sessions = [s \in DOMAIN adminSession |-> sessions[s]]
    BY <1>3
  <2>3. DOMAIN adminSession = 1..Len(adminSession) /\ Len(adminSession) \in Nat
    BY DEF TablesTyped
  <2>4. sessions \in [1..Len(adminSession) -> AdminSessionRows]
    BY <2>1, <2>2, <2>3
  <2> QED BY <2>3, <2>4
<1>5. SessionsEnd(sessions)
  BY <1>1, <1>2, <1>3, <1>4 DEF SessionsEnd
<1>6. SessionsEnd(adminSession)
  BY <1>2 DEF SessionsEnd, TablesTyped
<1>7. \A s \in DOMAIN adminSession : adminSession[s].user = u => ~sessions[s].live
  BY <1>1, <1>2, <1>3
<1> QED BY <1>5, <1>6, <1>7 DEF sessions

LEMMA ChallengesStay ==
    ASSUME TablesTyped, UNCHANGED challenge
    PROVE  ChallengesGrow
  BY DEF TablesTyped, ChallengesGrow

LEMMA AdminTablesMove ==
    ASSUME IInv, UNCHANGED <<plot, account, code, begun, accepted, confirmed, mailed, signedIn, deviceVars, profileVars>>,
           appealing' \subseteq Users, ChallengesGrow
    PROVE  AdminsMoveOn
<1>1. account' \in [Users -> Accounts_] /\ \A u \in Users : Kept(u)
  BY DEF IInv, TablesTyped, Kept
<1>2. mailed' \subseteq Mails
  BY DEF IInv, CodesTyped
<1> QED BY <1>1, <1>2 DEF AdminsMoveOn

LEMMA AdminsDoMoveOn ==
    ASSUME IInv, NEW r \in plot.requests, AdminSteps(r)
    PROVE  AdminsMoveOn
<1> USE DEF IInv
<1>0. /\ r \in Commands /\ r.user \in Users /\ appealing \subseteq Users /\ MaxTries \in Nat \ {0}
      /\ \A h \in DOMAIN challenge : challenge[h] \in ChallengeRows /\ challenge[h].wrong \in Nat
      /\ CodeSight(r) /\ AdminSight(r)
  BY AddressesOfRequests, AccountsAssumption, AdminRowsAreTyped DEF Commands, TablesTyped, ChallengeRows,
         CodeSights, AdminSights
<1>00. \A row \in ChallengeRows :
        /\ [row EXCEPT !.open = FALSE] \in ChallengeRows /\ [row EXCEPT !.open = FALSE].user = row.user
        /\ [row EXCEPT !.open = FALSE].purpose = row.purpose
        /\ \A n \in Nat : /\ [row EXCEPT !.wrong = n] \in ChallengeRows /\ [row EXCEPT !.wrong = n].user = row.user
                          /\ [row EXCEPT !.wrong = n].purpose = row.purpose
  BY DEF ChallengeRows
<1>c. ASSUME NEW h \in DOMAIN challenge, challenge' = [challenge EXCEPT ![h].open = FALSE]
      PROVE  ChallengesGrow
  <2>1. challenge' = [challenge EXCEPT ![h] = [challenge[h] EXCEPT !.open = FALSE]]
    BY <1>c
  <2> QED BY <1>0, <1>00, <2>1, ChallengeChanges
<1>s. ASSUME UNCHANGED <<plot, account, code, begun, accepted, confirmed, mailed, challenge, appealing, signedIn, deviceVars, profileVars>>
      PROVE  AdminsMoveOn
  BY <1>0, <1>s, ChallengesStay, AdminTablesMove
<1>1. CASE validateSession(r)
  BY <1>1, <1>s DEF validateSession, Reads, Goes, Refused, Answered, Ends, Done, Place, tableVars, codeVars, adminVars
<1>2. CASE act(r)
  BY <1>2, <1>s DEF act, Reads, Goes, Refused, Answered, Ends, Done, Place, tableVars, codeVars, adminVars
<1>3. CASE readAdmin(r)
  BY <1>3, <1>s DEF readAdmin, Reads, Goes, Refused, Answered, Ends, Done, Place, tableVars, codeVars, adminVars
<1>4. CASE readEmail(r)
  BY <1>4, <1>s DEF readEmail, Reads, Goes, Refused, Answered, Ends, Done, Place, tableVars, codeVars, adminVars
<1>5. CASE readLogin(r)
  BY <1>5, <1>s DEF readLogin, Reads, Goes, Refused, Answered, Ends, Done, Place, tableVars, codeVars, adminVars
<1>6. CASE readStepUp(r)
  BY <1>6, <1>s DEF readStepUp, Reads, Goes, Refused, Answered, Ends, Done, Place, tableVars, codeVars, adminVars
<1>7. CASE findAppellant(r)
  BY <1>7, <1>s DEF findAppellant, Reads, Goes, Refused, Answered, Ends, Done, Place, tableVars, codeVars, adminVars
<1>8. CASE useAppealToken(r)
  BY <1>8, <1>s DEF useAppealToken, Reads, Goes, Refused, Answered, Ends, Done, Place, tableVars, codeVars, adminVars
<1>9. CASE expireSession(r)
  BY <1>9, <1>s DEF expireSession, SessionsBecome, Ends, Done, Place, codeVars
<1>10. CASE adminLogout(r)
  BY <1>10, <1>s DEF adminLogout, SessionsBecome, Ends, Done, Place, codeVars
<1>11. CASE closeChallenges(r)
  <2> DEFINE H == ChallengesOf(r.user, PurposeOf(r))
  <2>1. challenge' = [h \in DOMAIN challenge |-> IF h \in H THEN [challenge[h] EXCEPT !.open = FALSE] ELSE challenge[h]]
    BY <1>11 DEF closeChallenges, ChallengesBecome
  <2> HIDE DEF H
  <2>2. \A h \in DOMAIN challenge : /\ challenge'[h] \in ChallengeRows /\ challenge'[h].user = challenge[h].user
                                    /\ challenge'[h].purpose = challenge[h].purpose
    BY <1>0, <1>00, <2>1
  <2>3. DOMAIN challenge = 1..Len(challenge) /\ Len(challenge) \in Nat
    BY DEF TablesTyped
  <2>4. challenge' \in [1..Len(challenge) -> ChallengeRows]
    BY <2>1, <2>2, <2>3
  <2>5. challenge' \in Seq(ChallengeRows) /\ Len(challenge') = Len(challenge)
    BY <2>3, <2>4
  <2>6. ChallengesGrow
    BY <2>2, <2>3, <2>5 DEF ChallengesGrow
  <2> QED BY <1>11, <1>0, <2>6, AdminTablesMove DEF closeChallenges, ChallengesBecome, Place
<1>12. CASE openChallenge(r)
  <2> DEFINE row == [user |-> r.user, purpose |-> PurposeOf(r), open |-> TRUE, fresh |-> TRUE, wrong |-> 0]
             m == <<Only(seen[r].set), "challenge", Len(challenge) + 1>>
  <2>1. row \in ChallengeRows
    BY <1>0 DEF ChallengeRows, PurposeOf, Purposes
  <2>2. challenge' = Append(challenge, row)
    BY <1>12 DEF openChallenge, ChallengesBecome
  <2> HIDE DEF row
  <2>3. ChallengesGrow
    BY <2>1, <2>2 DEF TablesTyped, ChallengesGrow
  <2>4. m \in Mails /\ m[2] # "code"
    <3>1. PICK e \in Emails \cup {Nothing} : seen[r].set = {e}
      BY <1>12, <1>0 DEF openChallenge, Stands, AdminSight
    <3>2. Only(seen[r].set) = e
      BY <3>1, Chosen
    <3> QED BY <3>2, AdminRowsAreTyped DEF Mails
  <2>5. mailed' = mailed \/ mailed' = mailed \cup {m}
    BY <1>12 DEF openChallenge
  <2> HIDE DEF m
  <2>6. /\ UNCHANGED <<plot, account, code, begun, accepted, confirmed, appealing, signedIn, deviceVars, profileVars>>
    BY <1>12 DEF openChallenge, ChallengesBecome, Done, Ends, Place
  <2>7. account' \in [Users -> Accounts_] /\ \A u \in Users : Kept(u)
    BY <2>6 DEF TablesTyped, Kept
  <2>8. mailed \subseteq mailed' /\ mailed' \subseteq Mails /\ \A x \in mailed' \ mailed : x[2] # "code"
    BY <2>4, <2>5 DEF CodesTyped
  <2> QED BY <1>0, <2>3, <2>6, <2>7, <2>8 DEF AdminsMoveOn
<1>13. CASE missChallenge(r)
  <2> DEFINE h == seen[r].row
  <2>1. h \in DOMAIN challenge
    BY <1>13, <1>0 DEF missChallenge, Stands, AdminSight
  <2>2. challenge' = [challenge EXCEPT ![h] = [challenge[h] EXCEPT !.wrong = challenge[h].wrong + 1]]
    BY <1>13 DEF missChallenge, ChallengesBecome
  <2>3. PICK row : row = [challenge[h] EXCEPT !.wrong = challenge[h].wrong + 1]
    OBVIOUS
  <2>4. row \in ChallengeRows /\ row.user = challenge[h].user /\ row.purpose = challenge[h].purpose
    <3>1. challenge[h] \in ChallengeRows /\ challenge[h].wrong + 1 \in Nat
      BY <1>0, <2>1
    <3> HIDE DEF h
    <3> QED BY <2>3, <3>1 DEF ChallengeRows
  <2>5. ChallengesGrow
    BY <2>1, <2>2, <2>3, <2>4, ChallengeChanges
  <2> QED BY <1>13, <1>0, <2>5, AdminTablesMove DEF missChallenge, ChallengesBecome, Ends, Place
<1>14. CASE closeLogin(r)
  <2>1. seen[r].row \in DOMAIN challenge
    BY <1>14, <1>0 DEF closeLogin, Stands, AdminSight
  <2>2. ChallengesGrow
    BY <1>14, <1>c, <2>1 DEF closeLogin, ChallengesBecome
  <2> QED BY <1>14, <1>0, <2>2, AdminTablesMove DEF closeLogin, ChallengesBecome, Ends, Place
<1>15. CASE verifyStepUp(r)
  <2>1. seen[r].entry \in DOMAIN challenge
    BY <1>15, <1>0 DEF verifyStepUp, At, AdminSight, Proven, ChallengesOf
  <2>2. ChallengesGrow
    BY <1>15, <1>c, <2>1 DEF verifyStepUp, ChallengesBecome
  <2> QED BY <1>15, <1>0, <2>2, AdminTablesMove DEF verifyStepUp, ChallengesBecome, Done, Place
<1>16. CASE verifyLoginChallenge(r)
  <2>1. CASE Refused(r)
    BY <2>1, <1>s DEF Refused, Ends, Place, tableVars, codeVars, adminVars
  <2>2. CASE ~Refused(r)
    <3>1. seen[r].row \in DOMAIN challenge
      BY <1>16, <1>0 DEF verifyLoginChallenge, At, AdminSight
    <3>2. ChallengesGrow
      BY <1>16, <1>c, <2>2, <3>1 DEF verifyLoginChallenge, ChallengesBecome
    <3> QED BY <1>16, <1>0, <2>2, <3>2, AdminTablesMove DEF verifyLoginChallenge, ChallengesBecome, Done, Place
  <2> QED BY <2>1, <2>2
<1>17. CASE verifyCredentials(r)
  <2>1. CASE Refused(r)
    BY <2>1, <1>s DEF Refused, Ends, Place, tableVars, codeVars, adminVars
  <2>2. CASE Mistaken(r) \/ Recognised(r)
    <3>1. account[r.user].wrong + 1 \in Nat
      BY <1>0 DEF TablesTyped, Accounts_
    <3>2. account' \in [Users -> Accounts_] /\ \A u \in Users : Kept(u)
      BY <1>0, <2>2, <3>1, AccountsCounted DEF Mistaken, Recognised, Right
    <3>3. /\ UNCHANGED <<plot, code, mailed, begun, accepted, confirmed, challenge, deviceVars, profileVars>>
      BY <2>2 DEF Mistaken, Recognised, Ends, Done, Place, adminVars
    <3>4. appealing' \subseteq Users /\ signedIn' = signedIn
      BY <1>17, <1>0, <2>2 DEF verifyCredentials, Mistaken, adminVars, Refused, tableVars
    <3>5. mailed' \subseteq Mails
      BY <3>3 DEF CodesTyped
    <3> QED BY <3>2, <3>3, <3>4, <3>5, ChallengesStay DEF AdminsMoveOn
  <2> QED BY <1>17, <2>1, <2>2 DEF verifyCredentials
<1>18. CASE dismiss(r)
  <2> DEFINE row == [account[r.user] EXCEPT !.role = "USER"]
  <2>1. row \in Accounts_ /\ account[r.user] \in Accounts_
    BY <1>0, AccountFieldsChange DEF TablesTyped
  <2>2. /\ row.state = account[r.user].state /\ row.email = account[r.user].email
        /\ row.name = account[r.user].name /\ row.password = account[r.user].password
        /\ row.sanctioned = account[r.user].sanctioned /\ row.renamed = account[r.user].renamed
        /\ row.avatar = account[r.user].avatar /\ row.cover = account[r.user].cover
        /\ row.mobile = account[r.user].mobile /\ row.wrong = account[r.user].wrong
    BY <2>1 DEF Accounts_
  <2>3. account' = [account EXCEPT ![r.user] = row]
    BY <1>18 DEF dismiss, AccountBecomes
  <2> HIDE DEF row
  <2>4. account' \in [Users -> Accounts_] /\ \A u \in Users : Kept(u)
    BY <2>1, <2>2, <2>3 DEF TablesTyped, Kept
  <2>5. /\ UNCHANGED <<plot, code, mailed, begun, accepted, confirmed, challenge, appealing, deviceVars, profileVars>>
        /\ signedIn' \subseteq signedIn
    BY <1>18 DEF dismiss, AccountBecomes, Done, Place, codeVars, profileVars
  <2>6. mailed' \subseteq Mails
    BY <2>5 DEF CodesTyped
  <2> QED BY <1>0, <2>4, <2>5, <2>6, ChallengesStay DEF AdminsMoveOn
<1> QED BY <1>1, <1>2, <1>3, <1>4, <1>5, <1>6, <1>7, <1>8, <1>9, <1>10, <1>11, <1>12, <1>13, <1>14, <1>15, <1>16,
       <1>17, <1>18 DEF AdminSteps

(* What sessions were opened and elevated by stays what it is. *)
LEMMA ProofsStay ==
    ASSUME TablesTyped, ChallengesGrow, mailed \subseteq mailed'
    PROVE  \A h, u, purpose : Proven(h, u, purpose) => Proven(h, u, purpose)'
<1>1. \A h \in DOMAIN challenge : h \in DOMAIN challenge' /\ challenge'[h].user = challenge[h].user
                                  /\ challenge'[h].purpose = challenge[h].purpose
  BY DEF ChallengesGrow, TablesTyped
<1>2. \A h, u, purpose : h \in ChallengesOf(u, purpose) => h \in ChallengesOf(u, purpose)'
  BY <1>1 DEF ChallengesOf
<1> QED BY <1>2 DEF Proven

LEMMA SessionsStaySound ==
    ASSUME IInv, ChallengesGrow, mailed \subseteq mailed', SessionsEnd(adminSession')
    PROVE  /\ adminSession' \in Seq(AdminSessionRows) /\ DOMAIN adminSession \subseteq DOMAIN adminSession'
           /\ \A s \in DOMAIN adminSession : adminSession'[s].user = adminSession[s].user
           /\ AdminSessionsSound'
<1> USE DEF IInv
<1>1. DOMAIN adminSession' = DOMAIN adminSession
  BY DEF SessionsEnd, TablesTyped
<1>2. \A h, u, purpose : Proven(h, u, purpose) => Proven(h, u, purpose)'
  BY ProofsStay
<1>3. ASSUME NEW s \in DOMAIN adminSession
      PROVE  /\ adminSession'[s].proof # 0 => Proven(adminSession[s].proof, adminSession[s].user, "LOGIN")'
             /\ adminSession'[s].step # 0 => Proven(adminSession[s].step, adminSession[s].user, "STEP_UP")'
             /\ adminSession'[s].elevated => adminSession'[s].step # 0
             /\ \A t \in DOMAIN adminSession :
                  adminSession'[s].live /\ adminSession'[t].live /\ adminSession'[t].user = adminSession'[s].user => s = t
  <2>0. PICK p, x, u : p = adminSession[s].proof /\ x = adminSession[s].step /\ u = adminSession[s].user
    OBVIOUS
  <2>1. adminSession'[s].proof = p /\ adminSession'[s].step = x /\ adminSession'[s].user = u
    BY <2>0 DEF SessionsEnd
  <2>2. /\ p # 0 => Proven(p, u, "LOGIN")'
        /\ x # 0 => Proven(x, u, "STEP_UP")'
    BY <1>2, <2>0 DEF AdminSessionsSound
  <2>3. /\ Proven(adminSession[s].proof, adminSession[s].user, "LOGIN")' <=> Proven(p, u, "LOGIN")'
        /\ Proven(adminSession[s].step, adminSession[s].user, "STEP_UP")' <=> Proven(x, u, "STEP_UP")'
    BY <2>1
  <2>4. adminSession'[s].elevated => adminSession'[s].step # 0
    BY DEF SessionsEnd, AdminSessionsSound
  <2>5. \A t \in DOMAIN adminSession :
          adminSession'[s].live /\ adminSession'[t].live /\ adminSession'[t].user = adminSession'[s].user => s = t
    BY DEF SessionsEnd, AdminSessionsSound
  <2> QED BY <2>1, <2>2, <2>3, <2>4, <2>5
<1>4. AdminSessionsSound'
  BY <1>1, <1>3 DEF AdminSessionsSound
<1> QED BY <1>1, <1>4 DEF SessionsEnd

LEMMA SessionsOfAdmins ==
    ASSUME IInv, NEW r \in plot.requests, AdminSteps(r)
    PROVE  /\ adminSession' \in Seq(AdminSessionRows) /\ DOMAIN adminSession \subseteq DOMAIN adminSession'
           /\ \A s \in DOMAIN adminSession : adminSession'[s].user = adminSession[s].user
           /\ AdminSessionsSound'
<1> USE DEF IInv
<1>0. ChallengesGrow /\ mailed \subseteq mailed' /\ AdminSight(r)
  BY AdminsDoMoveOn DEF AdminsMoveOn, AdminSights
<1>e. SessionsEnd(adminSession') =>
        /\ adminSession' \in Seq(AdminSessionRows) /\ DOMAIN adminSession \subseteq DOMAIN adminSession'
        /\ \A s \in DOMAIN adminSession : adminSession'[s].user = adminSession[s].user
        /\ AdminSessionsSound'
  BY <1>0, SessionsStaySound
<1>u. CASE UNCHANGED adminSession
  BY <1>e, <1>u, SessionsAreRevoked
<1>l. ASSUME NEW s \in DOMAIN adminSession, adminSession' = [adminSession EXCEPT ![s].live = FALSE]
      PROVE  SessionsEnd(adminSession')
  <2> DEFINE row == [adminSession[s] EXCEPT !.live = FALSE]
  <2>1. adminSession' = [adminSession EXCEPT ![s] = row]
    BY <1>l
  <2>2. adminSession[s] \in AdminSessionRows
    BY AdminRowsAreTyped
  <2>3. /\ row \in AdminSessionRows /\ row.user = adminSession[s].user /\ row.proof = adminSession[s].proof
        /\ row.step = adminSession[s].step /\ row.elevated = adminSession[s].elevated /\ ~row.live
    BY <2>2 DEF AdminSessionRows
  <2> HIDE DEF row
  <2> QED BY <2>1, <2>3, SessionChanges
<1>1. CASE validateSession(r)
  BY <1>1, <1>u DEF validateSession, Reads, Goes, Refused, Answered, Ends, Done, Place, tableVars, codeVars, adminVars
<1>2. CASE act(r)
  BY <1>2, <1>u DEF act, Reads, Goes, Refused, Answered, Ends, Done, Place, tableVars, codeVars, adminVars
<1>3. CASE readAdmin(r)
  BY <1>3, <1>u DEF readAdmin, Reads, Goes, Refused, Answered, Ends, Done, Place, tableVars, codeVars, adminVars
<1>4. CASE readEmail(r)
  BY <1>4, <1>u DEF readEmail, Reads, Goes, Refused, Answered, Ends, Done, Place, tableVars, codeVars, adminVars
<1>5. CASE readLogin(r)
  BY <1>5, <1>u DEF readLogin, Reads, Goes, Refused, Answered, Ends, Done, Place, tableVars, codeVars, adminVars
<1>6. CASE readStepUp(r)
  BY <1>6, <1>u DEF readStepUp, Reads, Goes, Refused, Answered, Ends, Done, Place, tableVars, codeVars, adminVars
<1>7. CASE findAppellant(r)
  BY <1>7, <1>u DEF findAppellant, Reads, Goes, Refused, Answered, Ends, Done, Place, tableVars, codeVars, adminVars
<1>8. CASE useAppealToken(r)
  BY <1>8, <1>u DEF useAppealToken, Reads, Goes, Refused, Answered, Ends, Done, Place, tableVars, codeVars, adminVars
<1>9. CASE closeChallenges(r)
  BY <1>9, <1>u DEF closeChallenges, Reads, Goes, Refused, Answered, Ends, Done, Place, tableVars, codeVars, adminVars
<1>10. CASE openChallenge(r)
  BY <1>10, <1>u DEF openChallenge, Reads, Goes, Refused, Answered, Ends, Done, Place, tableVars, codeVars, adminVars
<1>11. CASE missChallenge(r)
  BY <1>11, <1>u DEF missChallenge, Reads, Goes, Refused, Answered, Ends, Done, Place, tableVars, codeVars, adminVars
<1>12. CASE closeLogin(r)
  BY <1>12, <1>u DEF closeLogin, Reads, Goes, Refused, Answered, Ends, Done, Place, tableVars, codeVars, adminVars
<1>13. CASE expireSession(r)
  <2>1. seen[r].row \in DOMAIN adminSession
    BY <1>13, <1>0 DEF expireSession, Stands, AdminSight
  <2> QED BY <1>13, <1>e, <1>l, <2>1 DEF expireSession, SessionsBecome
<1>14. CASE adminLogout(r)
  <2>1. seen[r].row \in DOMAIN adminSession
    BY <1>14, <1>0 DEF adminLogout, At, AdminSight, AdminSessionsOf
  <2> QED BY <1>14, <1>e, <1>l, <2>1 DEF adminLogout, SessionsBecome
<1>15. CASE verifyLoginChallenge(r)
  <2>1. CASE Refused(r)
    BY <1>u, <2>1 DEF Refused, tableVars, adminVars
  <2>2. CASE ~Refused(r)
    <3>0. PICK h, u, new : /\ h = seen[r].row /\ u = challenge[h].user
                           /\ new = [user |-> u, live |-> TRUE, fresh |-> TRUE, elevated |-> FALSE, proof |-> h, step |-> 0]
      OBVIOUS
    <3>1. adminSession' = Append(RevokedOf(u), new)
      BY <1>15, <2>2, <3>0 DEF verifyLoginChallenge
    <3>2. h \in DOMAIN challenge /\ Proven(h, u, "LOGIN")
      BY <1>15, <1>0, <3>0 DEF verifyLoginChallenge, At, AdminSight
    <3>3. new \in AdminSessionRows
      <4>1. u \in Users /\ h \in Nat
        BY <3>0, <3>2, AdminRowsAreTyped DEF ChallengeRows
      <4> QED BY <3>0, <4>1 DEF AdminSessionRows
    <3>4. /\ SessionsEnd(RevokedOf(u)) /\ SessionsEnd(adminSession)
          /\ \A s \in DOMAIN adminSession : adminSession[s].user = u => ~RevokedOf(u)[s].live
      BY SessionsAreRevoked
    <3>5. PICK revoked : revoked = RevokedOf(u)
      OBVIOUS
    <3>6. revoked \in Seq(AdminSessionRows) /\ Len(revoked) = Len(adminSession)
      BY <3>4, <3>5 DEF SessionsEnd
    <3>7. /\ adminSession' \in Seq(AdminSessionRows) /\ Len(adminSession') = Len(adminSession) + 1
          /\ Len(adminSession) \in Nat /\ DOMAIN adminSession = 1..Len(adminSession)
          /\ DOMAIN adminSession' = 1..(Len(adminSession) + 1)
          /\ adminSession'[Len(adminSession) + 1] = new
          /\ \A s \in DOMAIN adminSession : adminSession'[s] = revoked[s]
      BY <3>1, <3>3, <3>5, <3>6 DEF TablesTyped
    <3>8. \A s \in DOMAIN adminSession :
            /\ adminSession'[s].user = adminSession[s].user /\ adminSession'[s].proof = adminSession[s].proof
            /\ adminSession'[s].step = adminSession[s].step
            /\ adminSession'[s].live => adminSession[s].live /\ adminSession[s].user # u
            /\ adminSession'[s].elevated => adminSession[s].elevated
      BY <3>4, <3>5, <3>7 DEF SessionsEnd
    <3>9. \A g, v, purpose : Proven(g, v, purpose) => Proven(g, v, purpose)'
      BY <1>0, ProofsStay
    <3>10. new.proof = h /\ new.user = u /\ new.step = 0 /\ ~new.elevated
      BY <3>0
    <3>11. ASSUME NEW s \in DOMAIN adminSession'
           PROVE  /\ adminSession'[s].proof # 0 => Proven(adminSession[s].proof, adminSession[s].user, "LOGIN")'
                  /\ adminSession'[s].step # 0 => Proven(adminSession[s].step, adminSession[s].user, "STEP_UP")'
                  /\ adminSession'[s].elevated => adminSession'[s].step # 0
      <4>0. PICK p, x, v : p = adminSession'[s].proof /\ x = adminSession'[s].step /\ v = adminSession'[s].user
        OBVIOUS
      <4>1. CASE s \in DOMAIN adminSession
        <5>1. (p # 0 => Proven(p, v, "LOGIN")) /\ (x # 0 => Proven(x, v, "STEP_UP"))
          BY <3>8, <4>0, <4>1 DEF AdminSessionsSound
        <5>2. adminSession'[s].elevated => x # 0
          BY <3>8, <4>0, <4>1 DEF AdminSessionsSound
        <5> QED BY <3>9, <4>0, <5>1, <5>2
      <4>2. CASE s = Len(adminSession) + 1
        <5>1. p = h /\ v = u /\ x = 0 /\ ~adminSession'[s].elevated
          BY <3>7, <3>10, <4>0, <4>2
        <5> QED BY <3>2, <3>9, <4>0, <5>1
      <4> QED BY <3>7, <4>1, <4>2
    <3>12. ASSUME NEW s \in DOMAIN adminSession', NEW t \in DOMAIN adminSession',
                  adminSession'[s].live, adminSession'[t].live, adminSession'[t].user = adminSession'[s].user
           PROVE  s = t
      <4>1. CASE s \in DOMAIN adminSession /\ t \in DOMAIN adminSession
        BY <3>8, <3>12, <4>1 DEF AdminSessionsSound
      <4>2. CASE s = Len(adminSession) + 1 \/ t = Len(adminSession) + 1
        BY <3>7, <3>8, <3>10, <3>12, <4>2
      <4> QED BY <3>7, <4>1, <4>2
    <3> QED BY <3>7, <3>8, <3>11, <3>12 DEF AdminSessionsSound
  <2> QED BY <2>1, <2>2
<1>16. CASE verifyStepUp(r)
  <2>0. PICK h, z, u : h = seen[r].entry /\ z = seen[r].row /\ u = r.user
    OBVIOUS
  <2>1. z \in AdminSessionsOf(u) /\ Proven(h, u, "STEP_UP") /\ h # 0
    <3>1. z \in AdminSessionsOf(u) /\ Proven(h, u, "STEP_UP")
      BY <1>16, <1>0, <2>0 DEF verifyStepUp, At, AdminSight
    <3>2. h \in DOMAIN challenge
      BY <3>1 DEF Proven, ChallengesOf
    <3> QED BY <3>1, <3>2 DEF TablesTyped
  <2>2. PICK row : row = [[adminSession[z] EXCEPT !.elevated = TRUE] EXCEPT !.step = h]
    OBVIOUS
  <2>3. z \in DOMAIN adminSession /\ adminSession[z] \in AdminSessionRows /\ adminSession[z].user = u /\ h \in Nat
    BY <2>1, AdminRowsAreTyped DEF AdminSessionsOf, Proven
  <2>4. /\ row \in AdminSessionRows /\ row.user = u /\ row.proof = adminSession[z].proof
        /\ row.step = h /\ row.live = adminSession[z].live
    BY <2>2, <2>3 DEF AdminSessionRows
  <2>5. adminSession' = [adminSession EXCEPT ![z] = row]
    <3>1. adminSession' = [[adminSession EXCEPT ![z].elevated = TRUE] EXCEPT ![z].step = h]
      BY <1>16, <2>0 DEF verifyStepUp
    <3> QED BY <2>2, <2>3, <3>1
  <2>6. /\ adminSession' \in Seq(AdminSessionRows) /\ DOMAIN adminSession' = DOMAIN adminSession
        /\ adminSession'[z] = row /\ \A s \in DOMAIN adminSession \ {z} : adminSession'[s] = adminSession[s]
    BY <2>3, <2>4, <2>5 DEF TablesTyped
  <2>7. \A g, v, purpose : Proven(g, v, purpose) => Proven(g, v, purpose)'
    BY <1>0, ProofsStay
  <2>8. ASSUME NEW s \in DOMAIN adminSession'
        PROVE  /\ adminSession'[s].proof # 0 => Proven(adminSession[s].proof, adminSession[s].user, "LOGIN")'
               /\ adminSession'[s].step # 0 => Proven(adminSession[s].step, adminSession[s].user, "STEP_UP")'
               /\ adminSession'[s].elevated => adminSession'[s].step # 0
    <3>0. PICK p, x, v : p = adminSession'[s].proof /\ x = adminSession'[s].step /\ v = adminSession'[s].user
      OBVIOUS
    <3>1. (p # 0 => Proven(p, v, "LOGIN")) /\ (x # 0 => Proven(x, v, "STEP_UP"))
      BY <2>1, <2>3, <2>4, <2>6, <3>0 DEF AdminSessionsSound
    <3>2. adminSession'[s].elevated => x # 0
      BY <2>1, <2>4, <2>6, <3>0 DEF AdminSessionsSound
    <3> QED BY <2>7, <3>0, <3>1, <3>2
  <2>9. \A s \in DOMAIN adminSession : adminSession'[s].user = adminSession[s].user /\ adminSession'[s].live = adminSession[s].live
    BY <2>3, <2>4, <2>6
  <2>10. \A s, t \in DOMAIN adminSession' :
           adminSession'[s].live /\ adminSession'[t].live /\ adminSession'[t].user = adminSession'[s].user => s = t
    BY <2>6, <2>9 DEF AdminSessionsSound
  <2> QED BY <2>6, <2>8, <2>9, <2>10 DEF AdminSessionsSound
<1>17. CASE verifyCredentials(r)
  BY <1>17, <1>u DEF verifyCredentials, Mistaken, Recognised, Refused, tableVars, adminVars
<1>18. CASE dismiss(r)
  <2>1. SessionsEnd(adminSession')
    BY <1>18, SessionsAreRevoked DEF dismiss
  <2> QED BY <1>e, <2>1
<1> QED BY <1>1, <1>2, <1>3, <1>4, <1>5, <1>6, <1>7, <1>8, <1>9, <1>10, <1>11, <1>12, <1>13, <1>14, <1>15, <1>16,
       <1>17, <1>18 DEF AdminSteps

LEMMA AdminSightsGoOn ==
    ASSUME IInv, NEW r \in plot.requests, AdminSteps(r)
    PROVE  AdminSight(r)'
<1> USE DEF IInv
<1>0. /\ AdminSight(r) /\ IsSight(seen[r]) /\ r \in Commands
      /\ DOMAIN challenge \subseteq DOMAIN challenge' /\ DOMAIN adminSession \subseteq DOMAIN adminSession'
      /\ \A s \in DOMAIN adminSession : adminSession'[s].user = adminSession[s].user
      /\ \A h \in DOMAIN challenge : challenge'[h].user = challenge[h].user
  <2>1. AdminSight(r) /\ IsSight(seen[r]) /\ r \in Commands
    BY AddressesOfRequests DEF AdminSights, RequestsTyped
  <2>2. /\ DOMAIN adminSession \subseteq DOMAIN adminSession'
        /\ \A s \in DOMAIN adminSession : adminSession'[s].user = adminSession[s].user
    BY SessionsOfAdmins
  <2>3. ChallengesGrow
    BY AdminsDoMoveOn DEF AdminsMoveOn
  <2>4. DOMAIN challenge \subseteq DOMAIN challenge'
    BY <2>3 DEF ChallengesGrow, TablesTyped
  <2> QED BY <2>1, <2>2, <2>3, <2>4 DEF ChallengesGrow
<1>p. \A h, u, purpose : Proven(h, u, purpose) => Proven(h, u, purpose)'
  BY AdminsDoMoveOn, ProofsStay DEF AdminsMoveOn
<1>s. \A s, u : s \in AdminSessionsOf(u) => s \in AdminSessionsOf(u)'
  BY <1>0 DEF AdminSessionsOf
<1>e. CASE pc'[r] \in Ended
  BY <1>e DEF AdminSight, Ended
<1>1. CASE validateSession(r)
  <2>1. CASE Refused(r)
    BY <1>e, <2>1, Arrivals DEF Ended
  <2>2. CASE ~Refused(r)
    <3>1. PICK s \in AdminSessionsOf(r.user) :
             \/ Reads(r, "guarded", [NoSight EXCEPT !.row = s, !.n = IF adminSession[s].elevated THEN 1 ELSE 0])
             \/ Reads(r, "expire", [NoSight EXCEPT !.row = s])
      BY <1>1, <2>2 DEF validateSession
    <3>a. PICK n : n = IF adminSession[s].elevated THEN 1 ELSE 0
      OBVIOUS
    <3>b. PICK known, late : known = [NoSight EXCEPT !.row = s, !.n = n] /\ late = [NoSight EXCEPT !.row = s]
      OBVIOUS
    <3>c. Reads(r, "guarded", known) \/ Reads(r, "expire", late)
      BY <3>1, <3>a, <3>b
    <3>d. known.row = s /\ late.row = s
      BY <3>b DEF NoSight
    <3>2. pc'[r] \in {"guarded", "expire"} /\ seen'[r].row = s
      BY <3>c, <3>d, Arrivals
    <3>3. s \in AdminSessionsOf(r.user)' /\ s \in DOMAIN adminSession'
      BY <1>0, <1>s DEF AdminSessionsOf
    <3> QED BY <3>2, <3>3 DEF AdminSight
  <2> QED BY <2>1, <2>2
<1>2. CASE expireSession(r)
  <2>1. pc'[r] \in Ended
    BY <1>2, Arrivals DEF expireSession, Ended
  <2> QED BY <1>e, <2>1
<1>3. CASE act(r)
  <2>1. pc'[r] \in Ended
    BY <1>3, Arrivals DEF act, Ended
  <2> QED BY <1>e, <2>1
<1>4. CASE adminLogout(r)
  <2>1. pc'[r] \in Ended
    BY <1>4, Arrivals DEF adminLogout, Ended
  <2> QED BY <1>e, <2>1
<1>5. CASE readAdmin(r)
  <2>1. CASE Refused(r)
    BY <1>e, <2>1, Arrivals DEF Ended
  <2>2. CASE Reads(r, "addressed", Addressed(r))
    <3>1. pc'[r] = "addressed" /\ seen'[r] = Addressed(r)
      BY <2>2, Arrivals
    <3>2. seen'[r].set = {account[r.user].email}
      BY <3>1 DEF Addressed, NoSight
    <3>3. account[r.user].email \in Emails \cup {Nothing}
      BY <1>0 DEF TablesTyped, Accounts_, Commands
    <3> QED BY <3>1, <3>2, <3>3 DEF AdminSight
  <2> QED BY <1>5, <2>1, <2>2 DEF readAdmin
<1>6. CASE readEmail(r)
  <2>1. CASE Refused(r)
    BY <1>e, <2>1, Arrivals DEF Ended
  <2>2. CASE Reads(r, "addressed", Addressed(r))
    <3>1. pc'[r] = "addressed" /\ seen'[r] = Addressed(r)
      BY <2>2, Arrivals
    <3>2. seen'[r].set = {account[r.user].email}
      BY <3>1 DEF Addressed, NoSight
    <3>3. account[r.user].email \in Emails \cup {Nothing}
      BY <1>0 DEF TablesTyped, Accounts_, Commands
    <3> QED BY <3>1, <3>2, <3>3 DEF AdminSight
  <2> QED BY <1>6, <2>1, <2>2 DEF readEmail
<1>7. CASE closeChallenges(r)
  <2>1. pc'[r] = "make" /\ seen'[r] = seen[r]
    BY <1>7, Arrivals DEF closeChallenges
  <2>2. pc[r] = "addressed"
    BY <1>7 DEF closeChallenges, Stands
  <2> QED BY <1>0, <2>1, <2>2 DEF AdminSight
<1>8. CASE openChallenge(r)
  <2>1. pc'[r] \in Ended
    BY <1>8, Arrivals DEF openChallenge, Ended
  <2> QED BY <1>e, <2>1
<1>9. CASE readLogin(r)
  <2>1. CASE Refused(r)
    BY <1>e, <2>1, Arrivals DEF Ended
  <2>2. CASE ~Refused(r)
    <3>1. PICK h \in DOMAIN challenge, to \in {"open", "close", "miss"} :
             /\ Reads(r, to, [NoSight EXCEPT !.row = h, !.n = Len(adminSession)])
             /\ to = "open" => Acceptable(r, h, "LOGIN")
      BY <1>9, <2>2 DEF readLogin
    <3>2. pc'[r] = to /\ seen'[r].row = h
      <4>1. pc'[r] = to /\ seen'[r] = [NoSight EXCEPT !.row = h, !.n = Len(adminSession)]
        BY <3>1, Arrivals
      <4> QED BY <4>1 DEF NoSight
    <3>3. PICK u : u = challenge[h].user
      OBVIOUS
    <3>4. to = "open" => Proven(h, u, "LOGIN")
      BY <1>0, <3>1, <3>3 DEF Acceptable, Entered, Proven, ChallengesOf, Commands
    <3>5. h \in DOMAIN challenge' /\ challenge'[h].user = u
      BY <1>0, <3>3
    <3>6. to = "open" => Proven(h, u, "LOGIN")'
      BY <1>p, <3>4
    <3> QED BY <3>2, <3>5, <3>6 DEF AdminSight
  <2> QED BY <2>1, <2>2
<1>10. CASE readStepUp(r)
  <2>1. CASE Refused(r)
    BY <1>e, <2>1, Arrivals DEF Ended
  <2>2. CASE ~Refused(r)
    <3>1. PICK h \in ChallengesOf(r.user, "STEP_UP") :
             \/ Acceptable(r, h, "STEP_UP") /\ Reads(r, "elevate", [seen[r] EXCEPT !.entry = h])
             \/ Reads(r, "miss", [seen[r] EXCEPT !.row = h])
      BY <1>10, <2>2 DEF readStepUp
    <3>2. seen[r].row \in AdminSessionsOf(r.user) /\ h \in DOMAIN challenge'
      BY <1>10, <1>0 DEF readStepUp, At, AdminSight, ChallengesOf
    <3>3. CASE Reads(r, "miss", [seen[r] EXCEPT !.row = h])
      <4>1. pc'[r] = "miss" /\ seen'[r] = [seen[r] EXCEPT !.row = h]
        BY <3>3, Arrivals
      <4>2. seen'[r].row = h
        BY <1>0, <4>1 DEF IsSight
      <4> QED BY <3>2, <4>1, <4>2 DEF AdminSight
    <3>4. CASE Acceptable(r, h, "STEP_UP") /\ Reads(r, "elevate", [seen[r] EXCEPT !.entry = h])
      <4>1. pc'[r] = "elevate" /\ seen'[r] = [seen[r] EXCEPT !.entry = h]
        BY <3>4, Arrivals
      <4>2. seen'[r].row = seen[r].row /\ seen'[r].entry = h
        BY <1>0, <4>1 DEF IsSight
      <4>3. Proven(h, r.user, "STEP_UP")
        BY <1>0, <3>4 DEF Acceptable, Entered, Proven, Commands
      <4>4. Proven(h, r.user, "STEP_UP")'
        BY <1>p, <4>3
      <4> QED BY <1>s, <3>2, <4>1, <4>2, <4>4 DEF AdminSight
    <3> QED BY <3>1, <3>3, <3>4
  <2> QED BY <2>1, <2>2
<1>11. CASE missChallenge(r)
  <2>1. pc'[r] \in Ended
    BY <1>11, Arrivals DEF missChallenge, Ended
  <2> QED BY <1>e, <2>1
<1>12. CASE closeLogin(r)
  <2>1. pc'[r] \in Ended
    BY <1>12, Arrivals DEF closeLogin, Ended
  <2> QED BY <1>e, <2>1
<1>13. CASE verifyLoginChallenge(r)
  <2>1. pc'[r] \in Ended
    BY <1>13, Arrivals DEF verifyLoginChallenge, Ended
  <2> QED BY <1>e, <2>1
<1>14. CASE verifyStepUp(r)
  <2>1. pc'[r] \in Ended
    BY <1>14, Arrivals DEF verifyStepUp, Ended
  <2> QED BY <1>e, <2>1
<1>15. CASE findAppellant(r)
  <2>1. pc'[r] \in {"refused", "verify"}
    BY <1>15, Arrivals DEF findAppellant
  <2> QED BY <2>1 DEF AdminSight
<1>16. CASE verifyCredentials(r)
  <2>1. pc'[r] \in Ended
    BY <1>16, Arrivals DEF verifyCredentials, Ended, Mistaken, Recognised
  <2> QED BY <1>e, <2>1
<1>17. CASE useAppealToken(r)
  <2>1. pc'[r] \in Ended
    BY <1>17, Arrivals DEF useAppealToken, Ended, Mistaken, Recognised
  <2> QED BY <1>e, <2>1
<1>18. CASE dismiss(r)
  <2>1. pc'[r] \in Ended
    BY <1>18, Arrivals DEF dismiss, Ended, Mistaken, Recognised
  <2> QED BY <1>e, <2>1
<1> QED BY <1>1, <1>2, <1>3, <1>4, <1>5, <1>6, <1>7, <1>8, <1>9, <1>10, <1>11, <1>12, <1>13, <1>14, <1>15, <1>16,
       <1>17, <1>18 DEF AdminSteps

LEMMA OtherAdminSightsStay ==
    ASSUME IInv, NEW r \in plot.requests, AdminSteps(r), NEW q \in plot.requests, pc'[q] = pc[q], seen'[q] = seen[q]
    PROVE  AdminSight(q)'
<1> USE DEF IInv
<1>0. /\ AdminSight(q)
      /\ DOMAIN challenge \subseteq DOMAIN challenge' /\ DOMAIN adminSession \subseteq DOMAIN adminSession'
      /\ \A s \in DOMAIN adminSession : adminSession'[s].user = adminSession[s].user
      /\ \A h \in DOMAIN challenge : challenge'[h].user = challenge[h].user
  BY AdminsDoMoveOn, SessionsOfAdmins DEF AdminsMoveOn, ChallengesGrow, AdminSights, TablesTyped
<1>1. \A h, u, purpose : Proven(h, u, purpose) => Proven(h, u, purpose)'
  BY AdminsDoMoveOn, ProofsStay DEF AdminsMoveOn
<1>2. \A s, u : s \in AdminSessionsOf(u) => s \in AdminSessionsOf(u)'
  BY <1>0 DEF AdminSessionsOf
<1>3. PICK h, x : h = seen[q].row /\ x = seen[q].entry
  OBVIOUS
<1>4. seen'[q].row = h /\ seen'[q].entry = x
  BY <1>3
<1>5. pc[q] = "open" => h \in DOMAIN challenge /\ Proven(h, challenge[h].user, "LOGIN")
  BY <1>0, <1>3 DEF AdminSight
<1>6. pc[q] = "open" => h \in DOMAIN challenge' /\ Proven(h, challenge[h].user, "LOGIN")'
  BY <1>0, <1>1, <1>5
<1>7. pc[q] = "elevate" => h \in AdminSessionsOf(q.user)' /\ Proven(x, q.user, "STEP_UP")'
  BY <1>0, <1>1, <1>2, <1>3 DEF AdminSight
<1> QED BY <1>0, <1>2, <1>3, <1>4, <1>6, <1>7 DEF AdminSight

(* A password that is wrong is counted, and the right one forgets the count. *)
LEMMA CountsOfPasswords ==
    ASSUME IInv, NEW r \in plot.requests, pc[r] # "refused", Mistaken(r) \/ Recognised(r),
           \A q \in plot.requests : pc[q] = "refused" => pc'[q] = "refused"
    PROVE  Counts'
<1> USE DEF IInv
<1>0. r.user \in Users /\ MaxTries \in Nat \ {0} /\ account[r.user].wrong + 1 \in Nat
  <2>1. r.user \in Users
    BY AddressesOfRequests DEF Commands
  <2>2. account[r.user].wrong \in Nat
    BY <2>1 DEF TablesTyped, Accounts_
  <2> QED BY <2>1, <2>2, AccountsAssumption
<1>1. plot' = plot /\ code' = code
  BY DEF Mistaken, Recognised, Ends, Done, Place
<1>2. CASE Mistaken(r)
  <2>1. /\ account'[r.user].wrong = account[r.user].wrong + 1
        /\ \A u \in Users \ {r.user} : account'[u] = account[u]
    BY <1>0, <1>2, AccountsCounted DEF Mistaken
  <2>2. misses' = misses \cup {<<r.id, "password", r.user>>} /\ pc'[r] = "refused"
    BY <1>2, Arrivals DEF Mistaken
  <2>3. /\ IsFiniteSet(misses')
        /\ Cardinality(MissesAt("password", r.user)') = Cardinality(MissesAt("password", r.user)) + 1
        /\ \A w, y : <<w, y>> # <<"password", r.user>> => MissesAt(w, y)' = MissesAt(w, y)
    BY <2>2, MissesAreCounted
  <2>4. \A m \in misses' : /\ m[2] = "code" => m[3] \in DOMAIN code'
                           /\ \A q \in plot.requests : q.id = m[1] => pc'[q] = "refused"
    <3>1. \A m \in misses : /\ m[2] = "code" => m[3] \in DOMAIN code'
                            /\ \A q \in plot.requests : q.id = m[1] => pc'[q] = "refused"
      BY <1>1 DEF Counts
    <3>2. \A q \in plot.requests : q.id = r.id => pc'[q] = "refused"
      BY <2>2, IdsDiffer
    <3> QED BY <2>2, <3>1, <3>2
  <2>5. ASSUME NEW u \in Users
        PROVE  account'[u].wrong = Cardinality(MissesAt("password", u)')
    <3>1. CASE u = r.user
      BY <2>1, <2>3, <3>1 DEF Counts
    <3>2. CASE u # r.user
      <4>1. MissesAt("password", u)' = MissesAt("password", u)
        BY <2>3, <3>2
      <4> QED BY <2>1, <3>2, <4>1 DEF Counts
    <3> QED BY <3>1, <3>2
  <2>6. ASSUME NEW c \in Rows'
        PROVE  code'[c].wrong = Cardinality(MissesAt("code", c)') /\ code'[c].wrong < MaxTries
    <3>1. c \in Rows
      BY <1>1 DEF Rows
    <3>2. MissesAt("code", c)' = MissesAt("code", c)
      BY <2>3
    <3> QED BY <1>1, <3>1, <3>2 DEF Counts
  <2> QED BY <1>1, <2>3, <2>4, <2>5, <2>6 DEF Counts
<1>3. CASE Recognised(r)
  <2>1. account'[r.user].wrong = 0 /\ \A u \in Users \ {r.user} : account'[u] = account[u]
    BY <1>0, <1>3, AccountsCounted DEF Recognised, Right
  <2>2. misses' = {m \in misses : m[2] # "password" \/ m[3] # r.user}
    BY <1>3 DEF Recognised
  <2>3. IsFiniteSet(misses') /\ misses' \subseteq misses
    BY <2>2, FS_Subset DEF Counts
  <2>4. /\ MissesAt("password", r.user)' = {}
        /\ \A u : u # r.user => MissesAt("password", u)' = MissesAt("password", u)
        /\ \A c : MissesAt("code", c)' = MissesAt("code", c)
    BY <2>2 DEF MissesAt
  <2>5. ASSUME NEW u \in Users
        PROVE  account'[u].wrong = Cardinality(MissesAt("password", u)')
    <3>1. CASE u = r.user
      BY <2>1, <2>4, <3>1, FS_EmptySet
    <3>2. CASE u # r.user
      BY <2>1, <2>4, <3>2 DEF Counts
    <3> QED BY <3>1, <3>2
  <2>6. ASSUME NEW c \in Rows'
        PROVE  code'[c].wrong = Cardinality(MissesAt("code", c)') /\ code'[c].wrong < MaxTries
    <3>1. c \in Rows
      BY <1>1 DEF Rows
    <3> QED BY <1>1, <2>4, <3>1 DEF Counts
  <2>7. \A m \in misses' : /\ m[2] = "code" => m[3] \in DOMAIN code'
                           /\ \A q \in plot.requests : q.id = m[1] => pc'[q] = "refused"
    BY <1>1, <2>3 DEF Counts
  <2> QED BY <1>1, <2>3, <2>5, <2>6, <2>7 DEF Counts
<1> QED BY <1>2, <1>3

(* Nothing that was promised of the accounts that are kept is lost. *)
LEMMA KeptAccountsStay ==
    ASSUME IInv, \A u \in Users : Kept(u), UNCHANGED picture
    PROVE  AccountsSound' /\ ProfilesStay
<1> USE DEF IInv
<1>1. AccountsSound'
  <2>1. ASSUME NEW u \in Users
        PROVE  /\ account'[u].state = "live" => account'[u].email \in Emails
               /\ account'[u].state = "none" => account'[u].wrong = 0
               /\ PicturesOf(account[u])' \subseteq There'
    <3>1. Kept(u)
      OBVIOUS
    <3>2. PicturesOf(account[u])' = PicturesOf(account[u])
      BY <3>1 DEF Kept, PicturesOf
    <3>3. There' = There
      BY DEF There
    <3> QED BY <3>1, <3>2, <3>3 DEF AccountsSound, Kept, Live
  <2> QED BY <2>1 DEF AccountsSound
<1>2. ASSUME NEW u \in Users
      PROVE  \/ account[u].state = "none" /\ ~account'[u].renamed
             \/ /\ account[u].state # "none" /\ account'[u].state # "none"
                /\ account'[u].renamed = account[u].renamed /\ Profile(u)' = Profile(u)
  <2>1. Kept(u)
    OBVIOUS
  <2> QED BY <2>1 DEF Kept, RenamesSound, Profile
<1> QED BY <1>1, <1>2 DEF ProfilesStay

LEMMA CountsOfAdmins ==
    ASSUME IInv, NEW r \in plot.requests, AdminSteps(r)
    PROVE  Counts'
<1> USE DEF IInv
<1>0. /\ \A q \in plot.requests : pc[q] = "refused" => pc'[q] = "refused"
      /\ plot' = plot /\ code' = code /\ MaxTries \in Nat \ {0}
  BY AdminsMove, MovesGoOn, AdminsDoMoveOn, AccountsAssumption DEF AdminPlaces, AdminsMoveOn
<1>c. ASSUME UNCHANGED misses, \A u \in Users : account'[u].wrong = account[u].wrong
      PROVE  Counts'
  BY <1>0, <1>c, CountsAreLeftAlone DEF Rows
<1>u. CASE UNCHANGED <<account, misses>>
  BY <1>c, <1>u
<1>1. CASE validateSession(r)
  BY <1>1, <1>u DEF validateSession, Reads, Goes, Refused, Answered, Ends, Done, Place, tableVars, codeVars, adminVars
<1>2. CASE expireSession(r)
  BY <1>2, <1>u DEF expireSession, ChallengesBecome, SessionsBecome, Reads, Goes, Refused, Answered, Ends, Done,
         Place, tableVars, codeVars, adminVars
<1>3. CASE act(r)
  BY <1>3, <1>u DEF act, Reads, Goes, Refused, Answered, Ends, Done, Place, tableVars, codeVars, adminVars
<1>4. CASE adminLogout(r)
  BY <1>4, <1>u DEF adminLogout, ChallengesBecome, SessionsBecome, Reads, Goes, Refused, Answered, Ends, Done,
         Place, tableVars, codeVars, adminVars
<1>5. CASE readAdmin(r)
  BY <1>5, <1>u DEF readAdmin, Reads, Goes, Refused, Answered, Ends, Done, Place, tableVars, codeVars, adminVars
<1>6. CASE readEmail(r)
  BY <1>6, <1>u DEF readEmail, Reads, Goes, Refused, Answered, Ends, Done, Place, tableVars, codeVars, adminVars
<1>7. CASE closeChallenges(r)
  BY <1>7, <1>u DEF closeChallenges, ChallengesBecome, SessionsBecome, Reads, Goes, Refused, Answered, Ends, Done,
         Place, tableVars, codeVars, adminVars
<1>8. CASE openChallenge(r)
  BY <1>8, <1>u DEF openChallenge, ChallengesBecome, SessionsBecome, Reads, Goes, Refused, Answered, Ends, Done,
         Place, tableVars, codeVars, adminVars
<1>9. CASE readLogin(r)
  BY <1>9, <1>u DEF readLogin, Reads, Goes, Refused, Answered, Ends, Done, Place, tableVars, codeVars, adminVars
<1>10. CASE readStepUp(r)
  BY <1>10, <1>u DEF readStepUp, Reads, Goes, Refused, Answered, Ends, Done, Place, tableVars, codeVars, adminVars
<1>11. CASE missChallenge(r)
  BY <1>11, <1>u DEF missChallenge, ChallengesBecome, SessionsBecome, Reads, Goes, Refused, Answered, Ends, Done,
         Place, tableVars, codeVars, adminVars
<1>12. CASE closeLogin(r)
  BY <1>12, <1>u DEF closeLogin, ChallengesBecome, SessionsBecome, Reads, Goes, Refused, Answered, Ends, Done,
         Place, tableVars, codeVars, adminVars
<1>13. CASE verifyLoginChallenge(r)
  BY <1>13, <1>u DEF verifyLoginChallenge, ChallengesBecome, SessionsBecome, Reads, Goes, Refused, Answered, Ends,
         Done, Place, tableVars, codeVars, adminVars
<1>14. CASE verifyStepUp(r)
  BY <1>14, <1>u DEF verifyStepUp, ChallengesBecome, SessionsBecome, Reads, Goes, Refused, Answered, Ends, Done,
         Place, tableVars, codeVars, adminVars
<1>15. CASE findAppellant(r)
  BY <1>15, <1>u DEF findAppellant, Reads, Goes, Refused, Answered, Ends, Done, Place, tableVars, codeVars, adminVars
<1>16. CASE useAppealToken(r)
  BY <1>16, <1>u DEF useAppealToken, Reads, Goes, Refused, Answered, Ends, Done, Place, tableVars, codeVars, adminVars
<1>17. CASE verifyCredentials(r)
  <2>1. CASE Refused(r)
    BY <2>1, <1>u DEF Refused, tableVars, codeVars
  <2>2. CASE Mistaken(r) \/ Recognised(r)
    <3>1. pc[r] # "refused"
      BY <1>17 DEF verifyCredentials, At
    <3> QED BY <1>0, <2>2, <3>1, CountsOfPasswords
  <2> QED BY <1>17, <2>1, <2>2 DEF verifyCredentials
<1>18. CASE dismiss(r)
  <2>1. account' = [account EXCEPT ![r.user] = [account[r.user] EXCEPT !.role = "USER"]] /\ UNCHANGED misses
    BY <1>18 DEF dismiss, AccountBecomes, codeVars
  <2>2. \A row \in Accounts_ : [row EXCEPT !.role = "USER"].wrong = row.wrong
    BY DEF Accounts_
  <2>3. \A u \in Users : account'[u].wrong = account[u].wrong
    BY <2>1, <2>2 DEF TablesTyped
  <2> QED BY <1>c, <2>1, <2>3
<1> QED BY <1>1, <1>2, <1>3, <1>4, <1>5, <1>6, <1>7, <1>8, <1>9, <1>10, <1>11, <1>12, <1>13, <1>14, <1>15, <1>16,
       <1>17, <1>18 DEF AdminSteps

LEMMA AdminStepsKeep ==
    ASSUME IInv, NEW r \in plot.requests, AdminSteps(r)
    PROVE  IInv'
<1> USE DEF IInv
<1>0. AdminsMoveOn /\ Moves(r, {"new"} \cup AdminPlaces, Ended \cup AdminPlaces) /\ plot' = plot
  BY AdminsMove, AdminsDoMoveOn DEF AdminsMoveOn
<1>1. RequestsTyped'
  BY <1>0, MovesAreTyped
<1>2. /\ \A q \in plot.requests : pc'[q] = "new" => pc[q] = "new"
      /\ \A q \in plot.requests \ {r} : pc'[q] = pc[q] /\ seen'[q] = seen[q]
  BY <1>0, MovesGoOn DEF AdminPlaces, Ended
<1>3. Elsewhere(CodePlaces) /\ Elsewhere({"rename", "fill", "invalidate"}) /\ Elsewhere(PausePlaces) /\ Elsewhere(DevicePlaces)
  <2>1. \A P : ({"new"} \cup AdminPlaces) \cap P = {} /\ (Ended \cup AdminPlaces) \cap P = {} => Elsewhere(P)
    BY <1>0, MovesElsewhere
  <2> QED BY <2>1 DEF Ended, CodePlaces, AdminPlaces, PausePlaces, DevicePlaces
<1>4. CodesHold_'
  <2>1. ForgottenStay
    BY <1>2, AdminsMove DEF ForgottenStay
  <2>2. CodesStay
    BY <1>0 DEF AdminsMoveOn, CodesStay
  <2>3. /\ \A u \in Users : account'[u].password = account[u].password
        /\ \A u \in Users : account[u].state # "none" => account'[u].state # "none"
    BY <1>0 DEF AdminsMoveOn, Kept
  <2>4. CodesHold_
    BY DEF CodesHold_
  <2> QED BY <1>3, <2>1, <2>2, <2>3, <2>4, CodesAreLeftAlone
<1>5. AccountsSound' /\ ProfilesStay
  BY <1>0, KeptAccountsStay DEF AdminsMoveOn, profileVars
<1>6. TablesTyped' /\ CodesTyped' /\ TerminalsSound'
  <2>1. /\ UNCHANGED <<code, begun, accepted, device, picture, suspect, behind, settings, clock, pauses, profile, renames>>
        /\ mailed' \subseteq Mails /\ signedIn' \subseteq signedIn /\ appealing' \subseteq Users
        /\ account' \in [Users -> Accounts_] /\ challenge' \in Seq(ChallengeRows)
    BY <1>0 DEF AdminsMoveOn, ChallengesGrow, deviceVars, settingVars, profileVars
  <2>2. adminSession' \in Seq(AdminSessionRows)
    BY SessionsOfAdmins
  <2>3. TablesTyped'
    BY <2>1, <2>2 DEF TablesTyped, There
  <2>4. CodesTyped'
    BY <2>1 DEF CodesTyped
  <2> QED BY <2>1, <2>3, <2>4 DEF TerminalsSound
<1>7. AdminHolds'
  <2>1. \A q \in plot.requests : AdminSight(q)'
    BY <1>2, AdminSightsGoOn, OtherAdminSightsStay
  <2> QED BY <1>0, <2>1, SessionsOfAdmins DEF AdminHolds, AdminSights
<1>8. ProfilesHold'
  BY <1>0, <1>3, <1>5, ProfilesAreLeftAlone DEF ProfilesHold, AdminsMoveOn, profileVars
<1>9. PausesSound'
  BY <1>0, <1>3, PausesAreLeftAlone DEF AdminsMoveOn, deviceVars, settingVars
<1>10. PushesHold'
  BY <1>0, <1>2, <1>3, PushesAreLeftAlone DEF PushesHold, AdminsMoveOn, deviceVars
<1>11. Counts'
  BY CountsOfAdmins
<1> QED BY <1>1, <1>4, <1>5, <1>6, <1>7, <1>8, <1>9, <1>10, <1>11 DEF CodesHold_, AdminHolds, ProfilesHold, PushesHold

-------------------------------------------------------------------------------
(* Switches *)

(* What neither writes codes nor accounts that are there. *)
LEMMA CodesAndAdminsStay ==
    ASSUME IInv, UNCHANGED <<codeVars, challenge, adminSession>>,
           \A u \in Users : account'[u].password = account[u].password /\ account'[u].wrong = account[u].wrong,
           \A u \in Users : account[u].state # "none" => account'[u].state # "none",
           Elsewhere(CodePlaces), Elsewhere(AdminPlaces), ForgottenStay,
           \A q \in plot.requests : pc[q] = "refused" => pc'[q] = "refused"
    PROVE  CodesTyped' /\ CodesHold_' /\ AdminHolds' /\ Counts'
<1> USE DEF IInv
<1>1. CodesTyped'
  BY DEF CodesTyped, codeVars
<1>2. CodesHold_'
  BY CodesAreLeftAlone DEF CodesHold_, CodesStay, codeVars
<1>3. AdminHolds'
  BY AdminIsLeftAlone DEF AdminHolds, codeVars
<1>4. Counts'
  BY CountsAreLeftAlone, AccountsAssumption DEF codeVars, Rows, Elsewhere
<1> QED BY <1>1, <1>2, <1>3, <1>4

PauseSteps(r) == assertRequestAllowed(r) \/ fillPauses(r) \/ updateSettings(r) \/ dropPauses(r)

LEMMA PausesMove ==
    ASSUME RequestsTyped, TablesTyped, NEW r \in plot.requests, PauseSteps(r)
    PROVE  /\ Moves(r, {"new"} \cup PausePlaces, Ended \cup PausePlaces)
           /\ pc[r] = "new" => r.op # "forgotPassword"
           /\ r.op = "forgotPassword" => seen'[r].user = seen[r].user
<1> DEFINE F == {"new"} \cup PausePlaces
           T == Ended \cup PausePlaces
<1>0. IsSight(seen[r]) /\ IsSight(NoSight)
  BY NoSightIsSight DEF RequestsTyped
<1>1. pc[r] \in F /\ (pc[r] = "new" => r.op # "forgotPassword")
  BY DEF PauseSteps, assertRequestAllowed, fillPauses, updateSettings, dropPauses, Arrives, Stands, PausePlaces
<1>2. CASE Done(r) \/ Ends(r)
  BY <1>1, <1>2, EndsMove, Arrivals DEF Ended
<1>3. CASE updateSettings(r)
  <2>1. Place(r, "drop pauses") /\ UNCHANGED seen
    BY <1>3 DEF updateSettings
  <2> QED BY <1>1, <2>1, PlacesMove DEF PausePlaces
<1>4. CASE assertRequestAllowed(r) /\ ~(Done(r) \/ Ends(r))
  <2>1. Reads(r, "fill pauses", [NoSight EXCEPT !.set = {settings}]) /\ r.op # "forgotPassword"
    BY <1>4, Zenon DEF assertRequestAllowed, Judged, Arrives
  <2>2. IsSight([NoSight EXCEPT !.set = {settings}])
    BY <1>0, SightsChange, Zenon
  <2> QED BY <1>1, <2>1, <2>2, ReadsMove DEF PausePlaces
<1> QED BY <1>2, <1>3, <1>4 DEF PauseSteps, fillPauses, dropPauses, Judged

(* Once the cache of a server has been dropped, it can be trusted. *)
LEMMA DropsKeep ==
    ASSUME IInv, NEW v \in Servers, Dropped(v), plot' = plot,
           \A q \in plot.requests : pc'[q] = "fill pauses" => pc[q] = "fill pauses" /\ seen'[q] = seen[q],
           \A q \in plot.requests : pc[q] = "drop pauses" /\ q.server # v => pc'[q] = "drop pauses"
    PROVE  /\ PausesSound' /\ pauses' \in [Servers -> Pauses] /\ behind' \subseteq Servers
<1> USE DEF IInv
<1>h. \A w \in Servers \ behind :
        \/ ~pauses[w].full \/ pauses[w].shows = settings
        \/ \E q \in plot.requests : q.server = w /\ pc[q] = "drop pauses"
  BY DEF PausesSound, PausesTakeHold
<1>1. /\ pauses' = [pauses EXCEPT ![v] = NoPauses] /\ settings' = settings
      /\ behind' = IF Asking(v) THEN behind ELSE behind \ {v}
  BY DEF Dropped, PausesBecome
<1>2. NoPauses \in Pauses /\ ~NoPauses.full
  BY AccountsAssumption DEF NoPauses, NoPause, Pauses, Settings
<1>3. ASSUME NEW q \in plot.requests, pc'[q] = "fill pauses"
      PROVE  \E s \in Settings : seen'[q].set = {s} /\ (q.server \notin behind' => s = settings')
  <2>1. pc[q] = "fill pauses" /\ seen'[q] = seen[q]
    BY <1>3
  <2>2. PICK s \in Settings : seen[q].set = {s} /\ (q.server \notin behind => s = settings)
    BY <2>1 DEF PausesSound
  <2>3. q.server \notin behind' => q.server \notin behind
    BY <1>1, <2>1 DEF Asking
  <2> QED BY <1>1, <2>1, <2>2, <2>3
<1>4. PausesTakeHold'
  <2> SUFFICES ASSUME NEW w \in Servers \ behind'
               PROVE  \/ ~pauses'[w].full \/ pauses'[w].shows = settings'
                      \/ \E q \in plot.requests : q.server = w /\ pc'[q] = "drop pauses"
    BY DEF PausesTakeHold
  <2>1. CASE w = v
    BY <1>1, <1>2, <2>1 DEF TablesTyped
  <2>2. CASE w # v
    <3>1. pauses'[w] = pauses[w] /\ w \notin behind
      BY <1>1, <2>2 DEF TablesTyped
    <3>2. \/ ~pauses[w].full \/ pauses[w].shows = settings
          \/ \E q \in plot.requests : q.server = w /\ pc[q] = "drop pauses"
      BY <1>h, <3>1
    <3>3. \A q \in plot.requests : q.server = w /\ pc[q] = "drop pauses" => pc'[q] = "drop pauses"
      BY <2>2
    <3> QED BY <1>1, <3>1, <3>2, <3>3
  <2> QED BY <2>1, <2>2
<1> QED BY <1>1, <1>2, <1>3, <1>4 DEF PausesSound, TablesTyped

LEMMA SwitchesKeep ==
    ASSUME IInv, NEW r \in plot.requests, PauseSteps(r)
    PROVE  /\ PausesSound' /\ pauses' \in [Servers -> Pauses] /\ behind' \subseteq Servers /\ settings' \in Settings
<1> USE DEF IInv
<1>0. /\ r \in Commands /\ r.server \in Servers /\ r.switch \in Switches /\ r.until \in Times
      /\ \A q \in plot.requests : q.server \in Servers
      /\ settings \in Settings /\ pauses \in [Servers -> Pauses] /\ behind \subseteq Servers
  BY AddressesOfRequests DEF Commands, TablesTyped
<1>h. \A w \in Servers \ behind :
        \/ ~pauses[w].full \/ pauses[w].shows = settings
        \/ \E q \in plot.requests : q.server = w /\ pc[q] = "drop pauses"
  BY DEF PausesSound, PausesTakeHold
<1>1. plot' = plot /\ \A q \in plot.requests \ {r} : pc'[q] = pc[q] /\ seen'[q] = seen[q]
  <2>1. Moves(r, {"new"} \cup PausePlaces, Ended \cup PausePlaces)
    BY PausesMove
  <2>2. {"done", "refused"} \cap ({"new"} \cup PausePlaces) = {}
    BY DEF PausePlaces
  <2> QED BY <2>1, <2>2, MovesGoOn
<1>2. CASE assertRequestAllowed(r)
  <2>1. UNCHANGED <<settings, pauses, behind>> /\ pc[r] = "new"
    BY <1>2 DEF assertRequestAllowed, Judged, Reads, tableVars, deviceVars, settingVars, Arrives
  <2>2. pc'[r] \in Ended \/ (pc'[r] = "fill pauses" /\ seen'[r] = [NoSight EXCEPT !.set = {settings}])
    BY <1>2, Arrivals DEF assertRequestAllowed, Judged, Ended
  <2>3. ASSUME NEW q \in plot.requests, pc'[q] = "fill pauses"
        PROVE  \E s \in Settings : seen'[q].set = {s} /\ (q.server \notin behind' => s = settings')
    <3>1. CASE q = r
      <4>1. seen'[r].set = {settings}
        BY <2>2, <2>3, <3>1 DEF NoSight, Ended
      <4> QED BY <1>0, <2>1, <3>1, <4>1
    <3>2. CASE q # r
      BY <1>1, <2>1, <2>3, <3>2 DEF PausesSound
    <3> QED BY <3>1, <3>2
  <2>4. \A q \in plot.requests : pc[q] = "drop pauses" => pc'[q] = "drop pauses"
    BY <1>1, <2>1
  <2>5. PausesTakeHold'
    BY <1>h, <1>1, <2>1, <2>4 DEF PausesTakeHold
  <2> QED BY <1>0, <1>1, <2>1, <2>3, <2>5 DEF PausesSound
<1>3. CASE fillPauses(r)
  <2>0. pc[r] = "fill pauses"
    BY <1>3 DEF fillPauses, Stands
  <2>1. PICK s \in Settings : seen[r].set = {s} /\ (r.server \notin behind => s = settings)
    BY <2>0 DEF PausesSound
  <2>2. (CHOOSE x \in seen[r].set : TRUE) = s
    BY <2>1
  <2>3. /\ pauses' = [pauses EXCEPT ![r.server] = [full |-> TRUE, shows |-> s]]
        /\ settings' = settings /\ behind' = behind /\ pc'[r] \in Ended
    BY <1>3, <2>2, Arrivals DEF fillPauses, PausesBecome, Judged, Ended
  <2>4. [full |-> TRUE, shows |-> s] \in Pauses
    BY DEF Pauses
  <2>5. ASSUME NEW q \in plot.requests, pc'[q] = "fill pauses"
        PROVE  \E t \in Settings : seen'[q].set = {t} /\ (q.server \notin behind' => t = settings')
    BY <1>1, <2>3, <2>5 DEF PausesSound, Ended
  <2>6. \A q \in plot.requests : pc[q] = "drop pauses" => pc'[q] = "drop pauses"
    BY <1>1, <2>0
  <2>7. ASSUME NEW w \in Servers \ behind'
        PROVE  \/ ~pauses'[w].full \/ pauses'[w].shows = settings'
               \/ \E q \in plot.requests : q.server = w /\ pc'[q] = "drop pauses"
    <3>1. CASE w = r.server
      BY <1>0, <2>1, <2>3, <3>1
    <3>2. CASE w # r.server
      <4>1. pauses'[w] = pauses[w]
        BY <1>0, <2>3, <3>2
      <4>2. \/ ~pauses[w].full \/ pauses[w].shows = settings
            \/ \E q \in plot.requests : q.server = w /\ pc[q] = "drop pauses"
        BY <1>h, <2>3
      <4>3. \A q \in plot.requests : q.server = w /\ pc[q] = "drop pauses" => pc'[q] = "drop pauses"
        BY <2>6
      <4> QED BY <2>3, <4>1, <4>2, <4>3
    <3> QED BY <3>1, <3>2
  <2> QED BY <1>0, <1>1, <2>3, <2>4, <2>5, <2>7 DEF PausesSound, PausesTakeHold
<1>4. CASE updateSettings(r)
  <2>1. /\ settings' = [settings EXCEPT ![r.switch] = r.until] /\ pauses' = pauses
        /\ behind' = behind \cup {v \in Servers : Asking(v) \/ (v # r.server /\ pauses[v].full)}
        /\ pc'[r] = "drop pauses"
    <3>1. Place(r, "drop pauses") /\ UNCHANGED seen
      BY <1>4 DEF updateSettings
    <3>2. pc'[r] = "drop pauses"
      BY <3>1 DEF RequestsTyped, Place
    <3> QED BY <1>4, <3>2 DEF updateSettings
  <2>2. settings' \in Settings
    BY <1>0, <2>1 DEF Settings
  <2>3. ASSUME NEW q \in plot.requests, pc'[q] = "fill pauses"
        PROVE  \E s \in Settings : seen'[q].set = {s} /\ (q.server \notin behind' => s = settings')
    <3>1. q # r /\ pc[q] = "fill pauses" /\ seen'[q] = seen[q]
      BY <1>1, <2>1, <2>3
    <3>2. q.server \in behind'
      BY <1>0, <2>1, <3>1 DEF Asking
    <3> QED BY <3>1, <3>2 DEF PausesSound
  <2>4. ASSUME NEW w \in Servers \ behind'
        PROVE  \/ ~pauses'[w].full \/ pauses'[w].shows = settings'
               \/ \E q \in plot.requests : q.server = w /\ pc'[q] = "drop pauses"
    BY <2>1
  <2> QED BY <1>0, <1>1, <2>1, <2>2, <2>3, <2>4 DEF PausesSound, PausesTakeHold
<1>5. CASE dropPauses(r)
  <2>1. pc[r] = "drop pauses" /\ pc'[r] = "done" /\ Dropped(r.server) /\ settings' = settings
    BY <1>5, Arrivals DEF dropPauses, Stands, Dropped, PausesBecome
  <2>2. /\ \A q \in plot.requests : pc'[q] = "fill pauses" => pc[q] = "fill pauses" /\ seen'[q] = seen[q]
        /\ \A q \in plot.requests : pc[q] = "drop pauses" /\ q.server # r.server => pc'[q] = "drop pauses"
    BY <1>1, <2>1
  <2> QED BY <1>0, <1>1, <2>1, <2>2, DropsKeep
<1> QED BY <1>2, <1>3, <1>4, <1>5 DEF PauseSteps

LEMMA PauseStepsKeep ==
    ASSUME IInv, NEW r \in plot.requests, PauseSteps(r)
    PROVE  IInv'
<1> USE DEF IInv
<1>0. Moves(r, {"new"} \cup PausePlaces, Ended \cup PausePlaces) /\ plot' = plot
  <2>1. Moves(r, {"new"} \cup PausePlaces, Ended \cup PausePlaces)
    BY PausesMove
  <2> QED BY <2>1 DEF Moves, Step
<1>u. UNCHANGED <<account, codeVars, adminVars, signedIn, device, pushed, clock, profileVars>>
  BY DEF PauseSteps, assertRequestAllowed, fillPauses, updateSettings, dropPauses, Dropped, PausesBecome, Judged,
         Reads,
         tableVars, deviceVars, settingVars
<1>1. RequestsTyped'
  BY <1>0, MovesAreTyped
<1>2. /\ \A q \in plot.requests : pc'[q] = "new" => pc[q] = "new"
      /\ \A q \in plot.requests : pc[q] = "refused" => pc'[q] = "refused"
      /\ \A q \in plot.requests \ {r} : pc'[q] = pc[q] /\ seen'[q] = seen[q]
  <2>1. {"done", "refused"} \cap ({"new"} \cup PausePlaces) = {} /\ "new" \notin Ended \cup PausePlaces
    BY DEF PausePlaces, Ended
  <2> QED BY <1>0, <2>1, MovesGoOn
<1>3. Elsewhere(CodePlaces) /\ Elsewhere({"rename", "fill", "invalidate"}) /\ Elsewhere(AdminPlaces) /\ Elsewhere(DevicePlaces)
  <2>1. \A P : ({"new"} \cup PausePlaces) \cap P = {} /\ (Ended \cup PausePlaces) \cap P = {} => Elsewhere(P)
    BY <1>0, MovesElsewhere
  <2> QED BY <2>1 DEF Ended, CodePlaces, AdminPlaces, PausePlaces, DevicePlaces
<1>4. CodesTyped' /\ CodesHold_' /\ AdminHolds' /\ Counts'
  <2>1. ForgottenStay
    BY <1>2, PausesMove DEF ForgottenStay
  <2>2. UNCHANGED <<account, codeVars, challenge, adminSession>>
    BY <1>u DEF adminVars
  <2> QED BY <1>2, <1>3, <2>1, <2>2, CodesAndAdminsStay
<1>5. AccountsSound' /\ ProfilesStay
  <2>1. \A u \in Users : Kept(u)
    BY <1>u DEF Kept
  <2> QED BY <1>u, <2>1, KeptAccountsStay DEF profileVars
<1>6. TablesTyped' /\ TerminalsSound'
  <2>1. UNCHANGED <<account, challenge, adminSession, appealing, signedIn, device, clock, picture, suspect, profile, renames>>
    BY <1>u DEF adminVars, profileVars
  <2>2. TablesTyped'
    BY <2>1, SwitchesKeep DEF TablesTyped, There
  <2> QED BY <1>u, <2>2 DEF TerminalsSound
<1>8. ProfilesHold'
  BY <1>u, <1>3, <1>5, ProfilesAreLeftAlone DEF ProfilesHold, profileVars
<1>9. PausesSound'
  BY SwitchesKeep
<1>10. PushesHold'
  BY <1>u, <1>2, <1>3, PushesAreLeftAlone DEF PushesHold
<1> QED BY <1>1, <1>4, <1>5, <1>6, <1>8, <1>9, <1>10 DEF CodesHold_, AdminHolds, ProfilesHold, PushesHold

-------------------------------------------------------------------------------
(* Users *)

LEMMA UsersMove ==
    ASSUME RequestsTyped, TablesTyped, NEW r \in plot.requests, UserActions(r)
    PROVE  /\ Moves(r, {"new"} \cup UserPlaces, Ended \cup UserPlaces)
           /\ pc[r] = "new" => r.op # "forgotPassword"
           /\ r.op = "forgotPassword" => seen'[r].user = seen[r].user
<1> DEFINE F == {"new"} \cup UserPlaces
           T == Ended \cup UserPlaces
<1>0. IsSight(seen[r]) /\ IsSight(NoSight) /\ r.user \in Users
  BY NoSightIsSight, AddressesOfRequests DEF RequestsTyped, Commands
<1>1. pc[r] \in F /\ (pc[r] = "new" => r.op # "forgotPassword")
  BY DEF UserActions, invalidate, readProfile, fillProfile, sanction, readUpdate, rename, readAvatar, readCover,
         setAvatar,
         setProfileCover, readDeactivate, deactivate, Arrives, Stands, At, UserPlaces
<1>2. CASE Done(r) \/ Answered(r) \/ Refused(r)
  BY <1>1, <1>2, EndsMove, Arrivals DEF Ended
<1>3. CASE Place(r, "invalidate") /\ UNCHANGED seen
  <2>1. "invalidate" \in T
    BY DEF UserPlaces
  <2>2. Moves(r, F, T)
    BY <1>1, <1>3, <2>1, PlacesMove
  <2> QED BY <1>1, <1>3, <2>2
<1>4. ASSUME NEW to \in UserPlaces, NEW s, Reads(r, to, s), IsSight(s), pc[r] = "new"
      PROVE  Moves(r, F, T)
  BY <1>1, <1>4, ReadsMove
<1>5. CASE readProfile(r)
  <2>1. CASE Answered(r) \/ Refused(r)
    BY <1>2, <2>1
  <2>2. CASE ~(Answered(r) \/ Refused(r))
    <3>1. Reads(r, "fill", [NoSight EXCEPT !.set = {Profile(r.user)}]) /\ pc[r] = "new" /\ r.op # "forgotPassword"
      BY <1>5, <2>2 DEF readProfile, Arrives
    <3>2. IsSight([NoSight EXCEPT !.set = {Profile(r.user)}])
      BY <1>0, SightsChange, Zenon
    <3> QED BY <1>1, <1>4, <3>1, <3>2, Zenon DEF UserPlaces
  <2> QED BY <2>1, <2>2
<1>6. CASE readUpdate(r)
  <2>1. CASE Refused(r)
    BY <1>2, <2>1
  <2>2. CASE ~Refused(r)
    <3>1. Reads(r, "rename", [NoSight EXCEPT !.name = account[r.user].name]) /\ pc[r] = "new" /\ r.op # "forgotPassword"
      BY <1>6, <2>2 DEF readUpdate, Arrives
    <3>2. account[r.user].name \in Names \cup {Nothing}
      BY <1>0, Zenon DEF TablesTyped, Accounts_
    <3>3. IsSight([NoSight EXCEPT !.name = account[r.user].name])
      BY <1>0, <3>2, SightsChange, Zenon
    <3> QED BY <1>1, <1>4, <3>1, <3>3 DEF UserPlaces
  <2> QED BY <2>1, <2>2
<1>7. CASE readAvatar(r) \/ readCover(r) \/ readDeactivate(r)
  <2>1. CASE Refused(r)
    BY <1>2, <2>1
  <2>2. CASE ~Refused(r)
    <3>1. (\E to \in {"picture", "leave"} : Reads(r, to, NoSight)) /\ pc[r] = "new" /\ r.op # "forgotPassword"
      BY <1>7, <2>2 DEF readAvatar, readCover, readDeactivate, Arrives
    <3> QED BY <1>0, <1>1, <1>4, <3>1 DEF UserPlaces
  <2> QED BY <2>1, <2>2
<1>8. \/ readProfile(r) \/ readUpdate(r) \/ readAvatar(r) \/ readCover(r) \/ readDeactivate(r)
      \/ Done(r) \/ Answered(r) \/ Refused(r) \/ (Place(r, "invalidate") /\ UNCHANGED seen)
  BY DEF UserActions, invalidate, fillProfile, sanction, rename, Renamed, setAvatar, setProfileCover, deactivate,
         AccountWritten
<1> QED BY <1>2, <1>3, <1>5, <1>6, <1>7, <1>8

(* What is left to show of a step that writes an account or its profile. *)
UsersWrite(r) ==
    /\ UNCHANGED <<codeVars, adminVars, deviceVars, picture>>
    /\ signedIn' \subseteq signedIn /\ suspect' \subseteq Users
    /\ profile' = [u \in Users |-> profile'[u]] /\ renames' \in [Users -> Nat]
    /\ account' \in [Users -> Accounts_]
    /\ \A u \in Users :
         /\ account'[u].password = account[u].password /\ account'[u].wrong = account[u].wrong
         /\ account[u].state # "none" => account'[u].state # "none"

LEMMA UserStepsKeepIf ==
    ASSUME IInv, NEW r \in plot.requests, UserActions(r), UsersWrite(r), AccountsSound', ProfilesHold'
    PROVE  IInv'
<1> USE DEF IInv
<1>0. Moves(r, {"new"} \cup UserPlaces, Ended \cup UserPlaces)
  BY UsersMove
<1>1. RequestsTyped'
  BY <1>0, MovesAreTyped
<1>2. /\ \A q \in plot.requests : pc'[q] = "new" => pc[q] = "new"
      /\ \A q \in plot.requests : pc[q] = "refused" => pc'[q] = "refused"
      /\ \A q \in plot.requests \ {r} : pc'[q] = pc[q] /\ seen'[q] = seen[q]
  <2>1. {"done", "refused"} \cap ({"new"} \cup UserPlaces) = {} /\ "new" \notin Ended \cup UserPlaces
    BY DEF UserPlaces, Ended
  <2> QED BY <1>0, <2>1, MovesGoOn
<1>3. Elsewhere(CodePlaces) /\ Elsewhere(AdminPlaces) /\ Elsewhere(PausePlaces) /\ Elsewhere(DevicePlaces)
  <2>1. \A P : ({"new"} \cup UserPlaces) \cap P = {} /\ (Ended \cup UserPlaces) \cap P = {} => Elsewhere(P)
    BY <1>0, MovesElsewhere
  <2> QED BY <2>1 DEF Ended, CodePlaces, AdminPlaces, PausePlaces, DevicePlaces, UserPlaces
<1>4. CodesTyped' /\ CodesHold_' /\ AdminHolds' /\ Counts'
  <2>1. ForgottenStay
    BY <1>2, UsersMove DEF ForgottenStay
  <2>2. UNCHANGED <<codeVars, challenge, adminSession>>
    BY DEF UsersWrite, adminVars
  <2> QED BY <1>2, <1>3, <2>1, <2>2, CodesAndAdminsStay DEF UsersWrite
<1>5. UNCHANGED <<challenge, adminSession, appealing, device, pushed, settings, pauses, clock, behind, picture>>
  BY DEF UsersWrite, adminVars, deviceVars, settingVars
<1>6. TablesTyped' /\ TerminalsSound'
  BY <1>5 DEF UsersWrite, TablesTyped, There, TerminalsSound
<1>7. PausesSound'
  BY <1>3, <1>5, PausesAreLeftAlone
<1>8. PushesHold'
  BY <1>2, <1>3, <1>5, PushesAreLeftAlone DEF PushesHold, UsersWrite
<1> QED BY <1>1, <1>4, <1>6, <1>7, <1>8 DEF CodesHold_, AdminHolds, ProfilesHold, PushesHold

(* What may become of the account of u. *)
Follows(base, row) ==
    /\ row \in Accounts_ /\ row.password = base.password /\ row.wrong = base.wrong
    /\ base.state # "none" => row.state # "none"
    /\ row.state = "live" => row.email \in Emails
    /\ row.state = "none" => row.wrong = 0 /\ ~row.renamed
    /\ PicturesOf(row) \subseteq There

(* Whoever writes an account is about to drop the profile, and has told  *)
(* those who are reading it.                                             *)
LEMMA AccountsWrittenKeep ==
    ASSUME IInv, NEW r \in plot.requests, UserActions(r), NEW row, AccountWritten(r, row), Follows(account[r.user], row),
           pc[r] \notin {"fill", "invalidate"},
           renames' \in [Users -> Nat], renames'[r.user] = IF row.renamed THEN 1 ELSE 0,
           \A u \in Users \ {r.user} : renames'[u] = renames[u],
           signedIn' \subseteq signedIn
    PROVE  IInv'
<1> USE DEF IInv, Follows
<1>0. r.user \in Users /\ \A q \in plot.requests : q.user \in Users
  BY AddressesOfRequests DEF Commands
<1>1. /\ account' = [account EXCEPT ![r.user] = row] /\ plot' = plot
      /\ suspect \subseteq suspect' /\ suspect' \subseteq suspect \cup {r.user}
      /\ (\E q \in plot.requests : q.user = r.user /\ pc[q] = "fill") => r.user \in suspect'
      /\ UNCHANGED <<seen, codeVars, adminVars, deviceVars, picture, profile>>
  BY DEF AccountWritten, ProfileChanges, Filling, Place
<1>2. account' \in [Users -> Accounts_] /\ account'[r.user] = row /\ \A u \in Users \ {r.user} : account'[u] = account[u]
  BY <1>0, <1>1 DEF TablesTyped
<1>3. pc'[r] = "invalidate" /\ \A q \in plot.requests \ {r} : pc'[q] = pc[q]
  BY DEF AccountWritten, Place, RequestsTyped
<1>4. UsersWrite(r)
  <2>1. suspect' \subseteq Users /\ profile' = [u \in Users |-> profile'[u]]
    BY <1>0, <1>1 DEF TablesTyped
  <2>2. \A u \in Users :
          /\ account'[u].password = account[u].password /\ account'[u].wrong = account[u].wrong
          /\ account[u].state # "none" => account'[u].state # "none"
    BY <1>2
  <2> QED BY <1>1, <1>2, <2>1, <2>2 DEF UsersWrite
<1>5. AccountsSound'
  <2>1. ASSUME NEW u \in Users
        PROVE  /\ account'[u].state = "live" => account'[u].email \in Emails
               /\ account'[u].state = "none" => account'[u].wrong = 0
               /\ PicturesOf(account[u])' \subseteq There'
    <3>0. There' = There
      BY <1>1 DEF There
    <3>1. CASE u = r.user
      <4>1. PicturesOf(account[u])' = PicturesOf(row)
        BY <1>2, <3>1 DEF PicturesOf
      <4> QED BY <1>2, <3>0, <3>1, <4>1
    <3>2. CASE u # r.user
      <4>1. account'[u] = account[u] /\ PicturesOf(account[u])' = PicturesOf(account[u])
        BY <1>2, <3>2 DEF PicturesOf
      <4> QED BY <3>0, <4>1 DEF AccountsSound
    <3> QED BY <3>1, <3>2
  <2> QED BY <2>1 DEF AccountsSound
<1>6. RenamesSound'
  <2>1. \A u \in Users : /\ renames'[u] = IF account'[u].renamed THEN 1 ELSE 0
                         /\ account'[u].state = "none" => ~account'[u].renamed
    BY <1>2 DEF RenamesSound
  <2>2. \A q \in plot.requests : pc'[q] = "rename" => account'[q.user].state # "none"
    BY <1>0, <1>2, <1>3 DEF RenamesSound
  <2> QED BY <1>1, <2>1, <2>2 DEF RenamesSound
<1>7. \A u \in Users \ {r.user} : Profile(u)' = Profile(u)
  BY <1>2 DEF Profile
<1>8. ProfilesSound'
  <2>1. ASSUME NEW q \in plot.requests, pc'[q] = "fill"
        PROVE  account'[q.user].state # "none" /\ (q.user \in suspect' \/ seen'[q].set = {Profile(q.user)'})
    <3>1. pc[q] = "fill" /\ seen'[q] = seen[q]
      BY <1>1, <1>3, <2>1
    <3>2. account[q.user].state # "none" /\ (q.user \in suspect \/ seen[q].set = {Profile(q.user)})
      BY <3>1 DEF ProfilesSound
    <3>3. account'[q.user].state # "none"
      BY <1>0, <1>2, <3>2
    <3>4. CASE q.user = r.user
      BY <1>1, <3>1, <3>3, <3>4
    <3>5. CASE q.user # r.user
      <4>1. Profile(q.user)' = Profile(q.user)
        BY <1>0, <1>7, <3>5
      <4> QED BY <1>1, <3>1, <3>2, <3>3, <4>1
    <3> QED BY <3>4, <3>5
  <2>2. ASSUME NEW u \in Users, profile'[u].full
        PROVE  account'[u].state # "none" /\ (u \in suspect' \/ Dropping(u)' \/ profile'[u].shows = Profile(u)')
    <3>1. account[u].state # "none" /\ (u \in suspect \/ Dropping(u) \/ profile[u].shows = Profile(u))
      BY <1>1, <2>2 DEF ProfilesSound
    <3>2. account'[u].state # "none"
      BY <1>2, <3>1
    <3>3. CASE u = r.user
      BY <1>1, <1>3, <3>2, <3>3 DEF Dropping
    <3>4. CASE u # r.user
      <4>1. Dropping(u) => Dropping(u)'
        BY <1>1, <1>3 DEF Dropping
      <4> QED BY <1>1, <1>7, <3>1, <3>2, <3>4, <4>1
    <3> QED BY <3>3, <3>4
  <2> QED BY <1>1, <2>1, <2>2 DEF ProfilesSound
<1> QED BY <1>4, <1>5, <1>6, <1>8, UserStepsKeepIf DEF ProfilesHold

(* Of an account that is written, everything else stays. *)
Unmoved(row, base) ==
    /\ row \in Accounts_ /\ row.password = base.password /\ row.wrong = base.wrong
    /\ row.state = base.state /\ row.email = base.email

LEMMA SanctionedRows ==
    ASSUME NEW base \in Accounts_, NEW row, row = [base EXCEPT !.sanctioned = TRUE]
    PROVE  Unmoved(row, base) /\ row.renamed = base.renamed /\ PicturesOf(row) = PicturesOf(base)
  BY DEF Accounts_, PicturesOf, Unmoved

LEMMA RenamedRows ==
    ASSUME NEW base \in Accounts_, NEW row, NEW name \in Names \cup {Nothing}, NEW b \in BOOLEAN,
           row = [base EXCEPT !.name = name, !.renamed = b]
    PROVE  Unmoved(row, base) /\ row.renamed = b /\ PicturesOf(row) = PicturesOf(base)
<1>1. PICK mid : mid = [base EXCEPT !.name = name]
  OBVIOUS
<1>2. Unmoved(mid, base) /\ PicturesOf(mid) = PicturesOf(base)
  BY <1>1 DEF Accounts_, PicturesOf, Unmoved
<1>3. row = [mid EXCEPT !.renamed = b]
  BY <1>1 DEF Accounts_
<1>4. mid \in Accounts_
  BY <1>2 DEF Unmoved
<1>5. Unmoved(row, mid) /\ row.renamed = b /\ PicturesOf(row) = PicturesOf(mid)
  <2>1. row \in Accounts_ /\ row.renamed = b
    BY <1>3, <1>4 DEF Accounts_
  <2>2. /\ row.password = mid.password /\ row.wrong = mid.wrong /\ row.state = mid.state /\ row.email = mid.email
        /\ row.avatar = mid.avatar /\ row.cover = mid.cover /\ row.mobile = mid.mobile
    BY <1>3, <1>4 DEF Accounts_
  <2> QED BY <2>1, <2>2 DEF PicturesOf, Unmoved
<1> QED BY <1>2, <1>5 DEF Unmoved

LEMMA AvatarRows ==
    ASSUME NEW base \in Accounts_, NEW row, NEW m \in Media \cup {Nothing}, row = [base EXCEPT !.avatar = m]
    PROVE  /\ Unmoved(row, base) /\ row.renamed = base.renamed
           /\ PicturesOf(row) \subseteq PicturesOf(base) \cup ({m} \ {Nothing})
  BY DEF Accounts_, PicturesOf, Unmoved

LEMMA UserStepsKeep ==
    ASSUME IInv, NEW r \in plot.requests, UserActions(r)
    PROVE  IInv'
<1> USE DEF IInv
<1>0. /\ r \in Commands /\ r.user \in Users /\ account[r.user] \in Accounts_
      /\ r.name \in Names \cup {Nothing} /\ r.media \in Media \cup {Nothing} /\ r.other \in Media \cup {Nothing}
      /\ Nothing \in Names \cup {Nothing} /\ Nothing \in Media \cup {Nothing}
      /\ \A q \in plot.requests : q.user \in Users
  BY AddressesOfRequests DEF Commands, TablesTyped
<1>m. plot' = plot /\ \A q \in plot.requests \ {r} : pc'[q] = pc[q] /\ seen'[q] = seen[q]
  <2>1. Moves(r, {"new"} \cup UserPlaces, Ended \cup UserPlaces)
    BY UsersMove
  <2>2. {"done", "refused"} \cap ({"new"} \cup UserPlaces) = {}
    BY DEF UserPlaces
  <2> QED BY <2>1, <2>2, MovesGoOn
<1>a. /\ account[r.user].state = "live" => account[r.user].email \in Emails
      /\ account[r.user].state = "none" => account[r.user].wrong = 0 /\ ~account[r.user].renamed
      /\ PicturesOf(account[r.user]) \subseteq There
      /\ renames \in [Users -> Nat] /\ renames[r.user] = IF account[r.user].renamed THEN 1 ELSE 0
  BY <1>0 DEF AccountsSound, RenamesSound, TablesTyped
<1>b. PICK base : base = account[r.user]
  OBVIOUS
<1>t. base \in Accounts_
  BY <1>0, <1>b
<1>f. \A row : Unmoved(row, base) /\ row.renamed = base.renamed /\ PicturesOf(row) \subseteq There => Follows(base, row)
  BY <1>a, <1>b DEF Unmoved, Follows
<1>w. ASSUME UNCHANGED <<account, signedIn, renames, codeVars, adminVars, deviceVars, picture>>,
             suspect' \subseteq Users, profile' = [u \in Users |-> profile'[u]]
      PROVE  UsersWrite(r) /\ AccountsSound'
  <2>1. There' = There
    BY <1>w DEF There
  <2>2. AccountsSound'
    BY <1>w, <2>1 DEF AccountsSound
  <2>3. UsersWrite(r)
    BY <1>w DEF UsersWrite, TablesTyped
  <2> QED BY <2>2, <2>3
<1>r. ASSUME UNCHANGED tableVars, pc[r] # "invalidate",
             pc'[r] = "fill" => account[r.user].state # "none" /\ seen'[r].set = {Profile(r.user)},
             pc'[r] = "rename" => account[r.user].state # "none"
      PROVE  IInv'
  <2>1. UNCHANGED <<account, signedIn, profile, suspect, renames, codeVars, adminVars, deviceVars, picture>>
    BY <1>r DEF tableVars, profileVars
  <2>2. \A u \in Users : Profile(u)' = Profile(u) /\ (Dropping(u) => Dropping(u)')
    BY <1>m, <1>r, <2>1 DEF Profile, Dropping
  <2>3. RenamesSound'
    BY <1>0, <1>m, <1>r, <2>1 DEF RenamesSound
  <2>4. ASSUME NEW q \in plot.requests, pc'[q] = "fill"
        PROVE  account'[q.user].state # "none" /\ (q.user \in suspect' \/ seen'[q].set = {Profile(q.user)'})
    BY <1>0, <1>m, <1>r, <2>1, <2>2, <2>4 DEF ProfilesSound
  <2>5. \A u \in Users : profile'[u].full =>
          account'[u].state # "none" /\ (u \in suspect' \/ Dropping(u)' \/ profile'[u].shows = Profile(u)')
    BY <2>1, <2>2 DEF ProfilesSound
  <2>6. ProfilesHold'
    BY <1>m, <2>3, <2>4, <2>5 DEF ProfilesHold, ProfilesSound
  <2>7. suspect' \subseteq Users /\ profile' = [u \in Users |-> profile'[u]]
    BY <2>1 DEF TablesTyped
  <2> QED BY <1>w, <2>1, <2>6, <2>7, UserStepsKeepIf
<1>e. ASSUME Answered(r) \/ Refused(r), pc[r] # "invalidate"
      PROVE  IInv'
  <2>1. UNCHANGED tableVars /\ pc'[r] \in Ended
    BY <1>e, Arrivals DEF Answered, Refused, Ended
  <2> QED BY <1>e, <1>r, <2>1 DEF Ended
<1>v. ASSUME NEW new, profile' = [profile EXCEPT ![r.user] = new], pc'[r] = "done",
             UNCHANGED <<account, codeVars, adminVars, signedIn, deviceVars, picture, renames>>,
             suspect' \subseteq Users, suspect \ {r.user} \subseteq suspect',
             \A q \in plot.requests : q.user = r.user /\ pc'[q] = "fill" /\ r.user \in suspect => r.user \in suspect',
             new.full => account[r.user].state # "none" /\ (r.user \in suspect' \/ new.shows = Profile(r.user))
      PROVE  IInv'
  <2>1. /\ profile' = [u \in Users |-> profile'[u]] /\ profile'[r.user] = new
        /\ \A u \in Users \ {r.user} : profile'[u] = profile[u]
    BY <1>0, <1>v DEF TablesTyped
  <2>2. \A u \in Users : Profile(u)' = Profile(u) /\ (u # r.user /\ Dropping(u) => Dropping(u)')
    BY <1>m, <1>v DEF Profile, Dropping
  <2>3. RenamesSound'
    BY <1>0, <1>m, <1>v DEF RenamesSound
  <2>4. ASSUME NEW q \in plot.requests, pc'[q] = "fill"
        PROVE  account'[q.user].state # "none" /\ (q.user \in suspect' \/ seen'[q].set = {Profile(q.user)'})
    BY <1>0, <1>m, <1>v, <2>2, <2>4 DEF ProfilesSound
  <2>5. ASSUME NEW u \in Users, profile'[u].full
        PROVE  account'[u].state # "none" /\ (u \in suspect' \/ Dropping(u)' \/ profile'[u].shows = Profile(u)')
    <3>1. CASE u = r.user
      BY <1>v, <2>1, <2>2, <2>5, <3>1
    <3>2. CASE u # r.user
      BY <1>v, <2>1, <2>2, <2>5, <3>2 DEF ProfilesSound
    <3> QED BY <3>1, <3>2
  <2>6. ProfilesHold'
    BY <1>m, <2>3, <2>4, <2>5 DEF ProfilesHold, ProfilesSound
  <2> QED BY <1>v, <1>w, <2>1, <2>6, UserStepsKeepIf
<1>1. CASE invalidate(r)
  <2>0. suspect \subseteq Users /\ pc'[r] = "done"
    BY <1>1, Arrivals DEF invalidate, TablesTyped
  <2>1. UNCHANGED <<account, codeVars, adminVars, signedIn, deviceVars, picture, renames>>
    BY <1>1 DEF invalidate
  <2>2. CASE ProfileGoes(r.user)
    <3>1. profile' = [profile EXCEPT ![r.user] = NoProfile] /\ ~NoProfile.full
      BY <2>2 DEF ProfileGoes, NoProfile
    <3>2. suspect' = IF Filling(r.user) THEN suspect ELSE suspect \ {r.user}
      BY <2>2 DEF ProfileGoes
    <3>3. \A q \in plot.requests : q.user = r.user /\ pc'[q] = "fill" => Filling(r.user)
      BY <1>m, <2>0 DEF Filling
    <3>4. /\ suspect' \subseteq Users /\ suspect \ {r.user} \subseteq suspect'
          /\ Filling(r.user) => suspect' = suspect
      BY <2>0, <3>2
    <3> QED BY <1>v, <2>0, <2>1, <3>1, <3>3, <3>4
  <2>3. CASE UNCHANGED profile /\ suspect' = IF profile[r.user].full THEN suspect \cup {r.user} ELSE suspect
    <3>1. PICK new : new = profile[r.user]
      OBVIOUS
    <3>2. profile' = [profile EXCEPT ![r.user] = new]
      BY <1>0, <2>3, <3>1 DEF TablesTyped
    <3>3. /\ suspect' \subseteq Users /\ suspect \subseteq suspect'
          /\ new.full => r.user \in suspect'
      BY <1>0, <2>0, <2>3, <3>1
    <3>4. new.full => account[r.user].state # "none"
      BY <1>0, <3>1 DEF ProfilesSound
    <3> QED BY <1>v, <2>0, <2>1, <3>2, <3>3, <3>4
  <2> QED BY <1>1, <2>2, <2>3 DEF invalidate
<1>2. CASE readProfile(r)
  <2>0. pc[r] = "new"
    BY <1>2 DEF readProfile, Arrives
  <2>1. CASE Answered(r) \/ Refused(r)
    BY <1>e, <2>0, <2>1
  <2>2. CASE ~(Answered(r) \/ Refused(r))
    <3>1. Reads(r, "fill", [NoSight EXCEPT !.set = {Profile(r.user)}]) /\ account[r.user].state # "none"
      BY <1>2, <2>2 DEF readProfile
    <3>2. pc'[r] = "fill" /\ seen'[r] = [NoSight EXCEPT !.set = {Profile(r.user)}] /\ UNCHANGED tableVars
      BY <3>1, Arrivals DEF Reads
    <3>3. seen'[r].set = {Profile(r.user)}
      BY <3>2 DEF NoSight
    <3> QED BY <1>r, <2>0, <3>1, <3>2, <3>3
  <2> QED BY <2>1, <2>2
<1>3. CASE fillProfile(r)
  <2>0. pc[r] = "fill"
    BY <1>3 DEF fillProfile, Stands
  <2>1. account[r.user].state # "none" /\ (r.user \in suspect \/ seen[r].set = {Profile(r.user)})
    BY <2>0 DEF ProfilesSound
  <2>2. seen[r].set = {Profile(r.user)} => Only(seen[r].set) = Profile(r.user)
    BY Chosen
  <2>3. PICK new : new = [full |-> TRUE, shows |-> Only(seen[r].set)]
    OBVIOUS
  <2>4. pc'[r] = "done" /\ new.shows = Only(seen[r].set) /\ suspect \subseteq Users
    BY <1>3, <2>3, Arrivals DEF fillProfile, TablesTyped
  <2>5. UNCHANGED <<account, codeVars, adminVars, signedIn, deviceVars, picture, suspect, renames>>
    BY <1>3 DEF fillProfile
  <2>6. CASE profile' = [profile EXCEPT ![r.user] = new]
    BY <1>v, <2>1, <2>2, <2>4, <2>5, <2>6
  <2>7. CASE UNCHANGED profile
    <3>1. UNCHANGED tableVars
      BY <2>5, <2>7 DEF tableVars, profileVars
    <3> QED BY <1>r, <2>0, <2>4, <3>1
  <2> QED BY <1>3, <2>3, <2>6, <2>7 DEF fillProfile
<1>4. CASE sanction(r)
  <2>0. PICK row : row = [base EXCEPT !.sanctioned = TRUE]
    OBVIOUS
  <2>1. AccountWritten(r, row) /\ pc[r] = "new" /\ renames' = renames /\ signedIn' \subseteq signedIn
    BY <1>4, <1>b, <2>0 DEF sanction, Arrives
  <2>2. Unmoved(row, base) /\ PicturesOf(row) = PicturesOf(base) /\ row.renamed = base.renamed
    BY <1>t, <2>0, SanctionedRows
  <2>3. Follows(account[r.user], row)
    BY <1>a, <1>b, <1>f, <2>2
  <2>4. renames' \in [Users -> Nat] /\ renames'[r.user] = IF row.renamed THEN 1 ELSE 0
    BY <1>a, <1>b, <2>1, <2>2
  <2> QED BY <2>1, <2>3, <2>4, AccountsWrittenKeep
<1>5. CASE readUpdate(r)
  <2>0. pc[r] = "new"
    BY <1>5 DEF readUpdate, Arrives
  <2>1. CASE Refused(r)
    BY <1>e, <2>0, <2>1
  <2>2. CASE ~Refused(r)
    <3>1. Reads(r, "rename", [NoSight EXCEPT !.name = account[r.user].name]) /\ account[r.user].state # "none"
      BY <1>5, <2>2 DEF readUpdate
    <3>2. pc'[r] = "rename" /\ UNCHANGED tableVars
      BY <3>1, Arrivals DEF Reads
    <3> QED BY <1>r, <2>0, <3>1, <3>2
  <2> QED BY <2>1, <2>2
<1>6. CASE rename(r)
  <2>0. pc[r] = "rename"
    BY <1>6 DEF rename, At
  <2>1. CASE Refused(r)
    BY <1>e, <2>0, <2>1
  <2>2. CASE ~Refused(r)
    <3>0. PICK changing, b, row : /\ changing = (r.name # base.name)
                                  /\ b = (base.renamed \/ changing)
                                  /\ row = [base EXCEPT !.name = r.name, !.renamed = b]
      OBVIOUS
    <3>1. Renamed(r, changing) /\ ~(changing /\ base.renamed)
      BY <1>6, <1>b, <2>2, <3>0 DEF rename
    <3>2. AccountWritten(r, row) /\ signedIn' = signedIn
      <4>1. row = [account[r.user] EXCEPT !.name = r.name, !.renamed = @ \/ changing]
        BY <1>0, <1>b, <3>0 DEF Accounts_
      <4> QED BY <3>1, <4>1 DEF Renamed
    <3>3. PICK n : n = IF base.name = r.name THEN renames[r.user] ELSE renames[r.user] + 1
      OBVIOUS
    <3>4. renames' = [renames EXCEPT ![r.user] = n] /\ n \in Nat
      BY <1>0, <1>a, <1>b, <3>1, <3>3 DEF Renamed
    <3>5. base.renamed \in BOOLEAN /\ b \in BOOLEAN
      BY <1>0, <1>b, <3>0 DEF Accounts_
    <3>6. Unmoved(row, base) /\ PicturesOf(row) = PicturesOf(base) /\ row.renamed = b
      <4>1. r.name \in Names \cup {Nothing} /\ b \in BOOLEAN /\ row = [base EXCEPT !.name = r.name, !.renamed = b]
        BY <1>0, <3>0, <3>5
      <4> QED BY <1>t, <4>1, RenamedRows
    <3>7. base.state # "none"
      BY <1>b, <2>0 DEF RenamesSound
    <3>8. /\ renames' \in [Users -> Nat] /\ \A u \in Users \ {r.user} : renames'[u] = renames[u]
          /\ renames'[r.user] = n
      BY <1>0, <1>a, <3>4
    <3>9. n = IF b THEN 1 ELSE 0
      <4>0. renames[r.user] = IF base.renamed THEN 1 ELSE 0
        BY <1>a, <1>b
      <4>1. CASE base.name = r.name
        <5>1. n = renames[r.user] /\ (b <=> base.renamed)
          BY <3>0, <3>3, <3>5, <4>1
        <5> QED BY <3>5, <4>0, <5>1
      <4>2. CASE base.name # r.name
        <5>1. ~base.renamed
          BY <3>0, <3>1, <4>2
        <5>2. b
          BY <3>0, <3>5, <4>2
        <5> QED BY <3>3, <4>0, <4>2, <5>1, <5>2
      <4> QED BY <4>1, <4>2
    <3>10. Follows(account[r.user], row)
      BY <1>a, <1>b, <3>6, <3>7 DEF Unmoved, Follows
    <3>11. renames'[r.user] = IF row.renamed THEN 1 ELSE 0
      BY <3>6, <3>8, <3>9
    <3>12. signedIn' \subseteq signedIn /\ pc[r] \notin {"fill", "invalidate"}
      BY <2>0, <3>2
    <3> QED BY <3>2, <3>8, <3>10, <3>11, <3>12, AccountsWrittenKeep
  <2> QED BY <2>1, <2>2
<1>7. CASE readAvatar(r)
  <2>0. pc[r] = "new"
    BY <1>7 DEF readAvatar, Arrives
  <2>1. CASE Refused(r)
    BY <1>e, <2>0, <2>1
  <2>2. CASE ~Refused(r)
    <3>1. \E to \in {"picture", "leave"} : Reads(r, to, NoSight)
      BY <1>7, <2>2 DEF readAvatar
    <3>2. pc'[r] \in {"picture", "leave"} /\ UNCHANGED tableVars
      BY <3>1, Arrivals DEF Reads
    <3> QED BY <1>r, <2>0, <3>2
  <2> QED BY <2>1, <2>2
<1>8. CASE readCover(r)
  <2>0. pc[r] = "new"
    BY <1>8 DEF readCover, Arrives
  <2>1. CASE Refused(r)
    BY <1>e, <2>0, <2>1
  <2>2. CASE ~Refused(r)
    <3>1. \E to \in {"picture", "leave"} : Reads(r, to, NoSight)
      BY <1>8, <2>2 DEF readCover
    <3>2. pc'[r] \in {"picture", "leave"} /\ UNCHANGED tableVars
      BY <3>1, Arrivals DEF Reads
    <3> QED BY <1>r, <2>0, <3>2
  <2> QED BY <2>1, <2>2
<1>9. CASE readDeactivate(r)
  <2>0. pc[r] = "new"
    BY <1>9 DEF readDeactivate, Arrives
  <2>1. CASE Refused(r)
    BY <1>e, <2>0, <2>1
  <2>2. CASE ~Refused(r)
    <3>1. \E to \in {"picture", "leave"} : Reads(r, to, NoSight)
      BY <1>9, <2>2 DEF readDeactivate
    <3>2. pc'[r] \in {"picture", "leave"} /\ UNCHANGED tableVars
      BY <3>1, Arrivals DEF Reads
    <3> QED BY <1>r, <2>0, <3>2
  <2> QED BY <2>1, <2>2
<1>10. CASE setAvatar(r)
  <2>0. pc[r] = "picture"
    BY <1>10 DEF setAvatar, At
  <2>1. CASE Refused(r)
    BY <1>e, <2>0, <2>1
  <2>2. CASE ~Refused(r)
    <3>0. PICK row : row = [base EXCEPT !.avatar = r.media]
      OBVIOUS
    <3>1. AccountWritten(r, row) /\ ~Gone(r) /\ renames' = renames /\ signedIn' = signedIn
      BY <1>10, <1>b, <2>2, <3>0 DEF setAvatar
    <3>2. r.media \in Media \cup {Nothing} /\ {r.media, r.media} \ {Nothing} \subseteq There
      BY <1>0, <3>0, <3>1 DEF Gone
    <3>3. /\ Unmoved(row, base) /\ row.renamed = base.renamed
          /\ PicturesOf(row) \subseteq PicturesOf(base) \cup ({r.media} \ {Nothing})
      BY <1>0, <1>t, <3>0, <3>2, AvatarRows
    <3>4. PicturesOf(row) \subseteq There
      BY <1>a, <1>b, <3>2, <3>3
    <3>5. Follows(account[r.user], row)
      BY <1>b, <1>f, <3>3, <3>4
    <3>6. signedIn' \subseteq signedIn /\ pc[r] \notin {"fill", "invalidate"}
      BY <2>0, <3>1
    <3>7. /\ renames' \in [Users -> Nat] /\ \A u \in Users \ {r.user} : renames'[u] = renames[u]
          /\ renames'[r.user] = IF row.renamed THEN 1 ELSE 0
      BY <1>a, <1>b, <3>1, <3>3
    <3> QED BY <3>1, <3>5, <3>6, <3>7, AccountsWrittenKeep
  <2> QED BY <2>1, <2>2
<1>11. CASE setProfileCover(r)
  <2>0. pc[r] = "picture"
    BY <1>11 DEF setProfileCover, At
  <2>1. CASE Refused(r)
    BY <1>e, <2>0, <2>1
  <2>2. CASE ~Refused(r)
    <3>a. PICK o : o = IF r.media = Nothing THEN Nothing ELSE r.other
      OBVIOUS
    <3>b. PICK row : row = [base EXCEPT !.cover = r.media, !.mobile = o]
      OBVIOUS
    <3>0. /\ o = (IF r.media = Nothing THEN Nothing ELSE r.other)
          /\ row = [base EXCEPT !.cover = r.media, !.mobile = o]
      BY <3>a, <3>b
    <3>1. AccountWritten(r, row) /\ ~Gone(r) /\ renames' = renames /\ signedIn' = signedIn
      BY <1>11, <1>b, <2>2, <3>0 DEF setProfileCover
    <3>2. o \in Media \cup {Nothing} /\ {r.media, o} \ {Nothing} \subseteq There
      BY <1>0, <3>0, <3>1 DEF Gone
    <3>3. /\ Unmoved(row, base) /\ row.renamed = base.renamed
          /\ PicturesOf(row) \subseteq PicturesOf(base) \cup ({r.media, o} \ {Nothing})
      <4>1. PICK m, mid : m = r.media /\ mid = [base EXCEPT !.cover = m]
        OBVIOUS
      <4>2. row = [mid EXCEPT !.mobile = o]
        BY <1>t, <3>0, <4>1 DEF Accounts_
      <4>3. m \in Media \cup {Nothing}
        BY <1>0, <4>1
      <4>4. Unmoved(mid, base) /\ mid.renamed = base.renamed /\ PicturesOf(mid) \subseteq PicturesOf(base) \cup ({m} \ {Nothing})
        BY <1>t, <4>1, <4>3 DEF Accounts_, PicturesOf, Unmoved
      <4>5. mid \in Accounts_
        BY <4>4 DEF Unmoved
      <4>6. Unmoved(row, mid) /\ row.renamed = mid.renamed /\ PicturesOf(row) \subseteq PicturesOf(mid) \cup ({o} \ {Nothing})
        BY <3>2, <4>2, <4>5 DEF Accounts_, PicturesOf, Unmoved
      <4> QED BY <4>1, <4>4, <4>6 DEF Unmoved
    <3>4. PicturesOf(row) \subseteq There
      BY <1>a, <1>b, <3>2, <3>3
    <3>5. Follows(account[r.user], row)
      BY <1>b, <1>f, <3>3, <3>4
    <3>6. signedIn' \subseteq signedIn /\ pc[r] \notin {"fill", "invalidate"}
      BY <2>0, <3>1
    <3>7. /\ renames' \in [Users -> Nat] /\ \A u \in Users \ {r.user} : renames'[u] = renames[u]
          /\ renames'[r.user] = IF row.renamed THEN 1 ELSE 0
      BY <1>a, <1>b, <3>1, <3>3
    <3> QED BY <3>1, <3>5, <3>6, <3>7, AccountsWrittenKeep
  <2> QED BY <2>1, <2>2
<1>12. CASE deactivate(r)
  <2>0. PICK row : row = [base EXCEPT !.state = "deleted", !.name = Nothing, !.email = Nothing,
                          !.avatar = Nothing, !.cover = Nothing, !.mobile = Nothing]
    OBVIOUS
  <2>1. AccountWritten(r, row) /\ pc[r] = "leave" /\ renames' = renames /\ signedIn' \subseteq signedIn
    BY <1>12, <1>b, <2>0 DEF deactivate, At
  <2>2. /\ row \in Accounts_ /\ row.password = base.password /\ row.wrong = base.wrong
        /\ row.state = "deleted" /\ row.renamed = base.renamed
        /\ PicturesOf(row) = {}
    <3>1. row = [state |-> "deleted", email |-> Nothing, name |-> Nothing, password |-> base.password,
                 role |-> base.role, wrong |-> base.wrong, locked |-> base.locked,
                 sanctioned |-> base.sanctioned, renamed |-> base.renamed, avatar |-> Nothing,
                 cover |-> Nothing, mobile |-> Nothing]
      BY <1>0, <1>b, <2>0 DEF Accounts_
    <3>2. /\ base.password \in Nat /\ base.role \in {"USER", "ADMIN"}
          /\ base.wrong \in Nat /\ base.locked \in BOOLEAN
          /\ base.sanctioned \in BOOLEAN /\ base.renamed \in BOOLEAN
      BY <1>0, <1>b DEF Accounts_
    <3> QED BY <3>1, <3>2 DEF Accounts_, PicturesOf
  <2>3. Follows(account[r.user], row)
    BY <1>a, <1>b, <2>2 DEF Follows
  <2>4. renames' \in [Users -> Nat] /\ renames'[r.user] = IF row.renamed THEN 1 ELSE 0
    BY <1>a, <1>b, <2>1, <2>2
  <2> QED BY <2>1, <2>3, <2>4, AccountsWrittenKeep
<1> QED BY <1>1, <1>2, <1>3, <1>4, <1>5, <1>6, <1>7, <1>8, <1>9, <1>10, <1>11, <1>12 DEF UserActions

-------------------------------------------------------------------------------
(* Devices *)

LEMMA DevicesMove ==
    ASSUME IInv, NEW r \in plot.requests, DeviceActions(r)
    PROVE  /\ Moves(r, {"new"} \cup DevicePlaces, {"new"} \cup Ended \cup DevicePlaces)
           /\ r.op # "forgotPassword"  \/ (pc[r] # "new" /\ pc'[r] # "new" /\ seen'[r] = seen[r])
           /\ r.op = "login" => pc'[r] # "new"
<1> USE DEF IInv
<1> DEFINE F == {"new"} \cup DevicePlaces
           T == {"new"} \cup Ended \cup DevicePlaces
           Fine == Moves(r, F, T) /\ (r.op # "forgotPassword" \/ (pc[r] # "new" /\ pc'[r] # "new" /\ seen'[r] = seen[r]))
                   /\ (r.op = "login" => pc'[r] # "new")
<1>0. IsSight(seen[r]) /\ IsSight(NoSight) /\ r.user \in Users
  BY NoSightIsSight, AddressesOfRequests DEF RequestsTyped, Commands
<1>1. pc[r] \in F /\ (pc[r] = "new" => r.op # "forgotPassword")
  BY DEF DeviceActions, readTerminal, register, Registers, unregister, readDevice, checkTerminal, push, disable, readDevices,
         sweep,
         login, logout, Arrives, Stands, At, DevicePlaces
<1>2. CASE Done(r) \/ Answered(r) \/ Ends(r) \/ Refused(r)
  <2>1. {"done", "refused"} \subseteq T
    BY DEF Ended
  <2>2. Moves(r, F, T)
    BY <1>1, <1>2, <2>1, EndsMove
  <2>3. pc'[r] # "new" /\ seen'[r] = seen[r]
    BY <1>2, Arrivals
  <2> QED BY <1>1, <2>2, <2>3
<1>3. CASE checkTerminal(r)
  <2>1. PICK to \in {"push", "disable"} : Reads(r, to, seen[r])
    BY <1>3 DEF checkTerminal
  <2>2. Moves(r, F, T) /\ pc'[r] = to /\ seen'[r] = seen[r]
    BY <1>0, <1>1, <2>1, ReadsMove, Arrivals DEF DevicePlaces
  <2> QED BY <1>1, <2>2
<1>4. CASE Place(r, "disable") /\ UNCHANGED seen
  <2>1. Moves(r, F, T) /\ pc'[r] = "disable" /\ seen'[r] = seen[r]
    BY <1>1, <1>4, PlacesMove, Arrivals DEF DevicePlaces
  <2> QED BY <1>1, <2>1
<1>5. CASE Retries(r) /\ (push(r) \/ disable(r))
  <2>1. CASE Ends(r)
    BY <1>2, <2>1
  <2>2. CASE Goes(r, "new", [seen[r] EXCEPT !.n = @ + 1])
    <3>1. seen[r].n + 1 \in Nat
      BY <1>0 DEF IsSight
    <3>2. PICK n \in Nat : n = seen[r].n + 1
      BY <3>1
    <3>3. [seen[r] EXCEPT !.n = @ + 1] = [seen[r] EXCEPT !.n = n]
      BY <3>2, Zenon
    <3>4. IsSight([seen[r] EXCEPT !.n = n])
      BY <1>0, SightsChange, Zenon
    <3>5. Moves(r, F, T)
      BY <1>1, <2>2, <3>3, <3>4, GoesMove
    <3>6. r.op = "push"
      BY <1>5 DEF push, disable, Stands, PushesSound
    <3> QED BY <3>5, <3>6
  <2> QED BY <1>5, <2>1, <2>2 DEF Retries
<1>6. CASE readDevice(r) /\ ~Answered(r)
  <2>0. PICK i, entry : /\ i \in Devices /\ entry \in {0, 1}
                        /\ Reads(r, "check", [seen[r] EXCEPT !.row = i, !.set = {device[i]}, !.entry = entry])
    BY <1>6 DEF readDevice
  <2>1. i \in Nat /\ entry \in Nat
    <3>1. DOMAIN device = 1..Len(device)
      BY DEF TablesTyped
    <3> QED BY <2>0, <3>1 DEF Devices
  <2>2. IsSight([seen[r] EXCEPT !.row = i, !.set = {device[i]}, !.entry = entry])
    BY <1>0, <2>1, SightsChange, Zenon
  <2>3. Moves(r, F, T) /\ pc'[r] = "check"
    BY <1>1, <2>0, <2>2, ReadsMove, Arrivals DEF DevicePlaces
  <2>4. r.op = "push"
    BY <1>6 DEF readDevice, Arrives
  <2> QED BY <2>3, <2>4
<1>7. CASE readTerminal(r) /\ ~Refused(r)
  <2>1. Reads(r, "register", NoSight) /\ r.op = "register"
    BY <1>7 DEF readTerminal, Arrives
  <2>2. Moves(r, F, T)
    BY <1>0, <1>1, <2>1, ReadsMove DEF DevicePlaces
  <2> QED BY <2>1, <2>2
<1>8. CASE readDevices(r)
  <2>1. Reads(r, "sweep", [NoSight EXCEPT !.set = {i \in Devices : device[i].enabled}]) /\ r.op = "cleanup"
    BY <1>8, Zenon DEF readDevices, Arrives
  <2>2. IsSight([NoSight EXCEPT !.set = {i \in Devices : device[i].enabled}])
    BY <1>0, SightsChange, Zenon
  <2>3. Moves(r, F, T)
    BY <1>1, <2>1, <2>2, ReadsMove DEF DevicePlaces
  <2> QED BY <2>1, <2>3
<1>9. \/ Done(r) \/ Answered(r) \/ Ends(r) \/ Refused(r) \/ checkTerminal(r) \/ (Place(r, "disable") /\ UNCHANGED seen)
      \/ (Retries(r) /\ (push(r) \/ disable(r))) \/ (readDevice(r) /\ ~Answered(r)) \/ (readTerminal(r) /\ ~Refused(r))
      \/ readDevices(r)
  BY DEF DeviceActions, register, Registers, unregister, push, disable, sweep, login, logout, Mistaken, Recognised
<1> QED BY <1>2, <1>3, <1>4, <1>5, <1>6, <1>7, <1>8, <1>9

LEMMA DeviceRowsAreTyped ==
    ASSUME TablesTyped
    PROVE  /\ Len(device) \in Nat /\ DOMAIN device = 1..Len(device) /\ Devices \subseteq DOMAIN device
           /\ \A i \in DOMAIN device : i \in Nat /\ device[i] \in DeviceRows /\ device[i].at \in Nat
<1>1. device \in Seq(DeviceRows)
  BY DEF TablesTyped
<1>2. Len(device) \in Nat /\ DOMAIN device = 1..Len(device) /\ \A i \in DOMAIN device : device[i] \in DeviceRows
  BY <1>1
<1>3. \A row \in DeviceRows : row.at \in Nat
  BY DEF DeviceRows
<1> QED BY <1>2, <1>3 DEF Devices

LEMMA DevicesDisabled ==
    ASSUME TablesTyped, NEW D
    PROVE  /\ Disabled(D) \in Seq(DeviceRows) /\ DOMAIN Disabled(D) = DOMAIN device
           /\ \A i \in DOMAIN device :
                /\ Disabled(D)[i].user = device[i].user /\ Disabled(D)[i].session = device[i].session
                /\ Disabled(D)[i].token = device[i].token /\ Disabled(D)[i].live = device[i].live
<1>1. \A row \in DeviceRows :
        /\ [row EXCEPT !.enabled = FALSE] \in DeviceRows
        /\ [row EXCEPT !.enabled = FALSE].user = row.user /\ [row EXCEPT !.enabled = FALSE].session = row.session
        /\ [row EXCEPT !.enabled = FALSE].token = row.token /\ [row EXCEPT !.enabled = FALSE].live = row.live
  BY DEF DeviceRows
<1>2. Disabled(D) \in [1..Len(device) -> DeviceRows]
  BY <1>1, DeviceRowsAreTyped DEF Disabled
<1>3. Disabled(D) \in Seq(DeviceRows)
  BY <1>2, DeviceRowsAreTyped
<1> QED BY <1>1, <1>3, DeviceRowsAreTyped DEF Disabled

LEMMA NewDeviceIsTyped ==
    ASSUME TablesTyped, NEW r, r.user \in Users, r.session \in Sessions, r.token \in Phones
    PROVE  NewDevice(r) \in DeviceRows
<1> DEFINE ats == {device[i].at : i \in DOMAIN device}
           f == [i \in 1..Len(device) |-> device[i].at]
<1>1. f \in Surjection(1..Len(device), ats)
  BY DeviceRowsAreTyped DEF Surjection
<1>2. IsFiniteSet(1..Len(device))
  BY DeviceRowsAreTyped, FS_Interval
<1>3. IsFiniteSet(ats)
  BY <1>1, <1>2, FS_Surjection
<1>4. IsFiniteSet({0} \cup ats)
  BY <1>3, FS_EmptySet, FS_AddElement, FS_Union
<1>5. {0} \cup ats \in SUBSET Int /\ {0} \cup ats # {} /\ \A x \in {0} \cup ats : x \in Nat
  BY DeviceRowsAreTyped
<1> HIDE DEF ats
<1>6. Max({0} \cup ats) \in Nat
  BY <1>4, <1>5, MaxOfFinite
<1>7. 1 + Max({0} \cup ats) \in Nat
  BY <1>6
<1> QED BY <1>7 DEF ats, NewDevice, DeviceRows

(* What a request knows of devices and terminals. *)
PushSight(r) ==
    /\ pc[r] = "register" => r.op = "register" /\ r.session \in Sessions /\ ~NotYet(<<r.user, r.session>>)
    /\ pc[r] \in {"check", "push", "disable"} => r.op = "push" /\ seen[r].row \in DOMAIN device
    /\ pc[r] \in {"check", "push"} => \E d \in seen[r].set : Aims(r, d)

LEMMA PushesGoOn ==
    ASSUME IInv, NEW r \in plot.requests, DeviceActions(r),
           \A x \in signedIn' \ signedIn : NotYet(x) /\ ~NotYet(x)',
           DOMAIN device \subseteq DOMAIN device',
           \A i \in DOMAIN device' : ~NotYet(<<device'[i].user, device'[i].session>>),
           DevicesSound', PushesEndWithTheSession', PushSight(r)'
    PROVE  PushesHold'
<1> USE DEF IInv
<1>1. /\ plot' = plot /\ \A q \in plot.requests \ {r} : pc'[q] = pc[q] /\ seen'[q] = seen[q]
      /\ r.op = "login" => pc'[r] # "new"
  <2>1. {"done", "refused"} \cap ({"new"} \cup DevicePlaces) = {}
    BY DEF DevicePlaces
  <2> QED BY <2>1, DevicesMove, MovesGoOn
<1>2. \A x : NotYet(x)' => NotYet(x)
  BY <1>1 DEF NotYet
<1>3. \A x \in signedIn' : ~NotYet(x)'
  BY <1>2 DEF TerminalsBegin
<1>4. \A i \in DOMAIN device' : ~NotYet(TerminalOf(i))'
  BY <1>2 DEF TerminalOf
<1>5. ASSUME NEW q \in plot.requests
      PROVE  PushSight(q)'
  <2>1. CASE q = r
    BY <2>1
  <2>2. CASE q # r
    <3>1. PushSight(q) /\ pc'[q] = pc[q] /\ seen'[q] = seen[q]
      BY <1>1, <2>2 DEF TerminalsBegin, PushesSound, PushSight
    <3>2. \A d : Aims(q, d) => Aims(q, d)'
      BY <1>2, <3>1 DEF Aims
    <3>3. pc'[q] = "register" => q.op = "register" /\ q.session \in Sessions /\ ~NotYet(<<q.user, q.session>>)'
      BY <1>2, <3>1 DEF PushSight
    <3>4. pc'[q] \in {"check", "push"} => \E d \in seen'[q].set : Aims(q, d)'
      BY <3>1, <3>2 DEF PushSight
    <3> QED BY <3>1, <3>3, <3>4 DEF PushSight
  <2> QED BY <2>1, <2>2
<1>6. /\ \A q \in plot.requests :
           pc'[q] = "register" => q.op = "register" /\ q.session \in Sessions /\ ~NotYet(<<q.user, q.session>>)'
      /\ \A q \in plot.requests :
           pc'[q] \in {"check", "push", "disable"} => q.op = "push" /\ seen'[q].row \in DOMAIN device'
      /\ \A q \in plot.requests : pc'[q] \in {"check", "push"} => \E d \in seen'[q].set : Aims(q, d)'
  BY <1>5 DEF PushSight
<1>7. TerminalsBegin'
  BY <1>1, <1>3, <1>4, <1>6 DEF TerminalsBegin
<1>8. PushesSound'
  BY <1>1, <1>6 DEF PushesSound
<1> QED BY <1>7, <1>8 DEF PushesHold

(* A phone, and a terminal, have one device: the others that are there go. *)
LEMMA Registrations ==
    ASSUME IInv, NEW r \in plot.requests, Registers(r)
    PROVE  /\ device' \in Seq(DeviceRows) /\ DOMAIN device \subseteq DOMAIN device'
           /\ \A i \in DOMAIN device' : ~NotYet(<<device'[i].user, device'[i].session>>)
           /\ DevicesSound'
<1> USE DEF IInv
<1> DEFINE own == DevicesOf(r)
           others == {i \in Devices : device[i].token = r.token} \ own
           new == NewDevice(r)
           rest == [i \in DOMAIN device |->
                      IF i \in own THEN new ELSE IF i \in others THEN [device[i] EXCEPT !.live = FALSE] ELSE device[i]]
<1>0. /\ Len(device) \in Nat /\ DOMAIN device = 1..Len(device) /\ Devices \subseteq DOMAIN device
      /\ \A i \in DOMAIN device : i \in Nat /\ device[i] \in DeviceRows
  BY DeviceRowsAreTyped
<1>1. r.op = "register" /\ r.session \in Sessions /\ ~NotYet(<<r.user, r.session>>) /\ r.user \in Users /\ r.token \in Phones
  BY AddressesOfRequests DEF Registers, At, TerminalsBegin, Commands
<1>2. /\ new \in DeviceRows /\ new.user = r.user /\ new.session = r.session /\ new.token = r.token /\ new.live
  BY <1>1, NewDeviceIsTyped DEF NewDevice
<1>3. device' = IF own = {} THEN Append(rest, new) ELSE rest
  BY DEF Registers, DevicesBecome
<1>4. \A row \in DeviceRows :
        /\ [row EXCEPT !.live = FALSE] \in DeviceRows /\ ~[row EXCEPT !.live = FALSE].live
        /\ [row EXCEPT !.live = FALSE].user = row.user /\ [row EXCEPT !.live = FALSE].session = row.session
  BY DEF DeviceRows
<1>5. own \subseteq Devices /\ \A i \in Devices : i \in own <=> <<device[i].user, device[i].session>> = <<r.user, r.session>>
  BY DEF DevicesOf, TerminalOf
<1>6. \A i, j \in own : i = j
  BY <1>5 DEF DevicesSound, TerminalOf
<1>7. \A i \in Devices : i \in others <=> i \notin own /\ device[i].token = r.token
  OBVIOUS
<1>8. \A i \in DOMAIN device :
        /\ rest[i] \in DeviceRows
        /\ IF i \in own THEN rest[i] = new
           ELSE /\ <<rest[i].user, rest[i].session>> = <<device[i].user, device[i].session>>
                /\ rest[i].live => i \in Devices /\ i \notin others /\ rest[i] = device[i]
  BY <1>0, <1>2, <1>4 DEF Devices
<1>9. rest \in [1..Len(device) -> DeviceRows] /\ DOMAIN rest = DOMAIN device
  BY <1>0, <1>8
<1> HIDE DEF own, others, new, rest
<1>10. rest \in Seq(DeviceRows) /\ Len(rest) = Len(device)
  BY <1>0, <1>9
<1>11. \A i \in DOMAIN device : ~NotYet(<<rest[i].user, rest[i].session>>)
  BY <1>1, <1>2, <1>8 DEF TerminalsBegin, TerminalOf
<1>12. \A i, j \in DOMAIN device : i # j /\ rest[i].live /\ rest[j].live =>
         /\ rest[i].token # rest[j].token
         /\ <<rest[i].user, rest[i].session>> # <<rest[j].user, rest[j].session>>
  <2> SUFFICES ASSUME NEW i \in DOMAIN device, NEW j \in DOMAIN device, i # j, rest[i].live, rest[j].live
               PROVE  /\ rest[i].token # rest[j].token
                      /\ <<rest[i].user, rest[i].session>> # <<rest[j].user, rest[j].session>>
    OBVIOUS
  <2>1. CASE i \in own
    <3>1. j \notin own
      BY <1>6, <2>1
    <3> QED BY <1>2, <1>5, <1>7, <1>8, <2>1, <3>1
  <2>2. CASE j \in own
    <3>1. i \notin own
      BY <1>6, <2>2
    <3> QED BY <1>2, <1>5, <1>7, <1>8, <2>2, <3>1
  <2>3. CASE i \notin own /\ j \notin own
    BY <1>8, <2>3 DEF DevicesSound, TerminalOf
  <2> QED BY <2>1, <2>2, <2>3
<1>13. CASE own # {}
  <2>1. device' = rest
    BY <1>3, <1>13
  <2> QED BY <1>9, <1>10, <1>11, <1>12, <2>1 DEF DevicesSound, Devices, TerminalOf
<1>14. CASE own = {}
  <2>1. device' = Append(rest, new)
    BY <1>3, <1>14
  <2>2. /\ device' \in Seq(DeviceRows) /\ DOMAIN device' = 1..(Len(device) + 1) /\ device'[Len(device) + 1] = new
        /\ \A i \in DOMAIN device : device'[i] = rest[i]
    BY <1>0, <1>2, <1>9, <1>10, <2>1
  <2>3. \A i \in DOMAIN device' : i \in DOMAIN device \/ i = Len(device) + 1
    BY <1>0, <2>2
  <2>4. \A i \in DOMAIN device : rest[i].live =>
          rest[i].token # new.token /\ <<rest[i].user, rest[i].session>> # <<new.user, new.session>>
    BY <1>2, <1>5, <1>7, <1>8, <1>14
  <2>5. DOMAIN device \subseteq DOMAIN device'
    BY <1>0, <2>2
  <2>6. \A i \in DOMAIN device' : ~NotYet(<<device'[i].user, device'[i].session>>)
    BY <1>1, <1>2, <1>11, <2>2, <2>3
  <2>7. \A i, j \in DOMAIN device' : i # j /\ device'[i].live /\ device'[j].live =>
          /\ device'[i].token # device'[j].token
          /\ <<device'[i].user, device'[i].session>> # <<device'[j].user, device'[j].session>>
    BY <1>12, <2>2, <2>3, <2>4
  <2> QED BY <2>2, <2>5, <2>6, <2>7 DEF DevicesSound, Devices, TerminalOf
<1> QED BY <1>13, <1>14

LEMMA DevicesGoOn ==
    ASSUME IInv, NEW r \in plot.requests, DeviceActions(r)
    PROVE  /\ PushesHold' /\ TerminalsSound'
           /\ device' \in Seq(DeviceRows) /\ signedIn' \subseteq Users \X Sessions
           /\ UNCHANGED <<code, mailed, begun, accepted, confirmed, adminVars, settingVars, profileVars>>
<1> USE DEF IInv
<1> DEFINE Rest == UNCHANGED <<code, mailed, begun, accepted, confirmed, adminVars, settingVars, profileVars>>
           Goal == /\ PushesHold' /\ TerminalsSound'
                   /\ device' \in Seq(DeviceRows) /\ signedIn' \subseteq Users \X Sessions
                   /\ Rest
<1>0. device \in Seq(DeviceRows) /\ signedIn \subseteq Users \X Sessions /\ r \in Commands /\ r.user \in Users
  BY AddressesOfRequests DEF TablesTyped, Commands
<1>a. \A i \in DOMAIN device : ~NotYet(<<device[i].user, device[i].session>>)
  BY DEF TerminalsBegin, TerminalOf
<1>s. ASSUME pc'[r] \notin {"register", "check", "push", "disable"}
      PROVE  PushSight(r)'
  BY <1>s DEF PushSight
<1>g. ASSUME signedIn' \subseteq signedIn, device' \in Seq(DeviceRows), DOMAIN device \subseteq DOMAIN device',
             \A i \in DOMAIN device' : ~NotYet(<<device'[i].user, device'[i].session>>),
             DevicesSound', PushesEndWithTheSession', PushSight(r)', Rest
      PROVE  Goal
  <2>1. PushesHold'
    BY <1>g, PushesGoOn
  <2>2. TerminalsSound'
    BY <1>g DEF TerminalsSound
  <2>3. signedIn' \subseteq Users \X Sessions
    BY <1>0, <1>g
  <2> QED BY <1>g, <2>1, <2>2, <2>3
<1>u. ASSUME UNCHANGED device, signedIn' \subseteq signedIn, PushesEndWithTheSession', PushSight(r)', Rest
      PROVE  Goal
  <2>1. DevicesSound'
    BY <1>u DEF DevicesSound, Devices, TerminalOf
  <2>2. \A i \in DOMAIN device' : ~NotYet(<<device'[i].user, device'[i].session>>)
    BY <1>a, <1>u
  <2>3. device' \in Seq(DeviceRows) /\ DOMAIN device \subseteq DOMAIN device'
    BY <1>0, <1>u
  <2> QED BY <1>g, <1>u, <2>1, <2>2, <2>3
<1>v. ASSUME UNCHANGED tableVars, PushSight(r)'
      PROVE  Goal
  <2>1. UNCHANGED <<device, signedIn, pushed>> /\ Rest
    BY <1>v DEF tableVars, deviceVars, codeVars
  <2>2. PushesEndWithTheSession'
    BY <2>1 DEF PushesSound, PushesEndWithTheSession
  <2> QED BY <1>u, <1>v, <2>1, <2>2
<1>d. ASSUME NEW D, DevicesBecome(Disabled(D)), Done(r)
      PROVE  Goal
  <2>1. device' = Disabled(D) /\ UNCHANGED <<signedIn, pushed>> /\ Rest /\ pc'[r] = "done"
    BY <1>d, Arrivals DEF DevicesBecome, codeVars
  <2>2. PushesEndWithTheSession'
    BY <2>1 DEF PushesSound, PushesEndWithTheSession
  <2>3. /\ device' \in Seq(DeviceRows) /\ DOMAIN device' = DOMAIN device
        /\ \A i \in DOMAIN device :
             /\ device'[i].user = device[i].user /\ device'[i].session = device[i].session
             /\ device'[i].token = device[i].token /\ device'[i].live = device[i].live
    BY <2>1, DevicesDisabled
  <2>4. DevicesSound'
    BY <2>3 DEF DevicesSound, Devices, TerminalOf
  <2>5. \A i \in DOMAIN device' : ~NotYet(<<device'[i].user, device'[i].session>>)
    BY <1>a, <2>3
  <2>6. PushSight(r)' /\ DOMAIN device \subseteq DOMAIN device' /\ signedIn' \subseteq signedIn
    BY <1>s, <2>1, <2>3
  <2> QED BY <1>g, <2>1, <2>2, <2>3, <2>4, <2>5, <2>6
<1>e. ASSUME Refused(r) \/ Answered(r)
      PROVE  Goal
  <2>1. UNCHANGED tableVars /\ pc'[r] \in {"refused", "done"}
    BY <1>e, Arrivals DEF Refused, Answered
  <2> QED BY <1>s, <1>v, <2>1
<1>1. CASE readTerminal(r)
  <2>1. CASE Refused(r)
    BY <1>e, <2>1
  <2>2. CASE ~Refused(r)
    <3>1. <<r.user, r.session>> \in signedIn /\ Reads(r, "register", NoSight) /\ r.op = "register"
      BY <1>1, <2>2 DEF readTerminal, Arrives
    <3>2. pc'[r] = "register" /\ UNCHANGED tableVars /\ plot' = plot
      BY <3>1, Arrivals DEF Reads, Goes, Place
    <3>3. r.session \in Sessions /\ ~NotYet(<<r.user, r.session>>)
      BY <1>0, <3>1 DEF TerminalsBegin
    <3>4. ~NotYet(<<r.user, r.session>>)'
      <4>1. \A q \in plot.requests : pc'[q] = "new" => pc[q] = "new"
        BY <3>1 DEF Reads, Goes, Place, RequestsTyped
      <4> QED BY <3>2, <3>3, <4>1 DEF NotYet
    <3>5. PushSight(r)'
      BY <3>1, <3>2, <3>3, <3>4 DEF PushSight
    <3> QED BY <1>v, <3>2, <3>5
  <2> QED BY <2>1, <2>2
<1>2. CASE Registers(r)
  <2>1. UNCHANGED <<signedIn, pushed>> /\ Rest /\ pc'[r] = "done"
    BY <1>2, Arrivals DEF Registers, DevicesBecome, codeVars
  <2>2. PushesEndWithTheSession'
    BY <2>1 DEF PushesSound, PushesEndWithTheSession
  <2>3. /\ device' \in Seq(DeviceRows) /\ DOMAIN device \subseteq DOMAIN device'
        /\ \A i \in DOMAIN device' : ~NotYet(<<device'[i].user, device'[i].session>>)
        /\ DevicesSound'
    BY <1>2, Registrations
  <2>4. PushSight(r)' /\ signedIn' \subseteq signedIn
    BY <1>s, <2>1
  <2> QED BY <1>g, <2>1, <2>2, <2>3, <2>4
<1>3. CASE unregister(r)
  BY <1>3, <1>d DEF unregister
<1>4. CASE readDevice(r)
  <2>1. CASE Answered(r)
    BY <1>e, <2>1
  <2>2. CASE ~Answered(r)
    <3>1. PICK i \in Devices :
             /\ device[i].user = r.user
             /\ Reads(r, "check", [seen[r] EXCEPT !.row = i, !.set = {device[i]},
                                                  !.entry = IF TerminalOf(i) \in signedIn THEN 0 ELSE 1])
      BY <1>4, <2>2 DEF readDevice
    <3>2. PICK d, x : d = device[i] /\ x = IF TerminalOf(i) \in signedIn THEN 0 ELSE 1
      OBVIOUS
    <3>3. r.op = "push" /\ i \in DOMAIN device /\ d \in DeviceRows
      BY <1>0, <1>4, <3>2, DeviceRowsAreTyped DEF readDevice, Arrives
    <3>4. /\ pc'[r] = "check" /\ seen'[r] = [seen[r] EXCEPT !.row = i, !.set = {d}, !.entry = x]
          /\ UNCHANGED tableVars /\ plot' = plot
      <4>1. Reads(r, "check", [seen[r] EXCEPT !.row = i, !.set = {d}, !.entry = x])
        BY <3>1, <3>2
      <4>2. UNCHANGED tableVars /\ plot' = plot
        BY <4>1 DEF Reads, Goes, Place
      <4> QED BY <4>1, <4>2, Arrivals
    <3>5. seen'[r].row = i /\ seen'[r].set = {d} /\ seen'[r].entry = x
      BY <3>4, IsSight(seen[r]) DEF IsSight, RequestsTyped
    <3>6. ~NotYet(<<d.user, d.session>>)'
      <4>1. \A q \in plot.requests : pc'[q] = "new" => pc[q] = "new"
        BY <3>1 DEF Reads, Goes, Place, RequestsTyped
      <4>2. ~NotYet(<<d.user, d.session>>)
        BY <1>a, <3>2, <3>3
      <4> QED BY <3>4, <4>1, <4>2 DEF NotYet
    <3>7. x = 1 => <<d.user, d.session>> \notin signedIn
      BY <3>2 DEF TerminalOf
    <3>8. UNCHANGED <<device, signedIn>>
      BY <3>4 DEF tableVars, deviceVars
    <3>9. Aims(r, d)'
      BY <3>1, <3>2, <3>3, <3>4, <3>5, <3>6, <3>7, <3>8 DEF Aims
    <3>10. PushSight(r)'
      BY <3>3, <3>4, <3>5, <3>8, <3>9 DEF PushSight
    <3> QED BY <1>v, <3>4, <3>10
  <2> QED BY <2>1, <2>2
<1>5. CASE checkTerminal(r)
  <2>1. pc[r] = "check"
    BY <1>5 DEF checkTerminal, Stands
  <2>2. PICK d \in seen[r].set : Aims(r, d)
    BY <2>1 DEF PushesSound
  <2>3. Target(r) = d
    BY <2>2 DEF Target, Only, Aims
  <2>a. PICK to : to = IF <<r.user, d.session>> \in signedIn THEN "push" ELSE "disable"
    OBVIOUS
  <2>4. Reads(r, to, seen[r])
    BY <1>5, <2>3, <2>a DEF checkTerminal
  <2>5. /\ pc'[r] = to /\ seen'[r] = seen[r] /\ UNCHANGED tableVars /\ plot' = plot
        /\ to = IF <<d.user, d.session>> \in signedIn THEN "push" ELSE "disable"
    <3>1. pc'[r] = to /\ seen'[r] = seen[r]
      BY <2>4, Arrivals
    <3>2. UNCHANGED tableVars /\ plot' = plot
      BY <2>4 DEF Reads, Goes, Place
    <3> QED BY <2>2, <2>a, <3>1, <3>2 DEF Aims
  <2>6. ~NotYet(<<d.user, d.session>>)'
    <3>1. \A q \in plot.requests : pc'[q] = "new" => pc[q] = "new"
      BY <2>4, <2>5 DEF Reads, Goes, Place, RequestsTyped
    <3>2. ~NotYet(<<d.user, d.session>>)
      BY <2>2 DEF Aims
    <3> QED BY <2>5, <3>1, <3>2 DEF NotYet
  <2>7. UNCHANGED <<device, signedIn>>
    BY <2>5 DEF tableVars, deviceVars
  <2>8. pc'[r] = "push" => Aims(r, d)'
    BY <2>2, <2>5, <2>6, <2>7 DEF Aims
  <2>9. r.op = "push" /\ seen'[r].row \in DOMAIN device'
    BY <2>1, <2>5, <2>7 DEF PushesSound
  <2>10. PushSight(r)'
    BY <2>2, <2>5, <2>8, <2>9 DEF PushSight
  <2> QED BY <1>v, <2>5, <2>10
<1>6. CASE push(r)
  <2>1. pc[r] = "push" /\ r.op = "push" /\ seen[r].row \in DOMAIN device
    BY <1>6 DEF push, Stands, PushesSound
  <2>2. PICK d \in seen[r].set : Aims(r, d)
    BY <2>1 DEF PushesSound
  <2>3. Target(r) = d /\ d.user = r.user /\ seen[r].entry # 1
    BY <2>1, <2>2 DEF Target, Only, Aims
  <2>4. PICK p : p = [user |-> r.user, device |-> Target(r), late |-> seen[r].entry = 1]
    OBVIOUS
  <2>5. ~p.late /\ p.device.user = p.user
    BY <2>3, <2>4
  <2>6. pushed' \subseteq pushed \cup {p} /\ UNCHANGED <<device, signedIn>> /\ Rest
    BY <1>6, <2>4 DEF push, codeVars
  <2>7. PushesEndWithTheSession'
    BY <2>5, <2>6 DEF PushesSound, PushesEndWithTheSession
  <2>8. pc'[r] \in {"done", "new", "refused"} \/ (pc'[r] = "disable" /\ seen'[r] = seen[r])
    BY <1>6, Arrivals DEF push, Retries
  <2>9. PushSight(r)'
    BY <1>s, <2>1, <2>6, <2>8 DEF PushSight
  <2> QED BY <1>u, <2>6, <2>7, <2>9
<1>7. CASE disable(r)
  <2>1. CASE DevicesBecome(Disabled({seen[r].row})) /\ Done(r)
    BY <1>d, <2>1
  <2>2. CASE Retries(r) /\ UNCHANGED tableVars
    <3>1. pc'[r] \in {"new", "refused"}
      BY <2>2, Arrivals DEF Retries
    <3> QED BY <1>s, <1>v, <2>2, <3>1
  <2> QED BY <1>7, <2>1, <2>2 DEF disable
<1>8. CASE readDevices(r)
  <2>1. pc'[r] = "sweep" /\ UNCHANGED tableVars
    BY <1>8, Arrivals DEF readDevices, Reads
  <2> QED BY <1>s, <1>v, <2>1
<1>9. CASE sweep(r)
  BY <1>9, <1>d DEF sweep
<1>10. CASE login(r)
  <2>0. r.op = "login" /\ pc[r] = "new"
    BY <1>10 DEF login, Arrives
  <2>1. CASE Refused(r)
    BY <1>e, <2>1
  <2>2. CASE Mistaken(r)
    <3>1. UNCHANGED <<device, signedIn, pushed>> /\ Rest /\ pc'[r] = "refused"
      BY <2>2, Arrivals DEF Mistaken, deviceVars
    <3>2. PushesEndWithTheSession'
      BY <3>1 DEF PushesSound, PushesEndWithTheSession
    <3> QED BY <1>s, <1>u, <3>1, <3>2
  <2>3. CASE ~Refused(r) /\ ~Mistaken(r)
    <3>1. /\ signedIn' = (signedIn \ SessionsOf(r.user)) \cup {<<r.user, r.session>>}
          /\ UNCHANGED <<device, pushed>> /\ Rest /\ Done(r)
      BY <1>10, <2>3 DEF login, Recognised, deviceVars, adminVars
    <3>2. pc'[r] = "done" /\ plot' = plot /\ \A q \in plot.requests \ {r} : pc'[q] = pc[q]
      BY <3>1, Arrivals DEF Done, Place, RequestsTyped
    <3>3. r.session \in Sessions
      BY <2>0, AddressesOfRequests
    <3>4. NotYet(<<r.user, r.session>>)
      BY <2>0 DEF NotYet
    <3>5. ~NotYet(<<r.user, r.session>>)'
      <4>1. \A q \in plot.requests \ {r} : ~(q.op = "login" /\ q.user = r.user /\ q.session = r.session)
        BY <2>0, Plotted DEF RequestsTyped, RequestsStart
      <4> QED BY <3>2, <4>1 DEF NotYet
    <3>6. \A x \in signedIn' \ signedIn : x = <<r.user, r.session>>
      BY <3>1
    <3>7. TerminalsSound'
      BY <3>1 DEF TerminalsSound, SessionsOf
    <3>8. DevicesSound' /\ PushesEndWithTheSession'
      BY <3>1 DEF DevicesSound, Devices, TerminalOf, PushesSound, PushesEndWithTheSession
    <3>9. PushSight(r)'
      BY <1>s, <3>2
    <3>10. \A i \in DOMAIN device' : ~NotYet(<<device'[i].user, device'[i].session>>)
      BY <1>a, <3>1
    <3>11. PushesHold'
      BY <3>1, <3>4, <3>5, <3>6, <3>8, <3>9, <3>10, PushesGoOn
    <3>12. signedIn' \subseteq Users \X Sessions /\ device' \in Seq(DeviceRows)
      BY <1>0, <3>1, <3>3
    <3> QED BY <3>1, <3>7, <3>11, <3>12
  <2> QED BY <2>1, <2>2, <2>3
<1>11. CASE logout(r)
  <2>1. UNCHANGED <<device, pushed>> /\ signedIn' \subseteq signedIn /\ Rest /\ pc'[r] = "done"
    BY <1>11, Arrivals DEF logout, deviceVars, codeVars
  <2>2. PushesEndWithTheSession'
    BY <2>1 DEF PushesSound, PushesEndWithTheSession
  <2> QED BY <1>s, <1>u, <2>1, <2>2
<1>12. CASE register(r)
  BY <1>2, <1>12, <1>e DEF register
<1> QED BY <1>1, <1>3, <1>4, <1>5, <1>6, <1>7, <1>8, <1>9, <1>10, <1>11, <1>12 DEF DeviceActions

LEMMA DeviceStepsKeep ==
    ASSUME IInv, NEW r \in plot.requests, DeviceActions(r)
    PROVE  IInv'
<1> USE DEF IInv
<1>0. /\ Moves(r, {"new"} \cup DevicePlaces, {"new"} \cup Ended \cup DevicePlaces) /\ r.user \in Users /\ MaxTries \in Nat \ {0}
      /\ {"done", "refused"} \cap ({"new"} \cup DevicePlaces) = {}
  BY DevicesMove, AddressesOfRequests, AccountsAssumption DEF Commands, DevicePlaces
<1>1. RequestsTyped'
  BY <1>0, MovesAreTyped
<1>2. /\ \A q \in plot.requests : pc[q] = "refused" => pc'[q] = "refused"
      /\ \A q \in plot.requests \ {r} : pc'[q] = pc[q] /\ seen'[q] = seen[q]
      /\ pc[r] \in {"new"} \cup DevicePlaces /\ plot' = plot
  BY <1>0, MovesGoOn
<1>3. Elsewhere(CodePlaces) /\ Elsewhere({"rename", "fill", "invalidate"}) /\ Elsewhere(AdminPlaces) /\ Elsewhere(PausePlaces)
  <2>1. \A P : ({"new"} \cup DevicePlaces) \cap P = {} /\ ({"new"} \cup Ended \cup DevicePlaces) \cap P = {} => Elsewhere(P)
    BY <1>0, MovesElsewhere
  <2> QED BY <2>1 DEF Ended, CodePlaces, AdminPlaces, PausePlaces, DevicePlaces
<1>4. ForgottenStay
  BY <1>2, DevicesMove DEF ForgottenStay
<1>5. /\ PushesHold' /\ TerminalsSound' /\ device' \in Seq(DeviceRows) /\ signedIn' \subseteq Users \X Sessions
      /\ UNCHANGED <<code, mailed, begun, accepted, confirmed, adminVars, settingVars, profileVars>>
  BY DevicesGoOn
<1>6. /\ account' \in [Users -> Accounts_] /\ \A u \in Users : Kept(u)
      /\ Counts'
  <2>1. CASE Mistaken(r)
    <3>1. pc[r] # "refused" /\ account[r.user].wrong + 1 \in Nat
      BY <1>0, <1>2 DEF DevicePlaces, TablesTyped, Accounts_
    <3>2. Counts'
      BY <1>2, <2>1, <3>1, CountsOfPasswords
    <3> QED BY <1>0, <2>1, <3>1, <3>2, AccountsCounted DEF Mistaken
  <2>2. CASE Recognised(r)
    <3>1. pc[r] # "refused"
      BY <1>2 DEF DevicePlaces
    <3>2. Counts'
      BY <1>2, <2>2, <3>1, CountsOfPasswords
    <3> QED BY <1>0, <2>2, <3>2, AccountsCounted DEF Recognised, Right
  <2>3. CASE UNCHANGED <<account, misses>>
    <3>1. Counts'
      BY <1>0, <1>2, <1>5, <2>3, CountsAreLeftAlone, Zenon DEF Rows
    <3> QED BY <2>3, <3>1 DEF Kept, TablesTyped
  <2>4. Mistaken(r) \/ Recognised(r) \/ UNCHANGED <<account, misses>>
    BY DEF DeviceActions, readTerminal, register, Registers, unregister, readDevice, checkTerminal, push, disable,
           readDevices, sweep,
           login, logout, DevicesBecome, Reads, Refused, Answered, tableVars, codeVars
  <2> QED BY <2>1, <2>2, <2>3, <2>4
<1>7. CodesHold_'
  <2>1. CodesStay
    BY <1>5 DEF CodesStay
  <2>2. /\ \A u \in Users : account'[u].password = account[u].password
        /\ \A u \in Users : account[u].state # "none" => account'[u].state # "none"
    BY <1>6 DEF Kept
  <2> QED BY <1>3, <1>4, <2>1, <2>2, CodesAreLeftAlone DEF CodesHold_
<1>8. AdminHolds'
  BY <1>3, <1>5, AdminIsLeftAlone DEF AdminHolds, adminVars
<1>9. AccountsSound' /\ ProfilesStay
  BY <1>5, <1>6, KeptAccountsStay DEF profileVars
<1>10. TablesTyped' /\ CodesTyped'
  <2>1. UNCHANGED <<challenge, adminSession, appealing, settings, pauses, clock, behind, picture, profile, suspect, renames>>
    BY <1>5 DEF adminVars, settingVars, profileVars
  <2>2. TablesTyped'
    BY <1>5, <1>6, <2>1 DEF TablesTyped, There
  <2> QED BY <1>5, <2>2 DEF CodesTyped
<1>11. ProfilesHold'
  BY <1>3, <1>5, <1>9, ProfilesAreLeftAlone DEF ProfilesHold, profileVars
<1>12. PausesSound'
  BY <1>3, <1>5, PausesAreLeftAlone DEF settingVars
<1> QED BY <1>1, <1>5, <1>6, <1>7, <1>8, <1>9, <1>10, <1>11, <1>12 DEF CodesHold_, AdminHolds, ProfilesHold,
       PushesHold

-------------------------------------------------------------------------------
(* Time *)

LEMMA NobodyMoves ==
    ASSUME RequestsTyped, UNCHANGED <<plot, requestVars>>
    PROVE  /\ RequestsTyped' /\ ForgottenStay /\ UNCHANGED <<plot, pc, seen>>
           /\ \A P : Elsewhere(P)
<1>1. UNCHANGED <<plot, pc, seen>>
  BY DEF requestVars
<1>2. RequestsTyped'
  BY <1>1 DEF RequestsTyped, IsSight
<1> QED BY <1>1, <1>2 DEF ForgottenStay, Elsewhere

(* Codes grow older, run out, and are removed. *)
LEMMA CodesAgeKeep ==
    ASSUME IInv, UNCHANGED <<plot, requestVars>>, NEW codes, CodesBecome(codes), UNCHANGED begun, Grown(codes),
           Len(codes) = Len(code),
           \A c \in DOMAIN code : codes[c].wrong = code[c].wrong /\ codes[c].sent = code[c].sent
                                  /\ codes[c].attempt = code[c].attempt
    PROVE  IInv'
<1> USE DEF IInv
<1>0. /\ code' = codes
      /\ UNCHANGED <<account, mailed, begun, accepted, confirmed, misses, adminVars, signedIn, deviceVars, profileVars>>
  BY DEF CodesBecome
<1>1. RequestsTyped' /\ UNCHANGED <<plot, pc, seen>> /\ \A P : Elsewhere(P)
  BY NobodyMoves
<1>2. CodesMoveOn
  BY CodesBecomeOthers
<1>3. DOMAIN code' = DOMAIN code /\ code' \in Seq(CodeRows)
      /\ \A c \in DOMAIN code :
           /\ code'[c].user = code[c].user /\ code'[c].email = code[c].email /\ code'[c].type = code[c].type
           /\ code'[c].password = code[c].password /\ (code'[c].live => code[c].live)
           /\ code'[c].wrong = code[c].wrong /\ code'[c].sent = code[c].sent /\ code'[c].attempt = code[c].attempt
  BY <1>0 DEF Grown, CodesTyped
<1>4. CodesTyped'
  BY <1>0, <1>3 DEF CodesTyped
<1>5. CodesSound'
  BY <1>0, <1>3 DEF CodesSound
<1>6. CodeSights'
  BY <1>1, <1>2, OtherSightsStay DEF CodeSights
<1>7. \A e, c : c \in DOMAIN code => (WasAsked(e, c) <=> WasAsked(e, c)')
  BY <1>1, <1>3 DEF WasAsked
<1>8. MailsSound'
  BY <1>0, <1>3, <1>7 DEF MailsSound
<1>9. Spaced'
  BY <1>0, <1>3 DEF Spaced, MailIsSpaced, Rows
<1>10. Confirmations'
  <2>1. ASSUME NEW x \in confirmed
        PROVE  /\ x.code \in DOMAIN code' /\ ~code'[x.code].live
               /\ x.op = "resetPassword" => code'[x.code].user # Nothing
               /\ \E e \in Emails :
                    /\ <<e, "code", x.code>> \in mailed'
                    /\ e = x.address \/ (x.op = "resetPassword" /\ WasAsked(e, x.code)')
    <3>1. /\ x.code \in DOMAIN code /\ ~code[x.code].live
          /\ x.op = "resetPassword" => code[x.code].user # Nothing
      BY DEF Confirmations
    <3>2. PICK e \in Emails : /\ <<e, "code", x.code>> \in mailed
                              /\ e = x.address \/ (x.op = "resetPassword" /\ WasAsked(e, x.code))
      BY DEF Confirmations
    <3>3. WasAsked(e, x.code)' <=> WasAsked(e, x.code)
      BY <1>7, <3>1
    <3> QED BY <1>0, <1>3, <3>1, <3>2, <3>3
  <2>2. \A x, y \in confirmed' : x.code = y.code => x = y
    BY <1>0 DEF Confirmations
  <2> QED BY <1>0, <2>1, <2>2 DEF Confirmations
<1>11. Counts'
  BY <1>0, <1>1, <1>3, CountsAreLeftAlone, AccountsAssumption DEF Rows
<1>12. AdminHolds'
  BY <1>0, <1>1, AdminIsLeftAlone DEF AdminHolds, adminVars
<1>13. AccountsSound' /\ ProfilesHold'
  <2>1. \A u \in Users : Kept(u)
    BY <1>0 DEF Kept
  <2>2. AccountsSound' /\ ProfilesStay
    BY <1>0, <2>1, KeptAccountsStay DEF profileVars
  <2> QED BY <1>0, <1>1, <2>2, ProfilesAreLeftAlone DEF ProfilesHold, profileVars
<1>14. PausesSound'
  BY <1>0, <1>1, PausesAreLeftAlone DEF deviceVars, settingVars
<1>15. PushesHold'
  BY <1>0, <1>1, PushesAreLeftAlone DEF PushesHold, deviceVars
<1>16. TablesTyped' /\ TerminalsSound'
  BY <1>0 DEF TablesTyped, TerminalsSound, There, adminVars, deviceVars, settingVars, profileVars
<1> QED BY <1>1, <1>4, <1>5, <1>6, <1>8, <1>9, <1>10, <1>11, <1>12, <1>13, <1>14, <1>15, <1>16 DEF AdminHolds,
       ProfilesHold, PushesHold

(* Challenges and sessions of administrators, and appeal tokens, run out. *)
LEMMA AdminsAgeKeep ==
    ASSUME IInv, UNCHANGED <<plot, requestVars, account, codeVars, signedIn, deviceVars, profileVars>>,
           ChallengesGrow, SessionsEnd(adminSession'), appealing' \subseteq Users
    PROVE  IInv'
<1> USE DEF IInv
<1>0. UNCHANGED <<code, mailed, begun, accepted, confirmed, misses>>
  BY DEF codeVars
<1>1. RequestsTyped' /\ ForgottenStay /\ UNCHANGED <<plot, pc, seen>> /\ \A P : Elsewhere(P)
  BY NobodyMoves
<1>2. /\ adminSession' \in Seq(AdminSessionRows) /\ DOMAIN adminSession \subseteq DOMAIN adminSession'
      /\ \A s \in DOMAIN adminSession : adminSession'[s].user = adminSession[s].user
      /\ AdminSessionsSound'
  BY <1>0, SessionsStaySound
<1>3. AdminSights'
  <2> SUFFICES ASSUME NEW q \in plot.requests PROVE AdminSight(q)'
    BY <1>1 DEF AdminSights
  <2>0. /\ AdminSight(q)
        /\ DOMAIN challenge \subseteq DOMAIN challenge'
        /\ \A h \in DOMAIN challenge : challenge'[h].user = challenge[h].user
    BY DEF ChallengesGrow, AdminSights, TablesTyped
  <2>1. \A h, u, purpose : Proven(h, u, purpose) => Proven(h, u, purpose)'
    BY <1>0, ProofsStay
  <2>2. \A s, u : s \in AdminSessionsOf(u) => s \in AdminSessionsOf(u)'
    BY <1>2 DEF AdminSessionsOf
  <2>3. PICK h, x : h = seen[q].row /\ x = seen[q].entry
    OBVIOUS
  <2>4. seen'[q].row = h /\ seen'[q].entry = x
    BY <1>1, <2>3
  <2>5. pc[q] = "open" => h \in DOMAIN challenge /\ Proven(h, challenge[h].user, "LOGIN")
    BY <2>0, <2>3 DEF AdminSight
  <2>6. pc[q] = "open" => h \in DOMAIN challenge' /\ Proven(h, challenge[h].user, "LOGIN")'
    BY <2>0, <2>1, <2>5
  <2>7. pc[q] = "elevate" => h \in AdminSessionsOf(q.user)' /\ Proven(x, q.user, "STEP_UP")'
    BY <2>0, <2>1, <2>2, <2>3 DEF AdminSight
  <2> QED BY <1>1, <1>2, <2>0, <2>2, <2>3, <2>4, <2>6, <2>7 DEF AdminSight
<1>4. CodesTyped' /\ CodesHold_'
  <2>1. CodesStay
    BY <1>0 DEF CodesStay
  <2> QED BY <1>0, <1>1, <2>1, CodesAreLeftAlone DEF CodesHold_, CodesTyped
<1>5. Counts'
  BY <1>0, <1>1, CountsAreLeftAlone, AccountsAssumption DEF Rows
<1>6. AccountsSound' /\ ProfilesHold'
  <2>1. \A u \in Users : Kept(u)
    BY DEF Kept
  <2>2. AccountsSound' /\ ProfilesStay
    BY <2>1, KeptAccountsStay DEF profileVars
  <2> QED BY <1>1, <2>2, ProfilesAreLeftAlone DEF ProfilesHold, profileVars
<1>7. PausesSound'
  BY <1>1, PausesAreLeftAlone DEF deviceVars, settingVars
<1>8. PushesHold'
  BY <1>1, PushesAreLeftAlone DEF PushesHold, deviceVars
<1>9. TablesTyped' /\ TerminalsSound'
  BY <1>2 DEF TablesTyped, TerminalsSound, There, ChallengesGrow, deviceVars, settingVars, profileVars
<1> QED BY <1>1, <1>2, <1>3, <1>4, <1>5, <1>6, <1>7, <1>8, <1>9 DEF CodesHold_, ProfilesHold, PushesHold

(* Accounts, what is cached, and pictures. *)
LEMMA TablesAgeKeep ==
    ASSUME IInv, UNCHANGED <<plot, requestVars, codeVars, challenge, adminSession, signedIn, device, pushed>>,
           \A u \in Users : account'[u].password = account[u].password /\ account'[u].wrong = account[u].wrong,
           \A u \in Users : account[u].state # "none" => account'[u].state # "none",
           TablesTyped', AccountsSound', ProfilesHold', PausesSound'
    PROVE  IInv'
<1> USE DEF IInv
<1>1. RequestsTyped' /\ ForgottenStay /\ UNCHANGED <<plot, pc, seen>> /\ \A P : Elsewhere(P)
  BY NobodyMoves
<1>2. CodesTyped' /\ CodesHold_' /\ AdminHolds' /\ Counts'
  BY <1>1, CodesAndAdminsStay
<1>3. PushesHold'
  BY <1>1, PushesAreLeftAlone DEF PushesHold
<1>4. TerminalsSound'
  BY DEF TerminalsSound
<1> QED BY <1>1, <1>2, <1>3, <1>4 DEF CodesHold_, AdminHolds, ProfilesHold, PushesHold

LEMMA CodesOfTimeKeep ==
    ASSUME IInv, NEW c, minutePasses(c) \/ codeExpires(c) \/ cleanupCodes
    PROVE  IInv'
<1> USE DEF IInv
<1>0. UNCHANGED <<plot, requestVars, begun>> /\ \A d \in DOMAIN code : code[d] \in CodeRows
  BY RowsAreTyped DEF minutePasses, codeExpires, cleanupCodes
<1>r. \A row \in CodeRows :
        /\ \A m \in 1..MaxMinutes :
             /\ [row EXCEPT !.minute = m].user = row.user /\ [row EXCEPT !.minute = m].email = row.email
             /\ [row EXCEPT !.minute = m].type = row.type /\ [row EXCEPT !.minute = m].password = row.password
             /\ [row EXCEPT !.minute = m].live = row.live /\ [row EXCEPT !.minute = m].attempt = row.attempt
             /\ [row EXCEPT !.minute = m].wrong = row.wrong /\ [row EXCEPT !.minute = m].sent = row.sent
        /\ [row EXCEPT !.fresh = FALSE].user = row.user /\ [row EXCEPT !.fresh = FALSE].email = row.email
        /\ [row EXCEPT !.fresh = FALSE].type = row.type /\ [row EXCEPT !.fresh = FALSE].password = row.password
        /\ [row EXCEPT !.fresh = FALSE].live = row.live /\ [row EXCEPT !.fresh = FALSE].attempt = row.attempt
        /\ [row EXCEPT !.fresh = FALSE].wrong = row.wrong /\ [row EXCEPT !.fresh = FALSE].sent = row.sent
  BY DEF CodeRows
<1>w. ASSUME c \in DOMAIN code, NEW row \in CodeRows, row.user = code[c].user, row.email = code[c].email,
             row.type = code[c].type, row.password = code[c].password, row.live = code[c].live,
             row.attempt = code[c].attempt, row.wrong = code[c].wrong, row.sent = code[c].sent,
             CodesBecome([code EXCEPT ![c] = row])
      PROVE  IInv'
  <2>1. PICK codes : codes = [code EXCEPT ![c] = row]
    OBVIOUS
  <2>2. Grown(codes)
    BY <1>w, <2>1, CodesNoted
  <2>3. /\ Len(codes) = Len(code)
        /\ \A d \in DOMAIN code : codes[d].wrong = code[d].wrong /\ codes[d].sent = code[d].sent
                                  /\ codes[d].attempt = code[d].attempt
    BY <1>w, <2>1 DEF CodesTyped
  <2> QED BY <1>0, <1>w, <2>1, <2>2, <2>3, CodesAgeKeep
<1>1. CASE minutePasses(c)
  <2>1. c \in DOMAIN code /\ code[c].minute + 1 \in 1..MaxMinutes
    BY <1>1, RowsAreTyped, AccountsAssumption DEF minutePasses, Rows
  <2>a. PICK m \in 1..MaxMinutes : m = code[c].minute + 1
    BY <2>1
  <2>b. PICK row : row = [code[c] EXCEPT !.minute = m]
    OBVIOUS
  <2>2. row = [code[c] EXCEPT !.minute = m] /\ m = code[c].minute + 1
    BY <2>a, <2>b
  <2>3. row \in CodeRows
    BY <1>0, <2>1, <2>2, RowsChange
  <2>4. CodesBecome([code EXCEPT ![c] = row])
    <3>1. CodesBecome([code EXCEPT ![c].minute = @ + 1])
      BY <1>1 DEF minutePasses
    <3>2. [code EXCEPT ![c].minute = @ + 1] = [code EXCEPT ![c] = row]
      BY <2>2
    <3> QED BY <3>1, <3>2 DEF CodesBecome
  <2>5. /\ row.user = code[c].user /\ row.email = code[c].email /\ row.type = code[c].type
        /\ row.password = code[c].password /\ row.live = code[c].live /\ row.attempt = code[c].attempt
        /\ row.wrong = code[c].wrong /\ row.sent = code[c].sent
    <3>1. code[c] \in CodeRows
      BY <1>0, <2>1
    <3> QED BY <1>r, <2>a, <2>b, <3>1
  <2> QED BY <1>w, <2>1, <2>3, <2>4, <2>5
<1>2. CASE codeExpires(c)
  <2>1. c \in DOMAIN code
    BY <1>2 DEF codeExpires, Rows
  <2>2. PICK row : row = [code[c] EXCEPT !.fresh = FALSE]
    OBVIOUS
  <2>3. row \in CodeRows
    BY <1>0, <2>1, <2>2, RowsChange
  <2>4. CodesBecome([code EXCEPT ![c] = row])
    <3>1. [code EXCEPT ![c].fresh = FALSE] = [code EXCEPT ![c] = row]
      BY <2>2
    <3> QED BY <1>2, <3>1 DEF codeExpires
  <2> QED BY <1>0, <1>r, <1>w, <2>1, <2>2, <2>3, <2>4
<1>3. CASE cleanupCodes
  <2>1. PICK C, codes : C = {d \in Rows : ~code[d].fresh} /\ codes = Without(C)
    OBVIOUS
  <2>2. CodesBecome(codes)
    BY <1>3, <2>1 DEF cleanupCodes
  <2>3. /\ Grown(codes) /\ Len(codes) = Len(code)
        /\ \A d \in DOMAIN code : codes[d].wrong = code[d].wrong /\ codes[d].sent = code[d].sent
                                  /\ codes[d].attempt = code[d].attempt
    BY <2>1, CodesWithout
  <2> QED BY <1>0, <2>2, <2>3, CodesAgeKeep
<1> QED BY <1>1, <1>2, <1>3

LEMMA AdminsOfTimeKeep ==
    ASSUME IInv, NEW h, NEW s, NEW u,
           \/ h \in DOMAIN challenge /\ challengeExpires(h)
           \/ s \in DOMAIN adminSession /\ (adminSessionExpires(s) \/ elevationEnds(s))
           \/ appealTokenExpires(u)
    PROVE  IInv'
<1> USE DEF IInv
<1>0. /\ appealing \subseteq Users
      /\ \A x \in DOMAIN challenge : challenge[x] \in ChallengeRows
      /\ \A x \in DOMAIN adminSession : adminSession[x] \in AdminSessionRows
  BY AdminRowsAreTyped DEF TablesTyped
<1>1. CASE h \in DOMAIN challenge /\ challengeExpires(h)
  <2>0. UNCHANGED <<plot, requestVars, account, codeVars, signedIn, deviceVars, profileVars, adminSession, appealing>>
    BY <1>1 DEF challengeExpires, ChallengesBecome, codeVars
  <2>1. PICK row : row = [challenge[h] EXCEPT !.fresh = FALSE]
    OBVIOUS
  <2>2. row \in ChallengeRows /\ row.user = challenge[h].user /\ row.purpose = challenge[h].purpose
    BY <1>0, <1>1, <2>1 DEF ChallengeRows
  <2>3. challenge' = [challenge EXCEPT ![h] = row]
    BY <1>1, <2>1 DEF challengeExpires, ChallengesBecome
  <2>4. ChallengesGrow
    BY <1>1, <2>2, <2>3, ChallengeChanges
  <2>5. SessionsEnd(adminSession')
    BY <2>0, SessionsAreRevoked
  <2> QED BY <1>0, <2>0, <2>4, <2>5, AdminsAgeKeep
<1>2. CASE s \in DOMAIN adminSession /\ (adminSessionExpires(s) \/ elevationEnds(s))
  <2>0. /\ UNCHANGED <<plot, requestVars, account, codeVars, signedIn, deviceVars, profileVars, challenge, appealing>>
        /\ \/ adminSession' = [adminSession EXCEPT ![s].fresh = FALSE]
           \/ adminSession' = [adminSession EXCEPT ![s].elevated = FALSE]
    BY <1>2 DEF adminSessionExpires, elevationEnds, SessionsBecome
  <2>1. PICK row : /\ row = [adminSession[s] EXCEPT !.fresh = FALSE] \/ row = [adminSession[s] EXCEPT !.elevated = FALSE]
                   /\ adminSession' = [adminSession EXCEPT ![s] = row]
    BY <2>0
  <2>2. /\ row \in AdminSessionRows /\ row.user = adminSession[s].user /\ row.proof = adminSession[s].proof
        /\ row.step = adminSession[s].step /\ (row.live => adminSession[s].live)
        /\ (row.elevated => adminSession[s].elevated)
    BY <1>0, <1>2, <2>1 DEF AdminSessionRows
  <2>3. SessionsEnd(adminSession')
    BY <1>2, <2>1, <2>2, SessionChanges
  <2>4. ChallengesGrow
    BY <2>0, ChallengesStay
  <2> QED BY <1>0, <2>0, <2>3, <2>4, AdminsAgeKeep
<1>3. CASE appealTokenExpires(u)
  <2>1. /\ UNCHANGED <<plot, requestVars, account, codeVars, signedIn, deviceVars, profileVars, challenge, adminSession>>
        /\ appealing' \subseteq appealing
    BY <1>3 DEF appealTokenExpires
  <2>2. ChallengesGrow /\ SessionsEnd(adminSession')
    BY <2>1, ChallengesStay, SessionsAreRevoked
  <2> QED BY <1>0, <2>1, <2>2, AdminsAgeKeep
<1> QED BY <1>1, <1>2, <1>3

LEMMA AccountsOfTimeKeep ==
    ASSUME IInv, NEW u \in Users, lockEnds(u) \/ profileExpires(u) \/ sanctionEnds(u) \/ weekPasses(u)
    PROVE  IInv'
<1> USE DEF IInv
<1>0. /\ account[u] \in Accounts_ /\ account \in [Users -> Accounts_] /\ suspect \subseteq Users
      /\ renames \in [Users -> Nat] /\ profile = [v \in Users |-> profile[v]]
      /\ \A q \in plot.requests : q.user \in Users
  BY AddressesOfRequests DEF TablesTyped, Commands
<1>1. /\ UNCHANGED <<plot, requestVars, codeVars, challenge, adminSession, appealing, signedIn, deviceVars, picture>>
      /\ UNCHANGED <<device, pushed, settings, pauses, clock, behind>>
  BY DEF lockEnds, profileExpires, sanctionEnds, weekPasses, AccountBecomes, adminVars, profileVars, deviceVars,
         settingVars
<1>2. UNCHANGED <<plot, pc, seen>> /\ \A P : Elsewhere(P)
  BY <1>1, NobodyMoves
<1>3. PausesSound'
  BY <1>1, <1>2, PausesAreLeftAlone
<1>t. ASSUME account' \in [Users -> Accounts_], suspect' \subseteq Users, renames' \in [Users -> Nat],
             profile' = [v \in Users |-> profile'[v]]
      PROVE  TablesTyped'
  BY <1>1, <1>t DEF TablesTyped, There
<1>k. ASSUME account' \in [Users -> Accounts_], \A v \in Users : Kept(v) /\ account'[v].wrong = account[v].wrong,
             UNCHANGED renames, suspect' \subseteq Users, profile' = [v \in Users |-> profile'[v]], ProfilesHold'
      PROVE  IInv'
  <2>1. TablesTyped'
    BY <1>0, <1>k, <1>t
  <2>2. AccountsSound'
    BY <1>1, <1>k, KeptAccountsStay
  <2>3. /\ \A v \in Users : account'[v].password = account[v].password /\ account'[v].wrong = account[v].wrong
        /\ \A v \in Users : account[v].state # "none" => account'[v].state # "none"
    BY <1>k DEF Kept
  <2> QED BY <1>1, <1>3, <1>k, <2>1, <2>2, <2>3, TablesAgeKeep
<1>4. CASE lockEnds(u)
  <2>1. PICK row : row = [account[u] EXCEPT !.locked = FALSE]
    OBVIOUS
  <2>2. account' = [account EXCEPT ![u] = row] /\ UNCHANGED <<suspect, renames, profile>>
    BY <1>4, <2>1 DEF lockEnds, AccountBecomes
  <2>3. /\ row \in Accounts_ /\ row.state = account[u].state /\ row.email = account[u].email
        /\ row.name = account[u].name /\ row.password = account[u].password
        /\ row.sanctioned = account[u].sanctioned /\ row.renamed = account[u].renamed
        /\ row.avatar = account[u].avatar /\ row.cover = account[u].cover
        /\ row.mobile = account[u].mobile /\ row.wrong = account[u].wrong
    BY <1>0, <2>1 DEF Accounts_
  <2>4. account' \in [Users -> Accounts_] /\ \A v \in Users : Kept(v) /\ account'[v].wrong = account[v].wrong
    BY <1>0, <2>2, <2>3 DEF Kept
  <2>5. ProfilesStay
    BY <1>1, <2>4, KeptAccountsStay
  <2>6. ProfilesHold'
    BY <1>2, <2>2, <2>5, ProfilesAreLeftAlone DEF ProfilesHold
  <2> QED BY <1>0, <1>k, <2>2, <2>4, <2>6
<1>5. CASE profileExpires(u)
  <2>0. suspect' = IF Filling(u) THEN suspect ELSE suspect \ {u}
    BY <1>5 DEF profileExpires, ProfileGoes
  <2>1. /\ UNCHANGED <<account, renames>> /\ profile' = [profile EXCEPT ![u] = NoProfile]
        /\ suspect' \subseteq Users /\ suspect \ {u} \subseteq suspect'
        /\ Filling(u) => suspect' = suspect
    BY <1>0, <1>5, <2>0 DEF profileExpires, ProfileGoes
  <2>2. account' \in [Users -> Accounts_] /\ \A v \in Users : Kept(v) /\ account'[v].wrong = account[v].wrong
    BY <1>0, <2>1 DEF Kept
  <2>3. profile' = [v \in Users |-> profile'[v]] /\ ~profile'[u].full /\ \A v \in Users \ {u} : profile'[v] = profile[v]
    BY <1>0, <2>1 DEF NoProfile
  <2>4. \A v \in Users : Profile(v)' = Profile(v) /\ (Dropping(v) <=> Dropping(v)')
    BY <1>2, <2>1 DEF Profile, Dropping
  <2>5. ProfilesSound'
    <3>1. ASSUME NEW v \in Users, profile'[v].full
          PROVE  account'[v].state # "none" /\ (v \in suspect' \/ Dropping(v)' \/ profile'[v].shows = Profile(v)')
      BY <2>1, <2>3, <2>4, <3>1 DEF ProfilesSound
    <3>2. ASSUME NEW q \in plot.requests, pc'[q] = "fill"
          PROVE  account'[q.user].state # "none" /\ (q.user \in suspect' \/ seen'[q].set = {Profile(q.user)'})
      <4>1. pc[q] = "fill" /\ account[q.user].state # "none" /\ (q.user \in suspect \/ seen[q].set = {Profile(q.user)})
        BY <1>2, <3>2 DEF ProfilesSound
      <4>2. q.user = u => Filling(u)
        BY <4>1 DEF Filling
      <4> QED BY <1>0, <1>2, <2>1, <2>4, <4>1, <4>2
    <3> QED BY <1>2, <3>1, <3>2 DEF ProfilesSound
  <2>6. RenamesSound'
    BY <1>2, <2>1 DEF RenamesSound
  <2> QED BY <1>k, <2>1, <2>2, <2>3, <2>5, <2>6 DEF ProfilesHold
<1>6. CASE sanctionEnds(u) \/ weekPasses(u)
  <2>1. PICK row : /\ row = [account[u] EXCEPT !.sanctioned = FALSE] \/ row = [account[u] EXCEPT !.renamed = FALSE]
                   /\ account' = [account EXCEPT ![u] = row]
                   /\ sanctionEnds(u) => row = [account[u] EXCEPT !.sanctioned = FALSE]
                   /\ weekPasses(u) => row = [account[u] EXCEPT !.renamed = FALSE]
    <3>1. CASE sanctionEnds(u) /\ ~weekPasses(u)
      BY <3>1 DEF sanctionEnds
    <3>2. CASE weekPasses(u) /\ ~sanctionEnds(u)
      BY <3>2 DEF weekPasses
    <3>3. CASE sanctionEnds(u) /\ weekPasses(u)
      <4>1. /\ account' = [account EXCEPT ![u] = [account[u] EXCEPT !.sanctioned = FALSE]]
            /\ account' = [account EXCEPT ![u] = [account[u] EXCEPT !.renamed = FALSE]]
        BY <3>3 DEF sanctionEnds, weekPasses
      <4>2. [account[u] EXCEPT !.sanctioned = FALSE] = [account[u] EXCEPT !.renamed = FALSE]
        BY <1>0, <4>1
      <4> QED BY <4>1, <4>2
    <3> QED BY <1>6, <3>1, <3>2, <3>3
  <2>2. /\ row \in Accounts_ /\ row.state = account[u].state /\ row.email = account[u].email
        /\ row.name = account[u].name /\ row.password = account[u].password /\ row.avatar = account[u].avatar
        /\ row.cover = account[u].cover /\ row.mobile = account[u].mobile /\ row.wrong = account[u].wrong
    <3>1. account[u] \in Accounts_
      BY <1>0
    <3>2. CASE row = [account[u] EXCEPT !.sanctioned = FALSE]
      BY <3>1, <3>2 DEF Accounts_
    <3>3. CASE row = [account[u] EXCEPT !.renamed = FALSE]
      BY <3>1, <3>3 DEF Accounts_
    <3> QED BY <2>1, <3>2, <3>3
  <2>3. account' \in [Users -> Accounts_] /\ account'[u] = row /\ \A v \in Users \ {u} : account'[v] = account[v]
    BY <1>0, <2>1, <2>2
  <2>4. /\ \A v \in Users : account'[v].password = account[v].password /\ account'[v].wrong = account[v].wrong
        /\ \A v \in Users : account'[v].state = account[v].state /\ account'[v].email = account[v].email
    BY <2>2, <2>3
  <2>5. AccountsSound'
    <3>1. ASSUME NEW v \in Users PROVE PicturesOf(account[v])' = PicturesOf(account[v]) /\ There' = There
      BY <1>1, <2>2, <2>3 DEF PicturesOf, There
    <3> QED BY <2>4, <3>1 DEF AccountsSound
  <2>6. \A v \in Users \ {u} : Profile(v)' = Profile(v)
    BY <2>3 DEF Profile
  <2>7. \A v \in Users : Dropping(v) <=> Dropping(v)'
    BY <1>2 DEF Dropping
  <2>8. CASE sanctionEnds(u)
    <3>1. /\ row = [account[u] EXCEPT !.sanctioned = FALSE] /\ account[u].sanctioned /\ renames' = renames
          /\ suspect \subseteq suspect' /\ suspect' \subseteq suspect \cup {u}
          /\ (\E q \in plot.requests : q.user = u /\ pc[q] = "fill") => u \in suspect'
          /\ profile' = [profile EXCEPT ![u] = IF profile[u].shows.status = "sanctioned" THEN NoProfile ELSE profile[u]]
      BY <2>1, <2>8 DEF sanctionEnds, ProfileChanges, Filling
    <3>2. row.renamed = account[u].renamed
      BY <1>0, <3>1 DEF Accounts_
    <3>3. RenamesSound'
      <4>1. \A v \in Users : account'[v].renamed = account[v].renamed /\ account'[v].state = account[v].state
        BY <2>3, <2>4, <3>2
      <4>2. /\ renames' = renames /\ plot' = plot
            /\ \A q \in plot.requests : pc'[q] = "rename" => pc[q] = "rename"
        BY <1>0, <1>2, <3>1
      <4>3. \A v \in Users : /\ renames'[v] = IF account'[v].renamed THEN 1 ELSE 0
                             /\ account'[v].state = "none" => ~account'[v].renamed
        BY <4>1, <4>2 DEF RenamesSound
      <4>4. \A q \in plot.requests : pc'[q] = "rename" => account'[q.user].state # "none"
        BY <1>0, <2>4, <4>2 DEF RenamesSound
      <4> QED BY <4>2, <4>3, <4>4 DEF RenamesSound
    <3>4. ASSUME NEW q \in plot.requests, pc'[q] = "fill"
          PROVE  account'[q.user].state # "none" /\ (q.user \in suspect' \/ seen'[q].set = {Profile(q.user)'})
      <4>1. pc[q] = "fill" /\ account[q.user].state # "none" /\ (q.user \in suspect \/ seen[q].set = {Profile(q.user)})
        BY <1>2, <3>4 DEF ProfilesSound
      <4>2. CASE q.user = u
        BY <2>4, <3>1, <4>1, <4>2
      <4>3. CASE q.user # u
        BY <1>0, <1>2, <2>4, <2>6, <3>1, <4>1, <4>3
      <4> QED BY <4>2, <4>3
    <3>5. ASSUME NEW v \in Users, profile'[v].full
          PROVE  account'[v].state # "none" /\ (v \in suspect' \/ Dropping(v)' \/ profile'[v].shows = Profile(v)')
      <4>1. CASE v = u
        <5>1. profile'[u] = profile[u] /\ profile[u].shows.status # "sanctioned" /\ profile[u].full
          BY <1>0, <3>1, <3>5, <4>1 DEF NoProfile
        <5>2. account[u].state # "none" /\ (u \in suspect \/ Dropping(u) \/ profile[u].shows = Profile(u))
          BY <5>1 DEF ProfilesSound
        <5>3. profile[u].shows = Profile(u) => account[u].state = "deleted" /\ Profile(u)' = Profile(u)
          BY <2>4, <3>1, <5>1, <5>2 DEF Profile
        <5> QED BY <2>4, <2>7, <3>1, <4>1, <5>1, <5>2, <5>3
      <4>2. CASE v # u
        <5>1. profile'[v] = profile[v]
          BY <1>0, <3>1, <4>2
        <5>2. account[v].state # "none" /\ (v \in suspect \/ Dropping(v) \/ profile[v].shows = Profile(v))
          BY <3>5, <5>1 DEF ProfilesSound
        <5> QED BY <2>4, <2>6, <2>7, <3>1, <4>2, <5>1, <5>2
      <4> QED BY <4>1, <4>2
    <3>6. ProfilesSound'
      BY <1>2, <3>4, <3>5 DEF ProfilesSound
    <3>7. TablesTyped'
      <4>1. suspect' \subseteq Users /\ profile' = [v \in Users |-> profile'[v]]
        BY <1>0, <3>1
      <4> QED BY <1>0, <1>t, <2>3, <3>1, <4>1
    <3> QED BY <1>1, <1>3, <2>4, <2>5, <3>3, <3>6, <3>7, TablesAgeKeep DEF ProfilesHold
  <2>9. CASE weekPasses(u)
    <3>1. /\ row = [account[u] EXCEPT !.renamed = FALSE] /\ renames' = [renames EXCEPT ![u] = 0]
          /\ UNCHANGED <<suspect, profile>>
      BY <2>1, <2>9 DEF weekPasses
    <3>2. ~row.renamed /\ row.sanctioned = account[u].sanctioned
      BY <1>0, <3>1 DEF Accounts_
    <3>3. RenamesSound'
      <4>1. \A v \in Users : renames'[v] = (IF account'[v].renamed THEN 1 ELSE 0)
                             /\ (account'[v].state = "none" => ~account'[v].renamed)
        <5>1. renames'[u] = 0 /\ \A v \in Users \ {u} : renames'[v] = renames[v]
          BY <1>0, <3>1
        <5> QED BY <2>3, <3>2, <5>1 DEF RenamesSound
      <4> QED BY <1>0, <1>2, <2>4, <4>1 DEF RenamesSound
    <3>4. \A v \in Users : Profile(v)' = Profile(v)
      BY <2>2, <2>3, <3>2 DEF Profile
    <3>5. ProfilesSound'
      <4>1. ASSUME NEW v \in Users, profile'[v].full
            PROVE  account'[v].state # "none" /\ (v \in suspect' \/ Dropping(v)' \/ profile'[v].shows = Profile(v)')
        BY <2>4, <2>7, <3>1, <3>4, <4>1 DEF ProfilesSound
      <4>2. ASSUME NEW q \in plot.requests, pc'[q] = "fill"
            PROVE  account'[q.user].state # "none" /\ (q.user \in suspect' \/ seen'[q].set = {Profile(q.user)'})
        BY <1>0, <1>2, <2>4, <3>1, <3>4, <4>2 DEF ProfilesSound
      <4> QED BY <1>2, <4>1, <4>2 DEF ProfilesSound
    <3>6. TablesTyped'
      BY <1>0, <1>t, <2>3, <3>1
    <3> QED BY <1>1, <1>3, <2>4, <2>5, <3>3, <3>5, <3>6, TablesAgeKeep DEF ProfilesHold
  <2> QED BY <1>6, <2>8, <2>9
<1> QED BY <1>4, <1>5, <1>6

LEMMA OthersOfTimeKeep ==
    ASSUME IInv, NEW m, NEW v, reclaim(m) \/ (v \in Servers /\ pausesExpire(v)) \/ timePasses \/ UNCHANGED vars
    PROVE  IInv'
<1> USE DEF IInv
<1>0. /\ UNCHANGED <<plot, requestVars, account, codeVars, adminVars, signedIn, device, pushed, settings, profile, suspect, renames>>
      /\ UNCHANGED <<challenge, adminSession, appealing>>
  BY DEF reclaim, pausesExpire, Dropped, PausesBecome, timePasses, vars, tableVars, deviceVars, settingVars,
         profileVars, adminVars
<1>1. UNCHANGED <<plot, pc, seen>> /\ \A P : Elsewhere(P)
  BY <1>0, NobodyMoves
<1>2. /\ \A u \in Users : account'[u].password = account[u].password /\ account'[u].wrong = account[u].wrong
      /\ \A u \in Users : account[u].state # "none" => account'[u].state # "none"
  BY <1>0
<1>3. ProfilesHold'
  <2>1. ProfilesStay
    BY <1>0 DEF ProfilesStay, RenamesSound, Profile
  <2> QED BY <1>0, <1>1, <2>1, ProfilesAreLeftAlone DEF ProfilesHold
<1>4. CASE UNCHANGED picture
  <2>1. AccountsSound'
    BY <1>0, <1>4 DEF AccountsSound, PicturesOf, There
  <2>2. PausesSound' /\ pauses' \in [Servers -> Pauses] /\ behind' \subseteq Servers /\ clock' \in Times
    <3>1. CASE v \in Servers /\ pausesExpire(v)
      <4>1. Dropped(v) /\ clock' = clock
        BY <3>1 DEF pausesExpire, Dropped, PausesBecome
      <4>2. /\ \A q \in plot.requests : pc'[q] = "fill pauses" => pc[q] = "fill pauses" /\ seen'[q] = seen[q]
            /\ \A q \in plot.requests : pc[q] = "drop pauses" /\ q.server # v => pc'[q] = "drop pauses"
        BY <1>1
      <4>3. PausesSound' /\ pauses' \in [Servers -> Pauses] /\ behind' \subseteq Servers
        BY <1>0, <3>1, <4>1, <4>2, DropsKeep
      <4>4. clock' \in Times
        BY <4>1 DEF TablesTyped
      <4> QED BY <4>3, <4>4
    <3>2. CASE UNCHANGED <<pauses, behind>>
      <4>1. PausesSound'
        BY <1>0, <1>1, <3>2, PausesAreLeftAlone
      <4>2. clock' \in Times
        BY DEF reclaim, pausesExpire, Dropped, PausesBecome, timePasses, vars, tableVars, deviceVars, settingVars,
               TablesTyped
      <4> QED BY <3>2, <4>1, <4>2 DEF TablesTyped
    <3>3. (v \in Servers /\ pausesExpire(v)) \/ UNCHANGED <<pauses, behind>>
      BY DEF reclaim, timePasses, vars, tableVars, deviceVars, settingVars
    <3> QED BY <3>1, <3>2, <3>3
  <2>3. TablesTyped'
    BY <1>0, <1>4, <2>2 DEF TablesTyped, There
  <2> QED BY <1>0, <1>2, <1>3, <2>1, <2>2, <2>3, TablesAgeKeep
<1>5. CASE reclaim(m)
  <2>1. /\ \A u \in Users : m \notin {account[u].avatar, account[u].cover, account[u].mobile}
        /\ picture' = [x \in There \ {m} |-> picture[x]] /\ UNCHANGED <<pauses, clock, behind>>
    BY <1>5 DEF reclaim, deviceVars, settingVars
  <2>2. There' = There \ {m} /\ \A x \in There' : picture'[x] = picture[x]
    BY <2>1 DEF There
  <2>3. AccountsSound'
    <3>1. ASSUME NEW u \in Users PROVE PicturesOf(account[u])' \subseteq There'
      BY <1>0, <2>1, <2>2 DEF AccountsSound, PicturesOf
    <3> QED BY <1>0, <3>1 DEF AccountsSound
  <2>4. TablesTyped'
    BY <1>0, <2>1, <2>2 DEF TablesTyped
  <2>5. PausesSound'
    BY <1>0, <1>1, <2>1, PausesAreLeftAlone
  <2> QED BY <1>0, <1>2, <1>3, <2>3, <2>4, <2>5, TablesAgeKeep
<1>6. reclaim(m) \/ UNCHANGED picture
  BY DEF pausesExpire, Dropped, PausesBecome, timePasses, vars, tableVars, profileVars
<1> QED BY <1>4, <1>5, <1>6

-------------------------------------------------------------------------------
(* The invariant is one *)

LEMMA SinglesAreSmall ==
    ASSUME NEW S, \A x, y \in S : x = y
    PROVE  Cardinality(S) <= 1
<1>1. CASE S = {}
  BY <1>1, FS_EmptySet
<1>2. CASE S # {}
  <2>1. PICK x : x \in S
    BY <1>2
  <2>2. S = {x}
    BY <2>1
  <2> QED BY <2>2, FS_Singleton
<1> QED BY <1>1, <1>2

LEMMA StartIsSound == Init => IInv
<1> SUFFICES ASSUME Init PROVE IInv
  OBVIOUS
<1> USE DEF Init
<1>0. /\ plot \in Plots /\ TablesStart(plot) /\ CodesStart(plot) /\ RequestsStart(plot)
      /\ Times \subseteq Nat /\ 0 \in Times /\ MaxTries \in Nat \ {0}
  BY Plotted, AccountsAssumption
<1>1. RequestsTyped
  <2>1. \A q \in plot.requests : seen[q] = NoSight
    OBVIOUS
  <2> QED BY <1>0, <2>1, NoSightIsSight DEF RequestsTyped
<1>2. CodesTyped
  BY <1>0 DEF CodesTyped, CodesStart
<1>3. NoPause \in Settings
  BY <1>0 DEF NoPause, Settings
<1>4. TablesTyped
  <2>1. account \in [Users -> Accounts_] /\ adminSession \in Seq(AdminSessionRows) /\ signedIn \subseteq Users \X Sessions
        /\ \A m \in There : picture[m] \in PictureRows
    BY <1>0 DEF TablesStart, CodesStart, There
  <2>2. challenge \in Seq(ChallengeRows) /\ device \in Seq(DeviceRows)
    OBVIOUS
  <2>3. pauses \in [Servers -> Pauses] /\ settings \in Settings /\ clock \in Times
    BY <1>0, <1>3 DEF Pauses, NoPauses
  <2>4. profile = [u \in Users |-> profile[u]] /\ renames \in [Users -> Nat]
    OBVIOUS
  <2> QED BY <2>1, <2>2, <2>3, <2>4 DEF TablesTyped
<1>5. CodesSound
  BY <1>0 DEF CodesStart, CodesSound
<1>6. \A q \in plot.requests : pc[q] = "new" /\ seen[q] = NoSight
  OBVIOUS
<1>7. CodeSights
  BY <1>6 DEF CodeSights, CodeSight, Asking_, NoSight
<1>8. MailsSound /\ Confirmations
  BY DEF MailsSound, Confirmations
<1>9. Spaced
  BY <1>0 DEF Spaced, MailIsSpaced, CodesStart, Rows
<1>10. Counts
  <2>1. \A what, x : MissesAt(what, x) = {}
    BY DEF MissesAt
  <2>2. \A c \in Rows : code[c].wrong = 0
    BY <1>0 DEF CodesStart, Rows
  <2>3. \A u \in Users : account[u].wrong = 0
    BY <1>0 DEF TablesStart
  <2>4. IsFiniteSet(misses) /\ misses = {}
    BY FS_EmptySet
  <2>5. \A what, x : Cardinality(MissesAt(what, x)) = 0
    BY <2>1, FS_EmptySet
  <2>6. \A c \in Rows : code[c].wrong = Cardinality(MissesAt("code", c)) /\ code[c].wrong < MaxTries
    <3>1. 0 < MaxTries
      BY <1>0
    <3> QED BY <2>2, <2>5, <3>1
  <2>7. \A u \in Users : account[u].wrong = Cardinality(MissesAt("password", u))
    BY <2>3, <2>5
  <2> QED BY <2>4, <2>6, <2>7 DEF Counts
<1>11. AccountsSound /\ TerminalsSound /\ DevicesSound
  BY <1>0 DEF TablesStart, AccountsSound, TerminalsSound, DevicesSound, There, Devices
<1>12. AdminSessionsSound
  BY <1>0 DEF AdminSessionsSound, CodesStart
<1>13. AdminSights
  BY <1>6 DEF AdminSights, AdminSight
<1>14. RenamesSound /\ ProfilesSound
  <2>1. RenamesSound
    <3>1. ASSUME NEW u \in Users
          PROVE  /\ renames[u] = IF account[u].renamed THEN 1 ELSE 0
                 /\ account[u].state = "none" => ~account[u].renamed
      BY <1>0 DEF TablesStart
    <3> QED BY <1>6, <3>1 DEF RenamesSound
  <2>2. \A u \in Users : ~profile[u].full
    BY DEF NoProfile
  <2> QED BY <1>6, <2>1, <2>2 DEF ProfilesSound
<1>15. PausesSound
  BY <1>6 DEF PausesSound, PausesTakeHold, NoPauses
<1>16. TerminalsBegin /\ PushesSound
  <2>1. \A x \in signedIn : ~NotYet(x)
    BY <1>0 DEF NotYet, RequestsStart
  <2> QED BY <1>6, <2>1 DEF TerminalsBegin, PushesSound, PushesEndWithTheSession
<1> QED BY <1>1, <1>2, <1>4, <1>5, <1>7, <1>8, <1>9, <1>10, <1>11, <1>12, <1>13, <1>14, <1>15, <1>16 DEF IInv

LEMMA StepsKeep == IInv /\ [Next]_vars => IInv'
<1> SUFFICES ASSUME IInv, [Next]_vars PROVE IInv'
  OBVIOUS
<1>1. ASSUME NEW r \in plot.requests, CodeActions(r) \/ AdminActions(r) \/ UserActions(r) \/ DeviceActions(r)
      PROVE  IInv'
  <2>1. AdminActions(r) => AdminSteps(r) \/ PauseSteps(r)
    BY DEF AdminActions, AdminSteps, PauseSteps
  <2> QED BY <1>1, <2>1, CodeStepsKeep, AdminStepsKeep, PauseStepsKeep, UserStepsKeep, DeviceStepsKeep
<1>2. CASE Time
  <2>1. CASE cleanupCodes \/ \E c \in Numbers : minutePasses(c) \/ codeExpires(c)
    BY <2>1, CodesOfTimeKeep
  <2>2. CASE \E h \in Numbers : h \in DOMAIN challenge /\ challengeExpires(h)
    BY <2>2, AdminsOfTimeKeep
  <2>3. CASE \E s \in Numbers : s \in DOMAIN adminSession /\ (adminSessionExpires(s) \/ elevationEnds(s))
    BY <2>3, AdminsOfTimeKeep
  <2>4. CASE \E u \in Users : lockEnds(u) \/ appealTokenExpires(u) \/ profileExpires(u) \/ sanctionEnds(u) \/ weekPasses(u)
    BY <2>4, AdminsOfTimeKeep, AccountsOfTimeKeep
  <2>5. CASE timePasses \/ (\E m \in Media : reclaim(m)) \/ (\E v \in Servers : pausesExpire(v))
    BY <2>5, OthersOfTimeKeep
  <2> QED BY <1>2, <2>1, <2>2, <2>3, <2>4, <2>5 DEF Time
<1>3. CASE UNCHANGED vars
  BY <1>3, OthersOfTimeKeep
<1> QED BY <1>1, <1>2, <1>3 DEF Next

(* The invariant, from which everything below follows. *)
THEOREM AccountsAreInvariant == Spec => []IInv
  BY StartIsSound, StepsKeep, PTL DEF Spec

-------------------------------------------------------------------------------
(* What follows *)

(* A code that is left belongs to the password its account has.  Where a *)
(* password is renewed, the codes of its user go in the same transaction *)
(* (AuthService.resetPassword, changePassword and verifyChangeEmail),    *)
(* and those that are being asked for with the old password come too     *)
(* late.                                                                 *)
THEOREM CodesEndWithThePassword == Spec => []SecretsEndTogether
<1>1. IInv => SecretsEndTogether
  BY DEF IInv, CodesSound, SecretsEndTogether, Rows
<1> QED BY <1>1, AccountsAreInvariant, PTL

(* A name changes once in seven days, what is cached of a profile is the *)
(* profile unless a change is about to drop it, ran into the reading of  *)
(* it or could not drop it (CacheService.del), and a switch that was     *)
(* thrown or released is judged by (UsersService and                     *)
(* SiteOperationalSettingsService).                                      *)
THEOREM NamesAreHeld == Spec => []NamesHold
<1>1. IInv => NamesHold
  <2> SUFFICES ASSUME IInv PROVE NamesHold
    OBVIOUS
  <2>1. PausesTakeHold
    BY DEF IInv, PausesSound
  <2>2. \A u \in Users : renames[u] <= 1
    <3>1. \A u \in Users : renames[u] = 0 \/ renames[u] = 1
      BY DEF IInv, RenamesSound
    <3> QED BY <3>1
  <2>3. \A u \in Users : \/ ~profile[u].full \/ u \in suspect
                         \/ \E r \in plot.requests : r.user = u /\ pc[r] = "invalidate"
                         \/ profile[u].shows = Profile(u)
    BY DEF IInv, ProfilesSound, Dropping
  <2> QED BY <2>1, <2>2, <2>3 DEF NamesHold
<1> QED BY <1>1, AccountsAreInvariant, PTL

(* No push goes to a terminal that had ended when its job began, nor to  *)
(* another user's device (MobilePushProcessor), whatever becomes of the  *)
(* device between the reading of its row and the push.                   *)
THEOREM PushesEnd == Spec => []PushesEndWithTheSession
<1>1. IInv => PushesEndWithTheSession
  BY DEF IInv, PushesSound
<1> QED BY <1>1, AccountsAreInvariant, PTL

(* The rows have their types, and the unique keys keep apart what they   *)
(* are to keep apart: one terminal for a user, one device for a terminal *)
(* and for a phone, one live session of an administrator.                *)
LEMMA RowsAreKeptApart == ASSUME IInv PROVE TypeOK /\ RowsAreDistinct
<1> USE DEF IInv
<1>1. TypeOK
  <2>1. /\ \A c \in DOMAIN code : code[c] \in CodeRows
        /\ \A v \in Servers : pauses[v].shows \in Settings
    BY RowsAreTyped DEF TablesTyped, Pauses
  <2>2. /\ \A h \in DOMAIN challenge : challenge[h] \in ChallengeRows
        /\ \A s \in DOMAIN adminSession : adminSession[s] \in AdminSessionRows
        /\ \A i \in DOMAIN device : device[i] \in DeviceRows
    BY AdminRowsAreTyped, DeviceRowsAreTyped
  <2> QED BY <2>1, <2>2 DEF TablesTyped, TypeOK
<1>2. ASSUME NEW u \in Users
      PROVE  Cardinality(SessionsOf(u)) <= 1
  <2>1. \A x, y \in SessionsOf(u) : x = y
    BY DEF SessionsOf, TerminalsSound
  <2> QED BY <2>1, SinglesAreSmall
<1>3. ASSUME NEW u \in Users
      PROVE  Cardinality({s \in AdminSessionsOf(u) : adminSession[s].live}) <= 1
  <2>1. \A s, t \in {s \in AdminSessionsOf(u) : adminSession[s].live} : s = t
    BY DEF AdminSessionsOf, AdminSessionsSound
  <2> QED BY <2>1, SinglesAreSmall
<1> QED BY <1>1, <1>2, <1>3 DEF RowsAreDistinct, DevicesSound, AccountsSound

(* Guesses are counted, by code and by password, and a code that may     *)
(* still be entered has tries left; whatever a code confirms, it was     *)
(* mailed to the address it confirms, and once; an administrator's       *)
(* session was opened and elevated by challenges made and mailed for     *)
(* that purpose; and a code is mailed at most once a minute              *)
(* (VerificationCodeService, AuthService, AppealAccessService and        *)
(* AdminAuthService).                                                    *)
THEOREM CodesAreHeld == Spec => []CodesHold
<1>1. IInv => CodesHold
  <2> SUFFICES ASSUME IInv PROVE CodesHold
    OBVIOUS
  <2> USE DEF IInv
  <2>1. NobodyGuesses
    BY RowsAreKeptApart DEF NobodyGuesses, Counts, MissesAt
  <2>2. AddressesAreProven
    <3>1. ASSUME NEW s \in DOMAIN adminSession
          PROVE  /\ adminSession[s].proof # 0 => Proven(adminSession[s].proof, adminSession[s].user, "LOGIN")
                 /\ adminSession[s].step # 0 => Proven(adminSession[s].step, adminSession[s].user, "STEP_UP")
                 /\ adminSession[s].elevated => adminSession[s].step # 0
      BY DEF AdminSessionsSound
    <3> QED BY <3>1 DEF AddressesAreProven, Confirmations, Proven
  <2>3. MailIsSpaced
    BY DEF Spaced
  <2> QED BY <2>1, <2>2, <2>3 DEF CodesHold
<1> QED BY <1>1, AccountsAreInvariant, PTL

===============================================================================
