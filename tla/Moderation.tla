------------------------------ MODULE Moderation ------------------------------
(***************************************************************************)
(* ModerationService and AdminAccountsService: administrators hide and       *)
(* restore what is published, sanction users, and become administrators.     *)
(* Hiding locks the thread, or the moment and its comment; a thread or a     *)
(* post is restored without a lock.  ReportsService and                      *)
(* ModerationCasesService: members report what they see and appeal against   *)
(* decisions about them; administrators close reports and cases, and         *)
(* answer appeals.  Reported direct messages are left out.                   *)
(***************************************************************************)
EXTENDS Moments

-------------------------------------------------------------------------------
(* Hiding and restoring *)

(* The thread and the subthread of a post are there for everybody. *)
Reachable(p) == p \in public /\ item[p].on \in public /\ Shown(item[p].on)

CanHide(i) ==
    /\ Shown(i)
    /\ i \in Threads => i \in public
    /\ i \in Posts => Reachable(i)
    /\ i \in Comments => Shown(item[i].on)

(* markNotificationsReadForHiddenContent: what is below it, too. *)
Below(i) == {j \in Items : j = i \/ item[j].root = i \/ (item[j].on = i /\ i \in Threads \cup Moments)}

(* hideContentInTransaction, for a decision d or for none. *)
Hides(i, d) ==
    /\ item' = [item EXCEPT ![i].state = "ADMIN"]
    /\ hiddenBy' = [hiddenBy EXCEPT ![i] = d]
    /\ pinned' = pinned \ (IF i \in Posts THEN {i} ELSE Below(i))
    /\ unread' = unread \ Below(i)
    /\ counts' = IF i \in Comments THEN [counts EXCEPT ![item[i].on].comments = @ - 1] ELSE counts
    /\ UNCHANGED <<public, relationVars, likes, bookmarks, folders>>

HiddenByAdmin(i) == item[i].state = "ADMIN"

CanRestore(i) ==
    /\ HiddenByAdmin(i)
    /\ i \in Threads => i \in public
    /\ i \in Posts => Reachable(i)
    /\ i \in Comments => Shown(item[i].on)

Restores(i) ==
    /\ item' = [item EXCEPT ![i].state = "shown"]
    /\ counts' = IF i \in Comments THEN [counts EXCEPT ![item[i].on].comments = @ + 1] ELSE counts
    /\ UNCHANGED <<public, pinned, unread, hiddenBy, relationVars, likes, bookmarks, folders>>

hideContent(r) ==
    /\ ByAdmin(r, "hide")
    /\ \/ ~CanHide(r.about) /\ Refused(r)
       \/ /\ CanHide(r.about)
          /\ Hides(r.about, 0)
          /\ Done(r)
          /\ UNCHANGED <<caseVars, accountVars>>

Locked(i) == i \in Moments \cup Comments

readRestore(r) ==
    /\ ByAdmin(r, "restore")
    /\ \/ Reads(r, "restore", NoSight) /\ CanRestore(r.about)
       \/ Refused(r) /\ ~CanRestore(r.about)

(* Mutant of Restorable: that it is removed is looked at again, but not by whom. *)
RestorableIfRemoved(i) == ~Shown(i)

(* A moment or a comment is looked at under its lock. *)
Restorable(i) == Locked(i) => CanRestore(i)

restoreContent(r) ==
    /\ At(r, "restore", "restore")
    /\ \/ ~Restorable(r.about) /\ Refused(r)
       \/ /\ Restorable(r.about)
          /\ Restores(r.about)
          /\ Done(r)
          /\ UNCHANGED <<caseVars, accountVars>>

(* Authors remove threads and posts, or close them to the public. *)
withdraw(r) ==
    /\ Arrives(r, "withdraw")
    /\ r.about \in Threads \cup Posts
    /\ item[r.about].author = r.user /\ Shown(r.about)
    /\ \/ /\ item' = [item EXCEPT ![r.about].state = IF r.about \in Threads THEN "OWNER" ELSE "AUTHOR"]
          /\ hiddenBy' = [hiddenBy EXCEPT ![r.about] = 0]
          /\ pinned' = pinned \ Below(r.about)
          /\ unread' = unread \ Below(r.about)
          /\ UNCHANGED public
       \/ /\ public' = public \ {r.about}
          /\ UNCHANGED <<item, hiddenBy, pinned, unread>>
    /\ Done(r)
    /\ UNCHANGED <<relationVars, momentVars, caseVars, accountVars>>

-------------------------------------------------------------------------------
(* Sanctions *)

(* assertCanSanction, and the user is there. *)
MaySanction(actor, actorRole, u) ==
    /\ u \notin gone
    /\ actor # u
    /\ role[u] # "SUPER_ADMIN"
    /\ actorRole = "ADMIN" => role[u] = "USER"

OpenOf(u) == {s \in DOMAIN sanction : sanction[s].user = u /\ ~sanction[s].revoked}

(* The unique index of open sanctions, which the row of the user guards;   *)
(* only a ban replaces a suspension that is in effect.                     *)
CanSanction(actor, actorRole, u, ban) ==
    /\ MaySanction(actor, actorRole, u)
    /\ \A s \in OpenOf(u) : Effective(sanction[s]) => ban /\ ~sanction[s].ban

(* applySanctionInTransaction *)
Sanctions(u, ban, d) ==
    /\ sanction' = Append([s \in DOMAIN sanction |->
                              IF s \in OpenOf(u) THEN [sanction[s] EXCEPT !.revoked = TRUE] ELSE sanction[s]],
                          [user |-> u, ban |-> ban, ended |-> FALSE, revoked |-> FALSE, decision |-> d])
    /\ tokens' = tokens \ {u}
    /\ UNCHANGED <<role, invite, stations>>

Ban(r) == r.what = "BAN_USER"

sanctionUser(r) ==
    /\ ByAdmin(r, "sanction")
    /\ LET possible == CanSanction(r.user, role[r.user], r.about, Ban(r))
       IN  \/ ~possible /\ Refused(r)
           \/ /\ possible
              /\ Sanctions(r.about, Ban(r), 0)
              /\ Done(r)
              /\ UNCHANGED <<relationVars, momentVars, itemVars, caseVars>>

EffectiveOf(u) == {s \in OpenOf(u) : Effective(sanction[s])}

(* The sanction in effect is read without a lock ... *)
readRevoke(r) ==
    /\ ByAdmin(r, "revokeSanction")
    /\ LET possible == MaySanction(r.user, role[r.user], r.about) /\ EffectiveOf(r.about) # {}
       IN  \/ ~possible /\ Refused(r)
           \/ /\ possible
              /\ \E s \in EffectiveOf(r.about) : Reads(r, "revoke", [NoSight EXCEPT !.n = s])

(* ... and revoked, revoked or not by then. *)
revokeSanction(r) ==
    /\ At(r, "revokeSanction", "revoke")
    /\ sanction' = [sanction EXCEPT ![seen[r].n].revoked = TRUE]
    /\ Done(r)
    /\ UNCHANGED <<relationVars, momentVars, itemVars, caseVars, role, invite, tokens, stations>>

suspensionEnds(s) ==
    /\ s \in DOMAIN sanction
    /\ ~sanction[s].ban /\ ~sanction[s].ended
    /\ sanction' = [sanction EXCEPT ![s].ended = TRUE]
    /\ UNCHANGED <<plot, relationVars, momentVars, itemVars, caseVars, role, invite, tokens, stations, requestVars>>

-------------------------------------------------------------------------------
(* Administrators *)

(* One open invitation of a user: its unique index. *)
Invited(u) == \E n \in DOMAIN invite : invite[n].user = u /\ invite[n].status = "PENDING"

inviteAdmin(r) ==
    /\ BySuper(r, "invite")
    /\ LET possible == r.about \notin gone /\ role[r.about] = "USER" /\ ~Invited(r.about)
       IN  \/ ~possible /\ Refused(r)
           \/ /\ possible
              /\ invite' = Append(invite, [user |-> r.about, status |-> "PENDING", over |-> FALSE])
              /\ Done(r)
              /\ UNCHANGED <<relationVars, momentVars, itemVars, caseVars, sanction, role, tokens, stations>>

(* The invitation is read without a lock ... *)
readAccept(r) ==
    /\ Arrives(r, "acceptInvite")
    /\ LET possible == /\ r.n \in DOMAIN invite
                       /\ invite[r.n].user = r.user /\ invite[r.n].status = "PENDING"
                       /\ ~invite[r.n].over
                       /\ role[r.user] = "USER"
       IN  \/ ~possible /\ Refused(r)
           \/ possible /\ Reads(r, "accept", NoSight)

(* ... and makes an administrator, whatever has become of it. *)
acceptInvite(r) ==
    /\ At(r, "acceptInvite", "accept")
    /\ role' = [role EXCEPT ![r.user] = "ADMIN"]
    /\ invite' = [invite EXCEPT ![r.n].status = "ACCEPTED"]
    /\ tokens' = tokens \ {r.user}
    /\ Done(r)
    /\ UNCHANGED <<relationVars, momentVars, itemVars, caseVars, sanction, stations>>

readCancel(r) ==
    /\ BySuper(r, "cancelInvite")
    /\ LET possible == r.n \in DOMAIN invite /\ invite[r.n].status = "PENDING"
       IN  \/ ~possible /\ Refused(r)
           \/ possible /\ Reads(r, "cancel", NoSight)

cancelInvite(r) ==
    /\ At(r, "cancelInvite", "cancel")
    /\ invite' = [invite EXCEPT ![r.n].status = "CANCELED"]
    /\ Done(r)
    /\ UNCHANGED <<relationVars, momentVars, itemVars, caseVars, sanction, role, tokens, stations>>

inviteRunsOut(n) ==
    /\ n \in DOMAIN invite
    /\ ~invite[n].over
    /\ invite' = [invite EXCEPT ![n].over = TRUE]
    /\ UNCHANGED <<plot, relationVars, momentVars, itemVars, caseVars, sanction, role, tokens, stations, requestVars>>

(* revoke, and updateRole, which leaves the sessions of the station.       *)
readDismiss(r) ==
    /\ BySuper(r, "dismiss")
    /\ LET possible == r.about # r.user /\ role[r.about] = "ADMIN"
       IN  \/ ~possible /\ Refused(r)
           \/ possible /\ Reads(r, "dismiss", NoSight)

dismiss(r) ==
    /\ At(r, "dismiss", "dismiss")
    /\ role' = [role EXCEPT ![r.about] = "USER"]
    /\ tokens' = tokens \ {r.about}
    /\ stations' \in {stations, stations \ {r.about}}
    /\ Done(r)
    /\ UNCHANGED <<relationVars, momentVars, itemVars, caseVars, sanction, invite>>

readTransfer(r) ==
    /\ BySuper(r, "transfer")
    /\ LET possible == r.about # r.user /\ role[r.about] = "ADMIN"
       IN  \/ ~possible /\ Refused(r)
           \/ possible /\ Reads(r, "transfer", NoSight)

(* The unique index of super administrators who have not left. *)
SeatIsFree(r) == r.about \in gone \/ \A u \in Users \ {r.user, r.about} : role[u] # "SUPER_ADMIN" \/ u \in gone

transferSuperAdmin(r) ==
    /\ At(r, "transfer", "transfer")
    /\ \/ ~SeatIsFree(r) /\ Refused(r)
       \/ /\ SeatIsFree(r)
          /\ role' = [role EXCEPT ![r.user] = "ADMIN", ![r.about] = "SUPER_ADMIN"]
          /\ tokens' = tokens \ {r.user, r.about}
          /\ stations' = stations \ {r.user, r.about}
          /\ Done(r)
          /\ UNCHANGED <<relationVars, momentVars, itemVars, caseVars, sanction, invite>>

ModerationSteps(r) ==
    \/ hideContent(r) \/ readRestore(r) \/ restoreContent(r) \/ withdraw(r)
    \/ sanctionUser(r) \/ readRevoke(r) \/ revokeSanction(r)
    \/ inviteAdmin(r) \/ readAccept(r) \/ acceptInvite(r) \/ readCancel(r) \/ cancelInvite(r)
    \/ readDismiss(r) \/ dismiss(r) \/ readTransfer(r) \/ transferSuperAdmin(r)

-------------------------------------------------------------------------------
(* targetOwnerId *)
Owner(t) == IF t \in Users THEN t ELSE item[t].author

-------------------------------------------------------------------------------
(* Reports *)

OpenCases(t) == {c \in DOMAIN case : case[c].target = t /\ case[c].status = "OPEN"}
PendingReports(u, t) ==
    {n \in DOMAIN report : report[n].reporter = u /\ report[n].target = t /\ report[n].status = "PENDING"}

(* buildTargetSnapshot: what others have published and everybody can see. *)
CanReport(u, t) ==
    /\ Owner(t) # u
    /\ IF t \in Users
       THEN t \notin gone
       ELSE /\ Shown(t)
            /\ t \in Threads => t \in public
            /\ t \in Posts => Reachable(t) /\ (item[t].root # Nothing => Shown(item[t].root))
            /\ t \in Comments => Shown(item[t].on) /\ (item[t].root # Nothing => item[item[t].root].state # "ADMIN")

readTarget(r) ==
    /\ Arrives(r, "report")
    /\ \/ ~CanReport(r.user, r.about) /\ Refused(r)
       \/ CanReport(r.user, r.about) /\ Reads(r, "find", NoSight)

(* 0 when the target has no open case. *)
findCase(r) ==
    /\ At(r, "report", "find")
    /\ \E c \in IF OpenCases(r.about) = {} THEN {0} ELSE OpenCases(r.about) :
          Reads(r, "insert", [seen[r] EXCEPT !.n = c])

(* Mutant of Clashes: no unique index of open cases. *)
ClashesOfReports(r) == PendingReports(r.user, r.about) # {}

(* The unique indexes of open cases and of pending reports. *)
Clashes(r) ==
    \/ seen[r].n = 0 /\ OpenCases(r.about) # {}
    \/ PendingReports(r.user, r.about) # {}

createInOpenCase(r) ==
    /\ At(r, "report", "insert")
    /\ ~Clashes(r)
    /\ case' = IF seen[r].n = 0 THEN Append(case, [target |-> r.about, status |-> "OPEN"]) ELSE case
    /\ report' = Append(report, [reporter |-> r.user, target |-> r.about, status |-> "PENDING",
                                 case |-> IF seen[r].n = 0 THEN Len(case) + 1 ELSE seen[r].n])
    /\ Done(r)
    /\ UNCHANGED <<relationVars, momentVars, itemVars, decision, appeal, accountVars>>

(* A clash ends the request the second time. *)
reportClashes(r) ==
    /\ At(r, "report", "insert")
    /\ Clashes(r)
    /\ IF seen[r].again THEN Place(r, "duplicate") ELSE Place(r, "clash")
    /\ UNCHANGED <<seen, relationVars, momentVars, itemVars, caseVars, accountVars>>

lookDuplicate(r) ==
    /\ At(r, "report", "clash")
    /\ IF PendingReports(r.user, r.about) # {}
       THEN Reads(r, "duplicate", seen[r])
       ELSE Reads(r, "find", [seen[r] EXCEPT !.again = TRUE])

-------------------------------------------------------------------------------
(* What a resolution does to its target. *)

CanEnforce(r, actorRole, t, measure) ==
    /\ measure = "HIDE_CONTENT" => CanHide(t)
    /\ measure \in Sanctioning => CanSanction(r.user, actorRole, Owner(t), measure = "BAN_USER")

Enforces(t, measure, d) ==
    \/ /\ measure = "HIDE_CONTENT"
       /\ Hides(t, d)
       /\ UNCHANGED accountVars
    \/ /\ measure \in Sanctioning
       /\ Sanctions(Owner(t), measure = "BAN_USER", d)
       /\ UNCHANGED <<relationVars, momentVars, itemVars>>
    \/ /\ measure \notin Measures
       /\ UNCHANGED <<relationVars, momentVars, itemVars, accountVars>>

Outcome(what) == IF what = "DISMISSED" THEN "DISMISSED" ELSE "RESOLVED"

(* assertResolutionCompatible *)
CompatibleWithReport(t, what) ==
    what \in {"DISMISSED", "RESOLVED"} \cup (IF t \in Users THEN Sanctioning ELSE {"HIDE_CONTENT"})

(* Claims the report; its case stays open. *)
resolveReport(r) ==
    /\ ByAdmin(r, "resolveReport")
    /\ LET possible == /\ r.n \in DOMAIN report
                       /\ report[r.n].status = "PENDING"
                       /\ CompatibleWithReport(report[r.n].target, r.what)
                       /\ CanEnforce(r, role[r.user], report[r.n].target, r.what)
       IN  \/ ~possible /\ Refused(r)
           \/ /\ possible
              /\ report' = [report EXCEPT ![r.n].status = Outcome(r.what)]
              /\ Enforces(report[r.n].target, r.what, 0)
              /\ Done(r)
              /\ UNCHANGED <<case, decision, appeal>>

-------------------------------------------------------------------------------
(* Cases *)

(* assertResolution *)
CompatibleWithCase(t, what) == what \in {"DISMISSED"} \cup Sanctioning \cup (IF t \in Items THEN {"HIDE_CONTENT"} ELSE {})

(* The case is read without a lock ... *)
readCase(r) ==
    /\ ByAdmin(r, "resolveCase")
    /\ LET possible == /\ r.n \in DOMAIN case
                       /\ case[r.n].status = "OPEN"
                       /\ CompatibleWithCase(case[r.n].target, r.what)
       IN  \/ ~possible /\ Refused(r)
           \/ possible /\ Reads(r, "resolve", [NoSight EXCEPT !.role = role[r.user]])

(* ... and closed with the reports that are pending, open or not by then. *)
resolveCase(r) ==
    /\ At(r, "resolveCase", "resolve")
    /\ LET t == case[r.n].target
           possible == CanEnforce(r, seen[r].role, t, r.what)
       IN  \/ ~possible /\ Refused(r)
           \/ /\ possible
              /\ decision' = IF r.what \in Measures
                             THEN Append(decision, [target |-> t, action |-> r.what, active |-> TRUE, case |-> r.n])
                             ELSE decision
              /\ Enforces(t, r.what, Len(decision'))
              /\ report' = [n \in DOMAIN report |->
                               IF report[n].case = r.n /\ report[n].status = "PENDING"
                               THEN [report[n] EXCEPT !.status = Outcome(r.what)]
                               ELSE report[n]]
              /\ case' = [case EXCEPT ![r.n].status = Outcome(r.what)]
              /\ Done(r)
              /\ UNCHANGED appeal

-------------------------------------------------------------------------------
(* Appeals *)

Appealed(d) == \E a \in DOMAIN appeal : appeal[a].decision = d

(* Of the one concerned, sanctioned or not, and once. *)
createAppeal(r) ==
    /\ r.op = "appeal"
    /\ r \in plot.requests /\ pc[r] = "new" /\ r.user \notin gone
    /\ LET possible == /\ r.n \in DOMAIN decision
                       /\ decision[r.n].active
                       /\ Owner(decision[r.n].target) = r.user
                       /\ ~Appealed(r.n)
       IN  \/ ~possible /\ Refused(r)
           \/ /\ possible
              /\ appeal' = Append(appeal, [decision |-> r.n, status |-> "PENDING"])
              /\ Done(r)
              /\ UNCHANGED <<relationVars, momentVars, itemVars, case, report, decision, accountVars>>

Hiding(d) == decision[d].action = "HIDE_CONTENT"
ImposedBy(d) == {s \in DOMAIN sanction : sanction[s].decision = d}

Overturns(r) == r.what = "OVERTURNED"

(* A thread or a post is looked at here and not again. *)
readAppeal(r) ==
    /\ ByAdmin(r, "resolveAppeal")
    /\ LET d == appeal[r.n].decision
           t == decision[d].target
           possible == /\ r.n \in DOMAIN appeal
                       /\ appeal[r.n].status = "PENDING"
                       /\ Overturns(r) => decision[d].active
                       /\ Overturns(r) /\ Hiding(d) => HiddenByAdmin(t) \/ Locked(t)
       IN  \/ ~possible /\ Refused(r)
           \/ possible /\ Reads(r, "answer", NoSight)

(* restoreDecisionContent *)
CanRestoreDecision(t) ==
    Locked(t) => HiddenByAdmin(t) /\ (t \in Comments => Shown(item[t].on))

Undoes(d) ==
    /\ decision' = [decision EXCEPT ![d].active = FALSE]
    /\ IF Hiding(d)
       THEN Restores(decision[d].target) /\ UNCHANGED accountVars
       ELSE /\ sanction' = [s \in DOMAIN sanction |->
                               IF s \in ImposedBy(d) THEN [sanction[s] EXCEPT !.revoked = TRUE] ELSE sanction[s]]
            /\ UNCHANGED <<role, invite, tokens, stations, relationVars, momentVars, itemVars>>

resolveAppeal(r) ==
    /\ At(r, "resolveAppeal", "answer")
    /\ LET d == appeal[r.n].decision
           possible == Overturns(r) /\ Hiding(d) => CanRestoreDecision(decision[d].target)
       IN  \/ ~possible /\ Refused(r)
           \/ /\ possible
              /\ appeal' = [appeal EXCEPT ![r.n].status = r.what]
              /\ IF Overturns(r)
                 THEN Undoes(d)
                 ELSE UNCHANGED <<decision, relationVars, momentVars, itemVars, accountVars>>
              /\ Done(r)
              /\ UNCHANGED <<case, report>>

CaseSteps(r) ==
    \/ readTarget(r) \/ findCase(r) \/ createInOpenCase(r) \/ reportClashes(r) \/ lookDuplicate(r)
    \/ resolveReport(r) \/ readCase(r) \/ resolveCase(r)
    \/ createAppeal(r) \/ readAppeal(r) \/ resolveAppeal(r)
===============================================================================
