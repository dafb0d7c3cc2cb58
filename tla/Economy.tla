-------------------------------- MODULE Economy --------------------------------
(***************************************************************************)
(* EconomyService: the daily check-in and tips, each one database          *)
(* transaction on wallets, the append-only ledger and the public totals.   *)
(*                                                                         *)
(* A tip runs in a SERIALIZABLE transaction: what it reads is the snapshot *)
(* of its first query, and it fails when a row it locks or updates was     *)
(* changed after that.  Only what a transaction can see to be stale is     *)
(* kept of a snapshot: its blocks, its ledger length, the accounts and     *)
(* targets that were gone.  The check-in runs READ COMMITTED under the     *)
(* user's row lock and is one step.                                        *)
(***************************************************************************)
EXTENDS ExperienceRules, SequencesExt

CONSTANTS
    Users,
    Platform,     \* PLATFORM_WALLET_ID
    Targets,      \* threads and moments that can be tipped
    Owner,        \* Owner[t]: the owner of thread t, the author of moment t
    Requests,     \* tip requests: records [id, sender, kind, target, recipient, amount, key]
    Rewards,      \* what randomInt(1, 4) gives
    MaxDay,       \* bound: days looked at
    MaxAttempts,  \* attempts of one request: 3
    PageSizes,    \* bound: the page lengths a statement is read with
    Plots         \* bound: what may happen in one history, see PlotOf

(* The requests that are made, the day it may get to, who does anything    *)
(* else that earns the daily floor, <<u, v>> if u may block v, the threads *)
(* whose owner may make them private, and who may deactivate the account.  *)
PlotOf ==
    [requests : SUBSET Requests, days : 1..MaxDay, acting : SUBSET Users, blocks : SUBSET (Users \X Users),
     hiding : SUBSET Targets, closing : SUBSET Users]

ASSUME EconomyAssumption ==
    /\ IsFiniteSet(Users)
    /\ Platform \notin Users
    /\ Owner \in [Targets -> Users]
    /\ Rewards \subseteq 1..3
    /\ "DAILY_CHECK_IN" \in DOMAIN Rules /\ Rules["DAILY_CHECK_IN"].delta = 2
    /\ MaxDay \in Nat
    /\ MaxAttempts \in Nat \ {0}
    /\ PageSizes \subseteq Nat \ {0}
    /\ Plots \subseteq PlotOf
    /\ \A r \in Requests :
         /\ r.sender \in Users
         /\ r.recipient \in Users
         /\ r.kind \in {"THREAD", "USER", "MOMENT"}
         /\ r.kind # "USER" => r.target \in Targets /\ r.recipient = Owner[r.target]
         /\ r.amount \in Int

Wallets == Users \cup {Platform}

VARIABLES
    balance,      \* wallets.balance
    tipTotal,     \* wallets.received_tip_total of users
    tipCount,     \* wallets.received_tip_count of users
    targetTotal,  \* tip_total of threads and moments
    ledger,       \* wallet_transactions, in the order they were committed; a column
                  \* that is NULL is not in the record
    checkIns,     \* daily_check_ins: records [user, date, reward, experience, entry]
    prog,         \* progression of the users, see ExperienceRules
    plot,         \* the plot of this history
    today,
    inactive,     \* users with deleted_at set
    gone,         \* targets deleted or no longer published
    denied,       \* private threads, which none of those who tip is a member of
    blocked,      \* <<u, v>>: u has blocked v
    pc,           \* pc[r]: where request r is
    attempt,      \* attempt[r]: transactions r has begun
    snap,         \* snap[r]: the snapshot of r's transaction
    dirty,        \* dirty[r]: rows changed since that snapshot
    answer        \* answer[r]: 0 or the ledger position r was answered with

moneyVars == <<balance, tipTotal, tipCount, targetTotal, ledger, checkIns>>
worldVars == <<prog, plot, today, inactive, gone, denied, blocked>>
requestVars == <<pc, attempt, snap, dirty, answer>>
vars == <<moneyVars, worldVars, requestVars>>

UserRow(u) == <<"user", u>>
WalletRow(w) == <<"wallet", w>>
TargetRow(t) == <<"target", t>>

(* The rows a tip locks or updates. *)
LockedRows(r) ==
    {UserRow(r.sender), UserRow(r.recipient),
     WalletRow(r.sender), WalletRow(r.recipient), WalletRow(Platform)}
    \cup (IF r.kind = "USER" THEN {} ELSE {TargetRow(r.target)})

(* Rows change under the transactions that run on. *)
TouchFor(rows, running) ==
    dirty' = [r \in Requests |-> IF r \in running THEN dirty[r] \cup (rows \cap LockedRows(r)) ELSE {}]

Running == {r \in Requests : pc[r] = "in_tx"}
Touch(rows) == TouchFor(rows, Running)

NoSnapshot == [ledger |-> 0, blocked |-> {}, denied |-> {}]

splitTipAmount(gross) ==
    LET recipientAmount == (gross * 85) \div 100
    IN  [recipientAmount |-> recipientAmount, platformAmount |-> gross - recipientAmount]

requestHash(r) == <<r.kind, IF r.kind = "USER" THEN r.recipient ELSE r.target, r.amount>>

(* The ledger row of (sender wallet, client request id) among the first n. *)
ReplayIn(r, n) ==
    {i \in 1..n : ledger[i].type = "TIP" /\ ledger[i].sender = r.sender /\ ledger[i].key = r.key}

(* Rows are only ever appended: triggers refuse to change or delete one. *)
Entered(row) == ledger' = Append(ledger, row)

-------------------------------------------------------------------------------
Init ==
    /\ balance = [w \in Wallets |-> 0]
    /\ tipTotal = [u \in Users |-> 0]
    /\ tipCount = [u \in Users |-> 0]
    /\ targetTotal = [t \in Targets |-> 0]
    /\ ledger = <<>>
    /\ checkIns = {}
    /\ prog = [u \in Users |-> NewProgress]
    /\ plot \in Plots
    /\ today = 1
    /\ inactive = {}
    /\ gone = {}
    /\ denied = {}
    /\ blocked = {}
    /\ pc = [r \in Requests |-> "new"]
    /\ attempt = [r \in Requests |-> 0]
    /\ snap = [r \in Requests |-> NoSnapshot]
    /\ dirty = [r \in Requests |-> {}]
    /\ answer = [r \in Requests |-> 0]

(* checkIn: under the lock of the user row, unless today's row is there,   *)
(* the reward is credited, entered in the ledger and in daily_check_ins,   *)
(* and the daily floor of experience granted in the same transaction.      *)
checkedIn(u) == \E c \in checkIns : c.user = u /\ c.date = today

checkIn(u) ==
    /\ u \notin inactive
    /\ ~checkedIn(u)
    /\ \E reward \in Rewards :
         LET grant == GrantInput(u, "DAILY_CHECK_IN", <<"daily-check-in", u, today>>, today)
             granted == grantInTransaction(prog[u], grant)
         IN  /\ balance' = [balance EXCEPT ![u] = @ + reward]
             /\ Entered(
                  [type |-> "DAILY_CHECK_IN", recipient |-> u, gross |-> reward,
                   recipientAmount |-> reward, platformAmount |-> 0,
                   recipientAfter |-> balance[u] + reward,
                   tipTotalAfter |-> tipTotal[u], tipCountAfter |-> tipCount[u], date |-> today])
             /\ checkIns' = checkIns \cup
                  {[user |-> u, date |-> today, reward |-> reward, entry |-> Len(ledger) + 1,
                    experience |-> granted.experience - prog[u].experience]}
             /\ prog' = [prog EXCEPT ![u] = granted]
             /\ Touch({WalletRow(u)} \cup IF granted = prog[u] THEN {} ELSE {UserRow(u)})
    /\ UNCHANGED <<tipTotal, tipCount, targetTotal, plot, today, inactive, gone, denied, blocked,
                   pc, attempt, snap, answer>>

(* The outbox listener grants the same floor for the first action of a day. *)
dailyActivity(u) ==
    LET grant == GrantInput(u, "DAILY_CHECK_IN", <<"daily-activity", u, today>>, today)
    IN  /\ u \in plot.acting \ inactive
        /\ Grantable(prog[u], grant)
        /\ prog' = [prog EXCEPT ![u] = Awarded(@, grant)]
        /\ Touch({UserRow(u)})
        /\ UNCHANGED <<moneyVars, plot, today, inactive, gone, denied, blocked, pc, attempt, snap, answer>>

-------------------------------------------------------------------------------
(* The request is over: its transaction, if there is one, is too. *)
Finish(r, outcome, n) ==
    /\ pc' = [pc EXCEPT ![r] = outcome]
    /\ answer' = [answer EXCEPT ![r] = n]
    /\ attempt' = [attempt EXCEPT ![r] = 0]
    /\ snap' = [snap EXCEPT ![r] = NoSnapshot]

Continue(r, next) ==
    /\ pc' = [pc EXCEPT ![r] = next]
    /\ UNCHANGED <<answer, attempt, snap>>

(* A replay with the same payload is answered from the ledger row, one     *)
(* with another payload is refused (IDEMPOTENCY_KEY_REUSED).               *)
AnswerReplay(r, n) ==
    \E i \in ReplayIn(r, n) :
        IF ledger[i].hash = requestHash(r) THEN Finish(r, "paid", i) ELSE Finish(r, "refused", 0)

(* prepareTip: amount, and a replay that is committed already; tipUser     *)
(* refuses a tip to oneself before that.                                   *)
prepareTip(r) ==
    /\ r \in plot.requests
    /\ pc[r] = "new"
    /\ IF r.amount < 2 \/ (r.kind = "USER" /\ r.sender = r.recipient)
       THEN Finish(r, "refused", 0)
       ELSE IF ReplayIn(r, Len(ledger)) # {}
            THEN AnswerReplay(r, Len(ledger))
            ELSE Continue(r, "prepared")
    /\ UNCHANGED <<moneyVars, worldVars, dirty>>

BlockedIn(b, r) == <<r.sender, r.recipient>> \in b \/ <<r.recipient, r.sender>> \in b

(* tipThread, tipUser and tipMoment look at the target before the          *)
(* transaction; tip() refuses a tip to oneself.                            *)
lookAtTarget(r) ==
    /\ pc[r] = "prepared"
    /\ IF \/ r.kind = "THREAD" /\ (r.target \in gone \/ r.target \in denied \/ BlockedIn(blocked, r))
          \/ r.kind = "USER" /\ r.recipient \in inactive
          \/ r.kind = "MOMENT" /\ (r.target \in gone \/ r.recipient \in inactive)
          \/ r.sender = r.recipient
       THEN Finish(r, "refused", 0)
       ELSE Continue(r, "begin")
    /\ UNCHANGED <<moneyVars, worldVars, dirty>>

(* An attempt begins: its first query fixes the snapshot. *)
beginTip(r) ==
    /\ pc[r] = "begin"
    /\ pc' = [pc EXCEPT ![r] = "in_tx"]
    /\ attempt' = [attempt EXCEPT ![r] = @ + 1]
    /\ snap' = [snap EXCEPT ![r] = [ledger |-> Len(ledger), blocked |-> blocked, denied |-> denied]]
    /\ dirty' = [dirty EXCEPT ![r] = {}]
    /\ UNCHANGED <<moneyVars, worldVars, answer>>

(* Mutant of Refused: what was checked before the transaction is not checked again. *)
RefusedOnlyForBalance(r) == balance[r.sender] < r.amount

TargetIsClean(r) == r.kind = "USER" \/ TargetRow(r.target) \notin dirty[r]

(* What makes the transaction throw once it holds its locks.  A moment is  *)
(* locked before the balance is looked at, a thread only updated after.    *)
Refused(r) ==
    \/ {r.sender, r.recipient} \cap inactive # {}
    \/ BlockedIn(snap[r].blocked, r)
    \/ r.kind # "USER" /\ r.target \in gone /\ TargetIsClean(r)
    \/ r.kind = "THREAD" /\ r.target \in snap[r].denied
    \/ balance[r.sender] < r.amount /\ (r.kind = "MOMENT" => TargetIsClean(r))

(* A row of the columns of both. *)
Joined(f, g) == [x \in DOMAIN f \cup DOMAIN g |-> IF x \in DOMAIN f THEN f[x] ELSE g[x]]

(* The columns of a tip on a thread or a moment. *)
TargetColumns(r) ==
    IF r.kind = "USER" THEN <<>>
    ELSE [target |-> r.target, targetTotalAfter |-> targetTotal[r.target] + r.amount]

TipColumns(r, share) ==
    Joined(
      [type |-> "TIP", sender |-> r.sender, recipient |-> r.recipient, platform |-> Platform,
       kind |-> r.kind, targetUser |-> r.recipient, gross |-> r.amount,
       recipientAmount |-> share.recipientAmount, platformAmount |-> share.platformAmount,
       senderAfter |-> balance[r.sender] - r.amount,
       recipientAfter |-> balance[r.recipient] + share.recipientAmount,
       platformAfter |-> balance[Platform] + share.platformAmount,
       tipTotalAfter |-> tipTotal[r.recipient] + r.amount,
       tipCountAfter |-> tipCount[r.recipient] + 1,
       key |-> r.key, hash |-> requestHash(r)],
      TargetColumns(r))

(* Mutant of TipRow: the recipient's balance is entered with the gross amount. *)
TipRowGross(r) ==
    [TipColumns(r, splitTipAmount(r.amount)) EXCEPT !.recipientAfter = balance[r.recipient] + r.amount]

TipRow(r) == TipColumns(r, splitTipAmount(r.amount))

Pay(r) ==
    LET row == TipRow(r)
    IN  /\ balance' = [balance EXCEPT ![r.sender] = row.senderAfter,
                                      ![r.recipient] = row.recipientAfter,
                                      ![Platform] = row.platformAfter]
        /\ tipTotal' = [tipTotal EXCEPT ![r.recipient] = row.tipTotalAfter]
        /\ tipCount' = [tipCount EXCEPT ![r.recipient] = row.tipCountAfter]
        /\ targetTotal' = IF r.kind = "USER" THEN targetTotal
                          ELSE [targetTotal EXCEPT ![r.target] = row.targetTotalAfter]
        /\ Entered(row)
        /\ UNCHANGED checkIns

WrittenRows(r) == LockedRows(r) \ {UserRow(r.sender), UserRow(r.recipient)}

(* Mutant of completeTip: READ COMMITTED, rows that changed since the snapshot are no obstacle. *)
completeTipStale(r) ==
    /\ pc[r] = "in_tx"
    /\ IF ReplayIn(r, snap[r].ledger) # {}
       THEN AnswerReplay(r, snap[r].ledger) /\ TouchFor({}, Running \ {r}) /\ UNCHANGED moneyVars
       ELSE IF Refused(r) \/ RefusedOnlyForBalance(r) \/ (r.kind # "USER" /\ r.target \in gone \cup denied)
            THEN Finish(r, "refused", 0) /\ TouchFor({}, Running \ {r}) /\ UNCHANGED moneyVars
            ELSE Pay(r) /\ TouchFor(WrittenRows(r), Running \ {r}) /\ Finish(r, "paid", Len(ledger) + 1)
    /\ UNCHANGED worldVars

(* The attempt runs on to its end: it locks the users, then the wallets,   *)
(* looks for a replay in its snapshot, checks, moves the money and writes  *)
(* the ledger row with its tip.completed event.  It gets past a row only   *)
(* if nobody changed that row since the snapshot.                          *)
completeTip(r) ==
    /\ pc[r] = "in_tx"
    /\ dirty[r] \subseteq {TargetRow(t) : t \in Targets}
    /\ IF ReplayIn(r, snap[r].ledger) # {}
       THEN AnswerReplay(r, snap[r].ledger) /\ TouchFor({}, Running \ {r}) /\ UNCHANGED moneyVars
       ELSE IF Refused(r)
            THEN Finish(r, "refused", 0) /\ TouchFor({}, Running \ {r}) /\ UNCHANGED moneyVars
            ELSE /\ TargetIsClean(r)
                 /\ Pay(r)
                 /\ TouchFor(WrittenRows(r), Running \ {r})
                 /\ Finish(r, "paid", Len(ledger) + 1)
    /\ UNCHANGED worldVars

(* A serialization failure or a deadlock: nothing is written; up to two    *)
(* more attempts, then the request is answered with CONFLICT.  PostgreSQL  *)
(* may report one at any time.                                             *)
conflictTip(r) ==
    /\ pc[r] = "in_tx"
    /\ TouchFor({}, Running \ {r})
    /\ IF attempt[r] < MaxAttempts
       THEN /\ pc' = [pc EXCEPT ![r] = "begin"]
            /\ snap' = [snap EXCEPT ![r] = NoSnapshot]
            /\ UNCHANGED <<answer, attempt>>
       ELSE Finish(r, "conflict", 0)
    /\ UNCHANGED <<moneyVars, worldVars>>

-------------------------------------------------------------------------------
(* The rest of the system, as far as tips look at it. *)
nextDay ==
    /\ today < plot.days
    /\ today' = today + 1
    /\ UNCHANGED <<moneyVars, prog, plot, inactive, gone, denied, blocked, requestVars>>

(* block: takes the locks of both user rows but changes neither. *)
block(u, v) ==
    /\ <<u, v>> \in plot.blocks \ blocked
    /\ u # v
    /\ v \notin inactive
    /\ blocked' = blocked \cup {<<u, v>>}
    /\ UNCHANGED <<moneyVars, prog, plot, today, inactive, gone, denied, requestVars>>

unblock(u, v) ==
    /\ <<u, v>> \in blocked
    /\ blocked' = blocked \ {<<u, v>>}
    /\ UNCHANGED <<moneyVars, prog, plot, today, inactive, gone, denied, requestVars>>

deactivate(u) ==
    /\ u \in plot.closing \ inactive
    /\ inactive' = inactive \cup {u}
    /\ Touch({UserRow(u)})
    /\ UNCHANGED <<moneyVars, prog, plot, today, gone, denied, blocked, pc, attempt, snap, answer>>

deleteTarget(t) ==
    /\ t \notin gone
    /\ \E r \in plot.requests : r.target = t
    /\ gone' = gone \cup {t}
    /\ Touch({TargetRow(t)})
    /\ UNCHANGED <<moneyVars, prog, plot, today, inactive, denied, blocked, pc, attempt, snap, answer>>

(* threads.update: the owner makes the thread private, or public again.    *)
setVisibility(t) ==
    /\ t \in plot.hiding \ gone
    /\ denied' = IF t \in denied THEN denied \ {t} ELSE denied \cup {t}
    /\ Touch({TargetRow(t)})
    /\ UNCHANGED <<moneyVars, prog, plot, today, inactive, gone, blocked, pc, attempt, snap, answer>>

Next ==
    \/ \E u \in Users : checkIn(u) \/ dailyActivity(u) \/ deactivate(u)
    \/ \E u, v \in Users : block(u, v) \/ unblock(u, v)
    \/ \E t \in Targets : deleteTarget(t) \/ setVisibility(t)
    \/ nextDay
    \/ \E r \in Requests :
         prepareTip(r) \/ lookAtTarget(r) \/ beginTip(r) \/ completeTip(r) \/ conflictTip(r)

Spec == Init /\ [][Next]_vars

-------------------------------------------------------------------------------
Outcomes == {"paid", "refused", "conflict"}

CheckInRows ==
    [user : Users, date : 1..MaxDay, reward : Rewards, experience : Nat, entry : Nat \ {0}]

(* No wallet is ever overdrawn, a running attempt collects only the rows   *)
(* it is going to touch, and a paid request points at a ledger row.        *)
TypeOK ==
    /\ balance \in [Wallets -> Nat]
    /\ tipTotal \in [Users -> Nat]
    /\ tipCount \in [Users -> Nat]
    /\ targetTotal \in [Targets -> Nat]
    /\ checkIns \subseteq CheckInRows
    /\ plot \in Plots
    /\ today \in 1..plot.days
    /\ inactive \subseteq Users
    /\ gone \subseteq Targets
    /\ denied \subseteq plot.hiding
    /\ pc \in [Requests -> {"new", "prepared", "begin", "in_tx"} \cup Outcomes]
    /\ attempt \in [Requests -> 0..MaxAttempts]
    /\ \A r \in Requests :
         /\ dirty[r] \subseteq LockedRows(r)
         /\ snap[r].ledger \in 0..Len(ledger)
         /\ pc[r] = "paid" <=> answer[r] # 0
         /\ answer[r] \in 0..Len(ledger)

(* However the copies of a request race, and whatever is retried, a sender *)
(* pays once for a client request id: tip() finds the earlier payment in   *)
(* its snapshot or fails on the wallet that payment changed.               *)
PaidOncePerKey ==
    \A i, j \in DOMAIN ledger :
        /\ ledger[i].type = "TIP"
        /\ ledger[j].type = "TIP"
        /\ ledger[i].sender = ledger[j].sender
        /\ ledger[i].key = ledger[j].key
        => i = j

(* Whoever is told that a tip was paid is told of a payment of his own for *)
(* exactly what he asked (assertReplayHash).                               *)
AnswersArePayments ==
    \A r \in Requests : pc[r] = "paid" =>
        LET row == ledger[answer[r]]
        IN  row.type = "TIP" /\ row.sender = r.sender /\ row.key = r.key /\ row.hash = requestHash(r)

(* What a client gets by repeating a tip: one payment, and answers that    *)
(* speak of it.                                                            *)
RetriesArePaidOnce == PaidOncePerKey /\ AnswersArePayments

Entry(delta, after) == [delta |-> delta, after |-> after]

(* The totals a ledger row speaks of: what it adds and what it says they   *)
(* are from then on.                                                       *)
Entries(row) ==
    IF row.type = "DAILY_CHECK_IN"
    THEN [a \in {<<"balance", row.recipient>>, <<"tips", row.recipient>>, <<"count", row.recipient>>} |->
            CASE a[1] = "balance" -> Entry(row.recipientAmount, row.recipientAfter)
              [] a[1] = "tips" -> Entry(0, row.tipTotalAfter)
              [] a[1] = "count" -> Entry(0, row.tipCountAfter)]
    ELSE [a \in {<<"balance", row.sender>>, <<"balance", row.recipient>>, <<"balance", Platform>>,
                 <<"tips", row.recipient>>, <<"count", row.recipient>>}
                \cup (IF row.kind = "USER" THEN {} ELSE {<<"target", row.target>>}) |->
            CASE a = <<"balance", row.sender>> -> Entry(-row.gross, row.senderAfter)
              [] a = <<"balance", row.recipient>> -> Entry(row.recipientAmount, row.recipientAfter)
              [] a = <<"balance", Platform>> -> Entry(row.platformAmount, row.platformAfter)
              [] a[1] = "tips" -> Entry(row.gross, row.tipTotalAfter)
              [] a[1] = "count" -> Entry(1, row.tipCountAfter)
              [] a[1] = "target" -> Entry(row.gross, row.targetTotalAfter)]

Totals ==
    [a \in ({"balance"} \X Wallets) \cup ({"tips", "count"} \X Users) \cup ({"target"} \X Targets) |->
        CASE a[1] = "balance" -> balance[a[2]]
          [] a[1] = "tips" -> tipTotal[a[2]]
          [] a[1] = "count" -> tipCount[a[2]]
          [] a[1] = "target" -> targetTotal[a[2]]]

(* The append-only ledger is an audit trail: each row continues, for every *)
(* wallet and public total it speaks of, where the last row that spoke of  *)
(* it ended, and the columns of today are where the last rows ended.       *)
LedgerExplainsTotals ==
    \A a \in DOMAIN Totals :
        LET spoken == {i \in DOMAIN ledger : a \in DOMAIN Entries(ledger[i])}
            After(S) == IF S = {} THEN 0 ELSE Entries(ledger[Max(S)])[a].after
        IN  /\ Totals[a] = After(spoken)
            /\ \A i \in spoken :
                 Entries(ledger[i])[a].after
                   = After({j \in spoken : j < i}) + Entries(ledger[i])[a].delta

CheckInEntries == {i \in DOMAIN ledger : ledger[i].type = "DAILY_CHECK_IN"}

(* Tips only move money: everything that is in the wallets, the platform's *)
(* included, came in through check-ins.                                    *)
MoneyConserved ==
    SumFunctionOnSet(balance, Wallets)
      = SumFunctionOnSet([i \in DOMAIN ledger |-> ledger[i].gross], CheckInEntries)

(* wallet_transactions_type_shape_check and its predecessors: what each    *)
(* type of row has to have and may not have, and what may not be negative. *)
LedgerColumns ==
    {"type", "sender", "recipient", "platform", "kind", "target", "targetUser", "gross", "recipientAmount",
     "platformAmount", "senderAfter", "recipientAfter", "platformAfter", "targetTotalAfter",
     "tipTotalAfter", "tipCountAfter", "key", "hash", "date"}

Has(row, columns) == columns \subseteq DOMAIN row
Lacks(row, columns) == columns \cap DOMAIN row = {}

TypeShape(row) ==
    /\ DOMAIN row \subseteq LedgerColumns
    /\ \A c \in {"recipientAfter", "tipTotalAfter", "tipCountAfter", "senderAfter", "platformAfter",
                 "targetTotalAfter"} \cap DOMAIN row : row[c] >= 0
    /\ \/ /\ row.type = "DAILY_CHECK_IN"
          /\ Lacks(row, {"sender", "platform", "kind", "target", "targetUser", "senderAfter", "platformAfter",
                         "targetTotalAfter", "key", "hash"})
          /\ row.gross \in 1..3
          /\ row.recipientAmount = row.gross
          /\ row.platformAmount = 0
          /\ Has(row, {"date"})
       \/ /\ row.type = "TIP"
          /\ Has(row, {"sender", "platform", "kind", "targetUser", "senderAfter", "platformAfter", "key", "hash"})
          /\ Cardinality({row.sender, row.recipient, row.platform}) = 3
          /\ row.gross >= 2
          /\ row.gross = row.recipientAmount + row.platformAmount
          /\ Lacks(row, {"date"})
          /\ IF row.kind = "USER" THEN Lacks(row, {"target", "targetTotalAfter"})
             ELSE Has(row, {"target", "targetTotalAfter"})

(* validate_wallet_transaction_relations, deferred to the commit: the      *)
(* wallets are of the right kind, a check-in has its fact, and a tip goes  *)
(* to the owner of what it is given for.                                   *)
TransactionRelations(i) ==
    LET row == ledger[i]
    IN  /\ row.recipient \in Users
        /\ row.type = "DAILY_CHECK_IN" =>
             \E c \in checkIns :
                 c.entry = i /\ c.user = row.recipient /\ c.date = row.date /\ c.reward = row.gross
        /\ row.type = "TIP" =>
             /\ row.sender \in Users
             /\ row.platform = Platform
             /\ row.targetUser = row.recipient
             /\ row.kind # "USER" => Owner[row.target] = row.recipient

(* validate_daily_check_in_ledger, and the keys and checks of the table:   *)
(* the experience is 2, or 0 when the floor of the day was granted before. *)
CheckInRelations(c) ==
    LET row == ledger[c.entry]
    IN  /\ row.type = "DAILY_CHECK_IN"
        /\ row.recipient = c.user
        /\ row.date = c.date
        /\ {row.gross, row.recipientAmount} = {c.reward}
        /\ row.platformAmount = 0
        /\ c.experience \in {0, 2}
        /\ \A d \in checkIns : d.user = c.user /\ d.date = c.date => d = c

(* None of the database's constraints ever has to stop the service.        *)
LedgerAccepts ==
    /\ \A i \in DOMAIN ledger : TypeShape(ledger[i]) /\ TransactionRelations(i)
    /\ \A c \in checkIns : CheckInRelations(c)

(* orderBy createdAt, id descending. *)
NewestFirst(rows) ==
    [n \in 1..Cardinality(rows) |-> CHOOSE i \in rows : Cardinality({j \in rows : j > i}) = n - 1]

(* listTransactions: a page of the rows the wallet gave or received, the   *)
(* newest first, after the row the cursor names (0: from the newest), each *)
(* as its owner reads it.                                                  *)
Concerns(u, i) == ledger[i].recipient = u \/ (ledger[i].type = "TIP" /\ ledger[i].sender = u)

StatementItem(u, i) ==
    LET row == ledger[i]
    IN  IF row.type = "TIP" /\ row.sender = u
        THEN [id |-> i, direction |-> "EXPENSE", amount |-> row.gross, balanceAfter |-> row.senderAfter]
        ELSE [id |-> i, direction |-> "INCOME", amount |-> row.recipientAmount,
              balanceAfter |-> row.recipientAfter]

listTransactions(u, cursor, limit) ==
    LET rows == NewestFirst({i \in DOMAIN ledger : Concerns(u, i) /\ (cursor = 0 \/ i < cursor)})
        take == Min({limit, 50, Len(rows)})
    IN  [items |-> [n \in 1..take |-> StatementItem(u, rows[n])],
         cursor |-> IF take = 0 THEN 0 ELSE rows[take],
         hasMore |-> Len(rows) > take]

(* The pages of limit rows, one after the other. *)
Statement(u, limit) ==
    LET from[c \in 0..Len(ledger)] ==
            LET page == listTransactions(u, c, limit)
            IN  page.items \o (IF page.hasMore THEN from[page.cursor] ELSE <<>>)
    IN  from[0]

(* A statement read page by page adds up: it starts with what is in the    *)
(* wallet, and each line says what the line below it said, and the amount. *)
StatementsAddUp ==
    \A u \in Users, limit \in PageSizes :
        LET lines == Statement(u, limit)
            Before(n) == IF n = Len(lines) THEN 0 ELSE lines[n + 1].balanceAfter
            Signed(line) == IF line.direction = "INCOME" THEN line.amount ELSE -line.amount
        IN  /\ Len(lines) = Cardinality({i \in DOMAIN ledger : Concerns(u, i)})
            /\ balance[u] = IF lines = <<>> THEN 0 ELSE lines[1].balanceAfter
            /\ \A n \in DOMAIN lines : lines[n].balanceAfter = Before(n) + Signed(lines[n])

(* The books as an auditor takes them: the rows explain the totals,        *)
(* nothing was made or lost on the way, every row is one the database      *)
(* accepts, and what each user is shown adds up.                           *)
BooksBalance == TypeOK /\ LedgerExplainsTotals /\ MoneyConserved /\ LedgerAccepts /\ StatementsAddUp

NewTips == {i \in Len(ledger) + 1 .. Len(ledger') : ledger'[i].type = "TIP"}

LivingTips ==
    \A i \in NewTips :
        LET row == ledger'[i]
        IN  /\ {row.sender, row.recipient} \cap inactive = {}
            /\ row.kind # "USER" => row.target \notin gone
            /\ row.kind = "THREAD" => row.target \notin denied

(* Money never moves to or from an account that is deactivated, nor on a   *)
(* thread or moment that is deleted or a thread the sender may not see, at *)
(* the moment the tip is committed.                                        *)
TipsOnlyAmongTheLiving == [][LivingTips]_vars
===============================================================================
