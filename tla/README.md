# Verification of the wenyou backend

The repository is the backend of *wenyou*, a forum for play-by-post stories: a
NestJS application on PostgreSQL (through Prisma) and Redis, with an image
worker as a second process.  One main process serves HTTP, runs the cron jobs
and dispatches the domain events; several copies of it may run during a deploy.

Everything that can go wrong in it in an interesting way has one of four
causes, and the models are about them:

* **Transactions that meet.**  Requests run concurrently.  The code orders them
  with row locks (`SELECT ... FOR UPDATE`), with optimistic versions, with
  serializable transactions that are tried again, and with unique indexes.
  What was read before the lock, or outside the transaction, may be stale.
* **Delivery at least once.**  Side effects travel through the table
  `domain_outbox`, with leases, back-off and retries; every listener has to
  bear a second delivery and one out of order.
* **Repeated requests.**  Mobile clients repeat a `POST` with the same
  `clientRequestId`; refresh tokens are replayed.
* **Leases, attempts and crashes** of the jobs that run in batches.

## Inventory

| part (src/src/...) | state | operations | hard part | module |
|---|---|---|---|---|
| `outbox/` | rows of `domain_outbox`; `currentDispatch`, `stopping` | enqueue, claim, deliver, shutdown, purge | leases, early rejection of `emitAsync`, crash between effect and write | `Outbox`, `DeliveryContract` |
| `progression/` | experience, level, `experience_events`, daily counters | award for each event kind, reversal | duplicates, lock order, daily caps, boundaries of levels | `ExperienceRules`, `Progression` |
| `economy/` | wallets, ledger, check-ins, tip totals | check-in, tips to threads, users, moments, statements | idempotency keys under races, money in three wallets, snapshot older than the locks, the ledger's triggers | `Economy` |
| `admin/notification-campaign` | campaigns: status, checkpoint, attempts, lease | create, cancel, dispatch in batches | crash in a batch, overlapping runs, cancel against claim | `NotificationCampaign` |
| `auth/auth-session` | refresh tokens, password, lock-out, sanctions | login, refresh, logout, revoke, change of password, sanction, purge | rotation and replay of tokens against everything that ends sessions | `AuthSessions` |
| `auth/verification-code`, `auth/auth.service` | codes, their attempts, accounts | issue, mail, enter, register, reset, change the address | counted guesses, one mail a minute, codes that outlive a password | `Credentials` |
| `admin/admin-auth`, `auth/appeal-access` | challenges, administrator sessions, lock-outs | sign in in two steps, confirm, log out; appeal by password | what the guard read against a dismissal, two sign-ins at once | `AdminAccess` |
| `users/`, `mobile-push/` | names, pictures, cached profiles, devices | rename, dress, deactivate, view; register, push, sweep | the cache filled after it was dropped; phones that change hands while a push is on its way | `Accounts`, `UserRelations` |
| `posts/` | floors, replies, bodies, pins | create, upsert the body, edit, remove, pin | floor numbers, repeated requests, one body, what was read before the locks | `Content` |
| `subthreads/`, `threads/`, `access/` | threads, subthreads, members, invitations | publish, save, reorder, move, remove, join, appoint | publication against writing, removal against everything, blocks and privacy | `Threads`, `ThreadState`, `Content` |
| `direct-messages/` | the conversation of two users, its messages, archive marks | request, answer, send, recall, archive, read; lists, badge, pages | what was read before the transaction against everything the other user does; repeated sends | `DirectMessages` |
| `moments/` | moments, comments, likes, bookmarks, counters | create, comment, like, remove, bookmark; lists | counters kept by five operations in three services; answers to what goes | `Moments`, `Community` |
| `moderation/`, `reports/`, `admin/admin-accounts` | cases, reports, decisions, appeals, sanctions, roles | report, resolve, hide, restore, sanction, appeal, invite, hand over | decisions that meet; what an appeal undoes | `Moderation`, `Community` |
| `drafts/` | drafts in slots, with versions | save, edit, remove | two devices, requests that come twice | `Library` |
| `bookmarks/`, `subscriptions/`, `thread-reaction`, `tags/`, `taxonomy/` | folders, bookmarks, subscriptions, likes, tags, the cached list | add, move, remove, search, rename | access that ends between the check and the write; a cache that is filled late | `Shelves` |
| `threads/threads.service` (create), `thread-create-idempotency` | unpublished threads, request keys, tags | begin | the limit, the key and new tags under one lock | `Library` |
| `stickers/` | collections, imports, assets, the queue | import, adopt, order, remove, recover | the limit counts what is under way; jobs and workers are lost | `Stickers` |
| `media/` | image rows, attempts, objects, the BullMQ queue `image` | upload, confirm, process, recover, refer, mark, reclaim, clean | lost jobs and stalled workers, late uploads, reclamation against use | `MediaProcessing`, `Media` |
| `post-activity/`, `mentions/`, `notifications/` | mentions, notices, aggregated likes | listeners of posts, threads, likes and follows; inbox, badge, marks | events twice, overlapping, after the rows changed; two conditions that must agree | `Announcements`, `Reading` |
| `threads/thread-ranking`, `*-query`, `search/`, `thread-export` | the ranking and the visits in Redis, cached details, the latch of exports | rebuild, page, open, export | loss while it is staged and read; rows that change between pages; counts that are stored late | `Reading` |
| `users/user-activity`, `admin/admin.service` | none | profiles and their numbers; announcements in pages | conditions that are written several times; a failure part-way | `Reading` |
| `admin/site-operational-settings` | one row, a cache in each server process | pause, prolong, end; the guard of requests that write | servers that have not heard of a change | `AdminAccess` |
| `dice/`, `common/markdown-*` | none (text) | scan, roll, mask, preview | four scanners that have to tell code in the same way | `Markup` |
| `admin/admin-dashboard`, `config/`, `meta/`, `health/`, `email/`, `storage/` | none, or one row | | | not modelled |

PROJECT.json lists every part with its files and, under `hazards`, what is hard
to test in it, at its line.

## How the code is modelled

A transaction that takes its row locks first and reads afterwards is one step.
A transaction is several steps where something it reads before its locks, or
outside, can be stale when it is used, where it waits for a second lock, or
where its failure leaves something behind.  Isolation is the one the code asks
for: READ COMMITTED unless a transaction is serializable; a serializable one
keeps the snapshot of its first read and is refused when it writes what was
written since.  Ids are model values, contents are not modelled, and time is a
flag: a lease *is* over, a token *is* expired, and the step that sets the flag
may come at any moment.

### Outbox, DeliveryContract

`Outbox` is `OutboxDispatcher`, `OutboxService.enqueue` and the purge of the
clean-up job.  `row`, `available`, `created` are the columns of the table;
`pc`, `batch`, `cur`, `awaited` are where each dispatcher process is in
`dispatchBatch` and `deliver`; `detached` are listener calls that still run
after `emitAsync` rejected early; `applied` records which listener completed
which event.  A dispatcher may crash at any step and start again; the update in
the catch block may fail too (`Abandon`), which drops the rest of the batch.
`Casts` say which dispatchers run and which events may be committed: the
instance chooses one at first, the theorems hold for any.
`DeliveryContract` is the abstract promise: an event that was committed is owed
until it is settled, it is settled only when every listener carried it out, and
a settled event is never owed again.

### ExperienceRules, Progression

`ExperienceRules` holds `levelForExperience`, `progressionFor` and the effect of
`grantInTransaction`; `Progression` the listener of each event, the locks
`grantMany` takes one user at a time, and the two steps of `reverse`.  The
events come from a history that is chosen initially; each may be delivered any
number of times and by two workers at once.  Users may be deactivated.

### Economy

`checkIn` is one transaction under the lock of the user row.  A tip is followed
from its replay look-up (`prepareTip`) over the look at its target
(`lookAtTarget`), the beginning of the transaction, which fixes the snapshot
(`beginTip`), to its end (`completeTip`, `conflictTip`).  The ledger's triggers
and checks are the conditions under which its rows are accepted, and what the
read endpoints show (statements, totals) is computed from the rows and compared
with the wallets.  Requests, blocks, deletions and what owners hide come from a
plot that is chosen initially.

### NotificationCampaign

One campaign from its creation; `FindDue`, `ClaimDue`, `Load`, `Fetch`, `Notify`,
`Checkpoint`, `FinishRun` are the steps of a run of `dispatchDueCampaigns`, two
of which may overlap when a lease lapses.  Users are numbers in the order of
the checkpoint; one registers, one leaves during the delivery.

### AuthSessions

The refresh tokens of one user.  Everything that changes sessions holds the
lock of the user row, so it is one step, but for `refresh`, which is two
(`refreshRead`, `refreshRotate`): `logout` and `revokeSession` take no lock and
come between.  `over` and `missing` record what clients were told.

### ThreadState, Threads, Content

One thread under all its commands.  `ThreadState` declares the rows (`thread`,
`role` and `player` for `thread_members`, `sub`, `post`), what others may see of
them (`announced`, the events `post.created` of each post; `blocked`), and the
course every command takes: an action `read...` for the checks before the
transaction, `Lock` for the locks of the user rows with the checks made under
them, and an action named after the method for what happens under the lock of
the thread row.  `seen` is what a command remembers of its first step, `answer`
what its client is told.  Removals take the lock of the thread only, and the
clean-up of drafts none, so they come between the steps of all the others.
`Threads` has the commands on threads, subthreads, members and invitations;
`Content` adds those on posts, `block` and `unblock`, and states what holds of
the thread as a whole.  Subthread 1 is the default one.  A text is one model
value and the fact whether it holds dice; mentions, stickers, media references
and caches are left out (`Texts`), and `Keys` are the request ids of clients.
Versions are those the client read in the same step as the server's checks: an
older one is only refused.

### UserRelations, DirectMessages

`DirectMessages` is the one conversation of two users under every command of
`DirectMessagesService`.  A command decides outside of its transaction (an
action `read...`, which leaves its plan in `seen`), `check` is
`assertPairWritable` at the beginning of the transaction, which takes no lock,
and the action named after the method writes.  A message to an accepted
conversation is inserted and committed in two steps (`insertMessage`,
`commitMessage`): its `createdAt` is its place in `message`, and two of them
may become visible in the other order.  `relate` are the commands of
`UserRelationsService` and the deactivation in between.  The views are operators
on the rows: what the list shows of the conversation (`Lists`, `Card`), the
badge (`UnreadCount`), what may be sent (`CanInitiate`) and the pages before
and after a message (`Page`, `Before`, `After`).  The limits per minute and day
are a free choice to refuse; images, stickers and pushes are left out.

### MediaProcessing, Media

One image with everything that works on it.  `MediaProcessing` declares the row
(`media`), the rows of its attempts at previews and displays (`attempt`), its
objects (`store`: what a client uploaded, the master, what attempts uploaded,
what is still on its way) and its job; every request, worker and timer is a
process with a place, `at`, and what it remembers, `seen`.  It has
the worker (`processImage`, from `begin` to `completeMediaWithPreviews`), the
conversion of historical images, the queue it lives on (external: what BullMQ
does with attempts, lost locks and known job ids) and the recovery.  `Media` is
the references with the trigger on their foreign keys (`attach`), the marker
`orphanedAt`, the daily run, the cleaner, the confirmation of uploads, and time.
Every column of a time is kept by what it has passed; what is in the storage is `"good"`, `"bad"` or nothing; the
variants every image has go with its master.  `used` is not in the code: it
records whether anything referred to the image within the last seven days.

Days pass only while nobody is at work (no request or job lasts a day, and an
image does not stay in processing for one: the recovery looks every ten
minutes), and no week passes without a daily run (`weekPasses`).  The
reclamation of completed images, which a setting turns on, is on.  The quota of
uploads and the pages of the timers are left out; stickers are imported in
`Stickers`.

### Moments, Moderation, Community

`Moments` declares what members and administrators share: `item` (the
moments, comments, threads and posts, each with who wrote it and whether its
author, the owner of what it stands on, or an administrator removed it), the
reactions with the counters that are kept of them, reports, cases, decisions,
appeals, sanctions, roles and invitations, and has the three services of
moments; `Moderation` has hiding and restoring, sanctions, `ReportsService`,
`ModerationCasesService` and the roles of administrators.  A request is a record
of a plot; `pc` and `seen` are where it is and what it read without a lock (a
`read...` action).  `Community` puts them together and adds the lists, each an
operator for the `where` of its query: the feeds, the comments below a moment,
the links into them, what the station offers to administrators.  Reported direct
messages, pictures, pages and the audit log are left out.

### Shelves, Stickers, Library

What a member keeps.  `Shelves`: the record, access to threads, bookmarks in folders, subscriptions, likes,
tags with the list that is cached for an hour, and what owners do to a thread
meanwhile; the access check (`Accessible`) and the condition of the lists
(`Bookmarked`, `SubscriptionsOf`) are written as the code writes them, twice.
The cached list may not be read, written or dropped by Redis (`searchTags`,
`fillCache`, `invalidate`); categories, a table of their own, are left out.
`Stickers`: imports with their queue (two attempts, stalled jobs, the recovery
every few minutes), adoption, order, the limit of the collection.  `Library`:
the drafts of `DraftsService` with slots, keys and versions, the creation of
threads (`threadDraft` has the rows with their keys and tags: the look at the
key, the transaction under the lock of the user with its limit, the answer to a
twin that comes second), and the whole.

### Announcements, Markup, Reading, Projections

What is made from threads and posts after they are written.  `Announcements`:
the commands that emit events, the deliveries (an event is `pending`, `handling`
by a handler that goes through its notices one after the other, or `done`; it
may fail or stop at any of them and is delivered again), mentions and the
difference of an edit, the creation of notices by key; who writes in a thread
joins it, and whoever leaves is no player any more but stays a member, as
`exitMember` has it.  `promised` (history)
is what a new post owes to each user when it is written, and `disturbed` the
events during which something relevant changed, an event being open as long as
anyone delivers it.  `Reading`: the inbox, the badge
and the target of a notice; the ranking, staged in chunks, renamed and marked
with its size, with readers that wait for one rebuild together and read longer
and longer prefixes; the lists with their cursors, by value or by id; the export
with its latch.  `Markup` has the scanners of the text: a line is a sequence of
words, nodes, ticks and slashes, a text one of lines; which nodes the dice, the
mentions, the export and the pictures find is a recursive function of each.
`views` are the visits of a thread as the database, Redis and the detail cached
for those without an account know them; `visits` in it is a history.  A rebuild
is the only writer of the stored number and runs once in a process, so its look
at Redis and its update are one step.  Profiles (`Made`, `Played`, `Replied`)
and their `Summary` are operators with the conditions of their own queries;
`sendSystemNotification` takes pages of users, one step for each.  Search's cap
of three hits per thread, pinned floors on a first page and notices of moments
are left out.

### Credentials, AdminAccess, Accounts

`Credentials`: codes as rows with the minutes of their mails, one step for each
statement outside of a transaction (`claimExisting`, the mail, `markDelivered`);
a request enters a code that it read in a mailbox, or guesses.  `mailed`,
`accepted`, `begun`, `confirmed`, `misses` are histories: which code went where,
which mails were taken, what was confirmed with which code, what was entered
wrongly.  `AdminAccess`: the guard reads the session in one step and the command
uses it in a later one; challenges for signing in and for confirming, mailed to
the address that was read before they were made (`readAdmin`, `readEmail`).
`Accounts`: names, pictures, the end of an account, the profile cached for the
anonymous with its invalidation after the commit (a cache that Redis does not
read, write or drop is passed by, stays, or stays old), devices and the push job,
which reads the device, checks the terminal, and sends, in steps of their own.
`device` is the rows by their ids, those that were deleted marked (`live`): the
job and the sweep go by the id they read, whatever became of the row.  `at` is
the order of `updatedAt`, which decides which device is the newest.
The pauses of the site are in `AdminAccess`: `settings` is the row, `pauses[v]`
what server `v` keeps of it, `behind` (history) the servers that may know an
older row; a clock that moves while a pause is on ends them.

## Runs

Each run asks one part everything; a property of a run is the conjunction of
named parts, each stated and explained in its module.

| run | instance | what it shows |
|---|---|---|
| `outbox` | two dispatchers at one event with two listeners; two at an event and one that is rejected each time; one at both; one crash; fair | `DeliveryHolds`: an acknowledged event was applied by every listener, and two dispatchers meet on a row only after its lease ran out; `Outbox` implements `DeliveryContract`; every deliverable event is acknowledged in the end, behind a poisonous one too |
| `progression` | two users, two workers, four histories | experience is the sum of its events, caps hold, levels agree with experience and are announced; no lock cycle; a redelivery changes nothing |
| `economy` | two users, three plots of up to three tips and two days, pages of one and of two lines | a key pays once, an answer tells a payment; totals, balances and statements agree with the ledger, and the database's own checks accept it; no tip to or from the dead |
| `campaign` | two runs that overlap, two users and a late one, batches of one, one failure, one crash, fair | the checkpoint covers only notified users; a campaign that is SENT reached everybody; it is over or out of attempts one day |
| `auth_sessions` | three tokens, a revocation, one change of password | one terminal per platform; who was told that a terminal is over is right; no session outlives a password or a sanction; what ended does not come back |
| `accounts` | twenty-three plots of up to seven requests; two wrong entries are the limit, two minutes are watched, two servers | guesses are counted, addresses proven, mails spaced; codes end with the password they belong to; names change once a week and caches show them, pauses too; pushes end with the session |
| `content` | eleven plots: a thread that was published or is a draft, an owner, a collaborator and a guest, up to seven commands at once, one pin allowed | floors count up, one body, distinct orders, pins are visible; floors are announced once; repeats agree; posts and members are welcome when they are committed |
| `messages` | six stories of one conversation: none yet, asked for, taken back, declined, accepted, and relations that change; up to eight commands at once; pages of one | a request is one message, what both are shown agrees with the rows; repeated sends agree; an answer stands however requests, answers and recalls meet |
| `media` | eight stories of one image: uploaded, processed by two workers, used and abandoned, converted (twice), its job lost, never confirmed, failed; two attempts, at most two faults; fair | what is referred to stays, what is shown is stored, a row that is gone leaves nothing behind; the week of grace; nothing stays in processing |
| `community` | sixteen plots of up to six requests of two members and two administrators | counters are those of the reactions, and lists agree; one open case, report, sanction, super administrator, and an appeal that is granted undoes all; removals of authors stand; no reaction comes too late |
| `library` | eighteen plots of up to seven requests; two slots, two places, two tags, two threads begun; three faults in one; fair | slots, keys, folders, counters and positions are whole; lists show what may be opened; no draft is overwritten unseen; every import ends |
| `projections` | twenty-three plots of up to six requests, one or two handlers, at most two faults; lines of five atoms, texts of four lines; fair | everybody is told once and in the way that is due, and what the inbox offers opens; the ranking and the pages leave nothing out; profiles open and their numbers agree, visits count once; archives are whole and scanners agree; readers are answered |

**Bounds.**  The instances are small, but each makes the cases of its hazards
happen: two of whatever can meet, one crash or failure (a second adds only
repetitions of the first), bounds one above what the guards compare with.  A
plot is a set of requests that may arrive in any order and overlap in any way;
what never meets in the code (one user's drafts and another's) is in different
plots.  In `Projections` only the plots about the ranking let it be rebuilt by
the clock, or lost.  Limits are set to what a plot reaches: `MaxTries = 2` for five,
`Slots = 2` for five, `MaxDrafts = 2` for ten, `Limit = 2` for 200, `MaxDirect = 2` for ten, `Chunk = 1`
for 100 and 500.  Five atoms in a line are two runs of ticks with a node
between, four lines two fences.  Two dispatchers at a good event and a
poisonous one at the same time (1 444 494 states) were checked for safety by
hand; the theorems cover any number.

**Fairness.**  `Outbox!Fairness`: a dispatcher that is not dead goes on (weak
fairness of its steps, the event loop runs them), `@Interval(1000)` tries again
and again, so a row that can be claimed infinitely often is (strong), leases
run out by the clock, and crashes and failures stop at some time.
`NotificationCampaign!CampaignFairSpec`: the cron job, the clock and a started run go
on.  `ImageFairness` of `Media`: there is a worker that takes jobs, the recovery and the
daily run come back (they are timers), what is under way ends, and fifteen
minutes pass.  The cleaner of attempts needs none.  `Library!Fairness`: the
queue's workers and the recovery go on while the server does.
`Projections!Fairness`: a rebuild that has begun runs on, or fails.  Users are
never fair, and requests may stop anywhere; but a confirmation of an upload
that has begun ends.

## Proofs

Theorems hold for all values of the constants that satisfy the assumptions in
the modules; TLC evaluates those on the constants of the runs.  Each inductive
invariant was an invariant of the component's run before it was proved.
Modules with proofs end in `Proofs`; each begins with what it needs of finite
sets of numbers, of sequences and of sums.

* `JobsProofs`, of the outbox: `TypeOK`, `ProcessedMeansAllApplied`,
  `ExclusiveUnlessLapsed`, which are `DeliveryHolds` (`DeliveryIsKept`), and
  that `Outbox` implements `DeliveryContract` (`OutboxRefinesContract`).  The
  invariants alone are not inductive.  `EmittingOK` says what `deliver` knows
  while it waits (whoever is no longer awaited has applied the event),
  `CommittedOK` that nobody works on a row before it is committed, `LeaseOK`
  that a row somebody works on is available only after a lapse.
* `UserProofs`, of sessions: `SessionTypeOK`, `OneTerminalPerPlatform` and
  `SessionsMatchAccount` (its two parts have theorems of their own,
  `NewPasswordEndsAll` and `SanctionEndsAll`), which are `SessionsHold`
  (`SessionsAreKept`), `OverIsOver`, and the action property
  `TerminalsEndForGood`.  Every action ends tokens (`OnlyEnds`), opens a
  terminal (`Opens`) or rotates a token (`Rotates`): that is proved once
  (`StepForms`), and each conjunct of `SessionInvariant` is kept by these three
  forms.  `Shape` adds that families, and whatever somebody asked about, were
  made before.
* `ContentProofs`: `TypeOK`, `FloorsCountUp`, `OneBody`, `KeysAreSingle` and
  `OrdersDistinct`, for any number of users, posts, subthreads and requests at
  once, which are `StructureHolds` (`StructureIsSound`); `FloorsAreShown`; and
  the action properties `RepeatsAgree` and `OnlyTheWelcomeEnter`, so all four
  properties of the run.  The plots are assumed to begin in order
  (`PlotAssumption`).  `ContentInvariant` is the invariants with `Remembered`,
  what a request knows of the checks it made before its transaction: without it
  `createBody` might write into a subthread that never was, and `removeSub`
  remove the default one.  A step leaves the posts as they are but for their
  contents, or adds one that fits (`PostsMove`); `LinksKeep`, `CountKeeps` and
  `BodiesKeep` prove that this is enough, and one lemma for each writing command
  that it is such a step.
* `JobsProofs`, of campaigns: `CampaignOK`, `CheckpointIsDelivered` and
  `SentReachedEverybody`, which are `CampaignHolds` (`CampaignIsKept`), for any
  users, dispatchers, batch size and limit.  A dispatcher that has lost its
  lease goes on with the batch it holds, so the invariant has to say of every
  one (`RunOK`) that whoever is up to its cursor is served, that its batch
  leaves out nobody behind the cursor, and a short batch nobody at all.
  `BatchOfCursor` proves that of the query.
* `JobsProofs`, of images: `ImageHolds` (`ImagesAreWhole`) and the action
  property `GraceHolds` (`OrphansHaveAWeek`), all of the run but its liveness
  property, for any workers, attempts, requests and numbers of faults.
  `MediaInvariant` says of a worker that has the master in the storage, or is
  about to complete the image with previews, that what it will show is there
  unless it may not be published any more (`WorksWell`); of the cleaner, that
  what it removes cannot be published (`CleansWell`); of an upload that is on
  its way, that its attempt still keeps the row (`UploadsKept`); of the daily run, that a
  marker it has not looked at since the references changed may be wrong, and one
  it has looked at is not (`Markers`).  `Ends` is why a claim is safe: whatever
  is old enough to be claimed has nobody at work on it (`Resting`,
  `ClaimingFindsRest`), and nobody begins to work on what is claimed, so that the keys the
  daily run has collected stay those of all attempts.  A step moves one process
  (`StepOf`); `GoingOnKeeps`, `LookingKeeps` and `SweepingKeeps` prove once what
  is kept when the row only goes on its way and the objects stay.  Stories are
  assumed to begin in order (`StoriesAssumption`), and nothing of their faults.
  Once a confirmation that the queue failed has taken the image back from a
  worker (`taken`, history, see below), what the worker writes is nobody's:
  `Ends` and `GoneLeavesNothing` except that, the other parts hold all the same.
* `DirectMessagesProofs`: `ConversationHolds`, `RepeatsAgree` and
  `AnswersStand`, all three properties of the run, for any requests of the two
  users.  `SightFits` says what a command may still believe of the
  conversation when it comes to write (a transition that was read as open is
  open, or the compare-and-set will fail), `AnswerFits` that a message that is
  not committed belongs to one transaction alone.  A step is an `Effect`: it
  moves one request, adds at most one row, and takes the conversation one way.
  The plots are assumed to begin with at most one request message
  (`BeginsWell`).
* `UserProofs`, of experience: `LevelsHold`, `NoLockCycle` and the action property
  `RedeliveryChangesNothing`, all three properties of the run, for any users,
  workers, histories, rules and thresholds.  `ProgressionInvariant` says of a
  transaction that grants (`GrantingOK`) that it holds the rows of exactly the
  users it has come to, that each of them adds up (`RowOK`) and forgets nothing
  that was committed, and that its event, if it was handled before, has left
  them as they were; of one that reverses (`ReversingOK`), that what it is about
  is there; and that an event that was handled is settled for all whom it names:
  awarded, reversed, or beyond a cap that stays reached (`NotGrantableLater`).
  Without the last a second delivery could award what the first one could not.
  Of any workers, however many, one waits for none of the others: the one whose
  next user comes last, since nobody has locked a user behind the one he wants
  next (`SomebodyMayGo`).  Events are assumed to be of kinds the listener
  handles and grants of types that have a rule (`ProgressionAssumption`), and
  types that share a counter to have one cap (`RulesAssumption`).
* `EconomyProofs`: `RetriesArePaidOnce`, `BooksBalance` (`TheBooksBalance`; its
  parts `TypeOK`, `LedgerExplainsTotals`, `LedgerAccepts`, `MoneyConserved` and
  `StatementsAddUp` have theorems of their own) and the action property
  `TipsOnlyAmongTheLiving`, so all three properties of the run, for any users,
  amounts, requests, numbers of attempts and lengths of pages.  Sums:
  three wallets that change and keep what they have together keep the whole
  (`SumIsMovedOnly`), one that grows makes it grow by as much
  (`SumGrowsWithOne`), and `RowConserves` puts that beside the new row.  Statements:
  `NewestFirstIs` says that the list of a user's rows goes down and leaves none
  out, `PageOfStatement` what a page takes of it, and `StatementHasAllLines` that
  the pages together are the list, whatever their length; then each line says
  what the next one says and its amount, because the row below it in the ledger
  is the last one that spoke of the wallet before (`LedgerExplainsTotals`).  That a request id is paid once rests on what a transaction may go
  by although its snapshot is old (`AttemptFits`): if the sender has paid
  since, his wallet is among the rows that have changed, and if the thread was
  hidden since, the thread is; `TouchFor` marks them in every step that
  commits (`OvertakenRequest`).  `RowExplains` proves once that a row which
  continues the totals it speaks of keeps the whole ledger explaining them;
  `PaymentExplains` and `checkInHolds` that the two kinds of rows do.
* `AccountsProofs`: `CodesHold`, `SecretsEndTogether`, `NamesHold` and
  `PushesEndWithTheSession`, all four properties of the run, for any users,
  plots and requests, numbers of tries, servers and terminals.  `IInv` has the
  types, what holds of the rows, and for each family of places in which a
  request may stand what it remembers there is still worth (`CodeSight`,
  `AdminSight`, `ProfilesSound`, `PausesSound`, `PushesSound`).  A request that
  mails a code, for one, knows that the row was made for whom it asks and for
  the address it mails to, or that it is a new password; a request that is about
  to write a name knows that the account has been there.  That guesses are
  counted needs that whoever missed is refused and cannot miss again (`Counts`);
  that a code is mailed once a minute, that no mail is of a later minute than
  the one in which its row was last claimed (`Spaced`).  Steps are proved by families
  (`CodeStepsKeep`, `AdminStepsKeep`, `PauseStepsKeep`, `UserStepsKeep`,
  `DeviceStepsKeep`, and those of time): a step moves one request among the
  places of its family (`Moves`) and leaves those of the others alone
  (`Elsewhere`).  What is there at first is assumed to be in order
  (`AccountsAssumption`: no code of an account that is none, one terminal for a
  user), as the plots of the run are.

* `LibraryProofs`: `KeptIsWhole`, `ListsAreTrue` and the action property
  `NothingUnseenIsOverwritten`, all of the run but its liveness property, for
  any members, threads, tags, drafts, imports, requests and limits.
  `LibraryInvariant` has a part for each shelf (`ShelvesKept`, `TagsKept`,
  `DraftsKept`, `ThreadDraftsKept`, `StickersKept`) and one for where requests
  stand (`Placed`), and says what a request that has read may go by: a
  search about to fill the cache shows what the registry shows, unless it ran
  into a change or a drop was refused (`SearchesHold`); an import that completes gives back
  the room it was counted for; a request id begins one thread, and whoever is told that
  its thread is there asked for this one (`ThreadsBeginOnce`, which the run
  checks too, as a part of `KeptIsWhole`).  That no
  two stickers share a position is that the positions are 0, 1, 2... and as
  many as the stickers (`PositionsDiffer`); that there is a name for each new
  tag, `RoomForAll` and `AsMany`.  What a step leaves alone is proved once
  for each part (the lemmas that end in `Stay` or `Stays`).  Requests are
  assumed to name what there is (`RequestsAssumption`), and plots to begin in
  order (`PlotsAssumption`).
* `CommunityProofs`: `ViewsAgree`, `CasesHold` and the action properties
  `RemovalsStand` and `NobodyIntrudes`, all four properties of the run, for any
  members, moments, comments, folders, cases and requests.
  `CommunityInvariant` has a part for each group of tables and one for the
  requests (`Placed`, `RowsToCome`).  The counters agree because each is the
  number of a set that the same step changes by one row (`ReactionsKept`); that
  a removal below the lock counts once rests on the comment being read again
  there.  `HangsTogether` (a reply hangs below a comment of the same moment that
  is no reply itself) is what the links and the filters need to agree with the
  pages; it rests on the reply being looked for on the moment it is sent to
  (`moment-comments.service.ts:321`).
  `DecisionsStand` ties what is hidden and who is sanctioned to an active
  decision, and is why an overturned one has no effect left; `OneOpenCase`,
  `OnePendingReport`, `OneOpenSanction` and `OneSuperAdmin` are the unique
  indexes.  The last is of those who have not left: an account that left keeps
  its role, and the seat of one that left may be handed on, or handed over to
  it.  Plots are assumed to begin with tables that fit together, and with a row
  yet to come for whatever is going to be written (`BeginsWell`, in
  `CommunityAssumption`).

Sums and pages are recursive, and an induction over them cannot be cited: the
library's principles take an operator as a parameter.  The lemmas go by a least
counterexample instead.  A set of numbers, or of finite sets ordered by
inclusion, that is not empty has a least member (`WFMin`); for the set of those
where a statement fails, the equation of the recursive function at that member
leads to a smaller one (`AddsAgree`, `AddsExist`, `StatementHasAllLines`).

Only model-checked: liveness and whatever needs ENABLED (the prover has no rule
for fairness here); what the recursive functions of `Markup` compute; and the
invariants of `Projections` (`InboxHolds`, `ListsAreCovered`, `ExportsHold`),
whose proofs are not written.

## What the models show beyond the properties

The properties are what holds.  Where the code does less than one would like,
or less than a comment or a document says, the property is weaker, and this is
why.  Lines are those of `src/src/`.

*Jobs and delivery*

* A campaign whose process dies in its tenth attempt stays SENDING for ever,
  although `docs/modules/jobs.md` says that it becomes FAILED;
  `EndsWhileAttemptsLast` therefore ends with the attempts.  `cancel`
  (`admin/notification-campaign.service.ts:146`) overwrites a campaign that is
  being delivered.
* When the image queue takes a job and fails all the same, `rollback`
  (`media/media.service.ts:241`) makes the image UPLOADING while a worker has it.
  If it is older than a day the daily run may reclaim it in the middle, and the
  objects the worker writes then belong to nobody.  `GoneLeavesNothing` excepts
  such an image (`taken`, set by `rollback` when a worker is at work); the story
  `MCAbandoned` comes to it.  An attempt of an image that stays UPLOADING is
  never cleaned, and protects its row from the daily run.
* A retried import is refused when the collection is full although its twin
  holds the last place (`stickers/stickers.service.ts:375`).

*Sessions and accounts*

* `revokeSession` and `logout` answer SESSION_NOT_FOUND of a terminal that a
  refresh is just rotating and that stays signed in
  (`auth/auth-session.service.ts:426`, `:368`).
* An expired code that one user left keeps another from asking for one for the
  same address until the daily clean-up (`auth/verification-code.service.ts:93`);
  a reset that overlaps a change of address leaves a code that goes to the new
  address and is never accepted.
* `rename` and `setAvatar` that meet a deactivation write to the deleted account
  (`users/users.service.ts:273`, `:475`); of two deactivations both succeed.
* "One active session" of an administrator is a partial unique index: the loser
  of a race gets an internal error.  Two challenges may be open at once; a wrong
  password is not counted there.  A sign-in that meets the end of the role leaves
  a session which the guard refuses.
* A request for a new password that overlaps a change of address mails the
  code the account has by then to the address it was asked for with, which is
  the old one (`auth/verification-code.service.ts:93` finds the code by user, and
  `auth/auth.service.ts:306` mails to what was typed): `AddressesAreProven` says
  of a new password that its code went to an address the account had when it was
  asked for.  The plot `Stale` shows it.
* A phone that is handed over between the look at its device and the push still
  shows it; when the newest device is dead no other is tried
  (`mobile-push/mobile-push.processor.ts:27`).
* A server that did not make the change itself obeys the old pauses for up to
  five seconds, and so does one that read the row before it was written and
  keeps it after (`admin/site-operational-settings.service.ts:130`).
* The profile cached for the anonymous may be five minutes old when a read
  overlaps a change (`users/users.service.ts:187`), or when Redis refuses to
  drop it: `CacheService.del` (`redis/cache.service.ts:75`) swallows the
  failure, and nobody tries again.  `NamesHold` excepts both (`suspect`,
  history).  A process that dies between the commit and the drop is a request
  that stays at `invalidate`.

*Threads and posts*

* An edit, a body or a subthread that is written while the thread is being
  published decides by what it read before (`posts/posts.service.ts:503`,
  `subthreads/subthreads.service.ts:71`): its dice stay pending in a published
  thread, against `posts.service.ts:282` and `docs/modules/dice.md`.
* `threads/threads.service.ts:296` reads whether a thread is a draft before its
  transaction: a thread that is published in between is erased.
* Tags that are added one by one may exceed five (`threads/thread-tags.service.ts:38`).

*Messages and money*

* A tip can commit after a block it should have obeyed: the block relation is
  read from a snapshot that is older than the locks (`beginTip`, `Refused`;
  `economy/economy.service.ts:397`).
* A message can be committed after a block, and become visible behind a newer
  one, where a client that polls with `after` does not find it; `lastMessageAt`
  may go back.  A second recall of a request that was taken back and asked again
  cancels the new one (`recall` looks at the conversation, not at the message it
  read).

*Notices, lists, text*

* A notice that fails in `parseAndCreate`, or an edit that mentions who was
  already told, makes a second notice, although `docs/modules/notifications.md`
  says "每个用户最多一条"; `post-events.listener.ts:95` uses the contents the event
  keeps; a like, an unlike and a like count one person twice; a deleted notice
  comes again with a redelivery.
* A notice of likes remembers the last 100 of them
  (`notifications/notification-delivery.service.ts:178`): a like that is
  redelivered after 100 others is counted again, and makes a second notice when
  the first has been read.  `ToldOnce` and `LikesCountOnce` speak of notices
  that still remember all their likes; the plot `Liking` shows the others.
* A listener that has lost its lease goes on sending while the event, delivered
  by another, is done.  What changes in the thread meanwhile reaches it, so
  `Open` counts such an event as under way, and `EveryoneIsTold` says nothing of
  one that is changed then (plot `Straying`).
* The recommended list repeats or misses threads when the ranking is rebuilt
  between two pages, although `threads/thread-query.service.ts:314` says
  "保证每帖只出现一次"; a cursor that is the id of a row drops one row when its row
  is filtered out.  A reader that waited for a rebuild during which Redis lost
  part of the staged key gets a part of the list.  `PagesCover` says under which
  conditions nothing is missed.
* An announcement to all takes its users by pages after the id of the last one
  (`admin/admin.service.ts:68`): when that user deletes the account before the
  next page, the next user is left out, which is why `AnnouncementsReach` has a
  condition.  When a page fails the rest hears nothing, and a new attempt has a
  new key and tells the first ones twice.
* After Redis has lost its counts, a detail that was read before (or is cached)
  starts the count at an older number than the one stored: visits are missed,
  and the number shown goes back, until the next rebuild
  (`threads/thread-query.service.ts:151`); `VisitsCountOnce` leaves such threads
  out.  `findById` checks the access and reads in two statements: a thread that
  is closed in between is still shown once.
* The scanners agree on lines without an escaped tick whose runs have one
  length, and on texts whose fences have one length and are closed.  Elsewhere
  the dice roll in `` \`node` `` what the export takes for code; a fence that is
  not closed is code for dice and mentions and not for the export; code over
  several lines is seen by none.  New fences are refused when a post is written:
  this concerns old texts.

*Community and library*

* A report that is made while its case is resolved stays PENDING in a closed
  case (`reports/reports.service.ts:87`); of two resolutions of a case both
  succeed; an appeal that is UPHELD may overwrite one that is OVERTURNED;
  overturning restores what another active decision hid; two restores without a
  lock and a removal by the author bring a thread or a post back
  (`moderation/moderation.service.ts:463`), which is why `RemovalsStand` is about
  moments and comments; a dismissal that meets a transfer leaves no super
  administrator, which is why there is at most one.
* A reply to a comment that was hidden at the preliminary read and restored
  before the lock looks at the blocks of its author, and not at those of the
  author of the comment that both hang below
  (`moments/moment-comments.service.ts:319`).
* A subscription whose roles were read before they changed is made afterwards
  (`subscriptions/subscriptions.service.ts:33`); a bookmark of a thread that was
  closed after the preliminary read (`bookmarks/bookmarks.service.ts:180`); a
  list of tags that is an hour old when a search overlaps a change
  (`tags/tags.service.ts:27`), or when Redis refuses to drop it
  (`redis/cache.service.ts:75`): `ListsAreTrue` excepts both (`suspect`); of two saves of one draft the repeated one may get
  a conflict (`drafts/drafts.service.ts:62`).
* Of two creations of a thread with one key the second may be refused for the
  limit of ten, although its twin made the tenth: the limit is checked before
  the key (`threads/threads.service.ts:82`).  A key whose thread was removed
  answers that there is none.

## Not modelled

* Calls of other systems: the mail server, the object store, the image library,
  Firebase.  The models let each of them answer, fail, or take its time.
* The encoders of previews and displays, the quota of uploads, the pages of the
  timers: bytes and volumes.
* The layout of an exported document, the cards of lists, the counts and curves
  of dashboards, the audit log, health and configuration: they keep no state
  that another part relies on.
* The grammar of dice, of links and of references in texts.
* The throttler and the caches of anonymous lists.
* Scripts, tests of load and tests of the API: they drive the program and are
  not part of it.

## Plan

What could be added next: proofs about `Projections`; the composition of the outbox with its listeners
in `Announcements` as a refinement; the quota of uploads.
