-------------------------- MODULE NotificationCampaign --------------------------
(***************************************************************************)
(* NotificationCampaignService: one scheduled notification campaign, from  *)
(* the claim by dispatchDueCampaigns through the batches of dispatch to    *)
(* SENT, with the administrator's cancel.  The interval fires every 30 s   *)
(* whether the last run is over or not, so several runs exist at once.     *)
(*                                                                         *)
(* Users are numbered in the order of their ids; ids grow with the time of *)
(* registration.  The campaign leads to no thread, so everybody in the     *)
(* audience is eligible.  Times are the two facts the code compares them   *)
(* for: whether scheduledAt has come, whether the lease has lapsed.        *)
(***************************************************************************)
EXTENDS Integers, FiniteSets, FiniteSetsExt

CONSTANTS
    Runs,          \* runs of dispatchDueCampaigns that may overlap
    First,         \* users 1..First are registered when the campaign is made
    Last,          \* bound: users 1..Last may register
    BatchSize,     \* DISPATCH_BATCH_SIZE
    MaxAttempts,   \* MAX_DISPATCH_ATTEMPTS
    MaxFailures,   \* bound: errors thrown in dispatch
    MaxDeaths      \* bound: crashes of the process

ASSUME CampaignAssumption ==
    /\ First \in Nat
    /\ Last \in Nat
    /\ First <= Last
    /\ BatchSize \in Nat \ {0}
    /\ MaxAttempts \in Nat \ {0}
    /\ MaxFailures \in Nat
    /\ MaxDeaths \in Nat

VARIABLES
    status,     \* status of the campaign
    due,        \* scheduledAt <= now
    overdue,     \* lastAttemptAt is DISPATCH_LEASE_MS ago
    attempts,   \* dispatchAttempts
    cursor,     \* dispatchCursor, 0 for null (recipientCount, which nothing reads, is left out)
    notified,   \* users with the notification of the campaign
    top,        \* users 1..top are registered
    gone,       \* users with deletedAt set
    canceling,  \* an administrator has read SCHEDULED and is about to cancel
    run,        \* run[w]: the step a run is at, its cursor and its batch
    failures,
    deaths

columns == <<status, due, overdue, attempts, cursor>>
campaignVars == <<columns, notified, top, gone, canceling, run, failures, deaths>>

Idle == [pc |-> "idle", cursor |-> 0, batch |-> {}]

Dispatchable ==
    \/ status = "SCHEDULED" /\ due
    \/ status = "SENDING" /\ overdue /\ attempts < MaxAttempts

Audience == (1..top) \ gone

(* What findMany returns from cursor c: with a cursor, the first user whose *)
(* id is not below it is skipped, be it the cursor's own user or not.       *)
NextBatch(c) ==
    LET from == {u \in Audience : u >= c}
        rest == IF c = 0 \/ from = {} THEN from ELSE from \ {Min(from)}
    IN  {u \in rest : Cardinality({v \in rest : v < u}) < BatchSize}

-------------------------------------------------------------------------------
CampaignInit ==
    /\ status = "SCHEDULED"
    /\ due = FALSE
    /\ overdue = FALSE
    /\ attempts = 0
    /\ cursor = 0
    /\ notified = {}
    /\ top = First
    /\ gone = {}
    /\ canceling = FALSE
    /\ run = [w \in Runs |-> Idle]
    /\ failures = 0
    /\ deaths = 0

MoveTo(w, pc) == run' = [run EXCEPT ![w].pc = pc]

(* dispatchDueCampaigns reads the campaigns that are due. *)
FindDue(w) ==
    /\ run[w].pc = "idle"
    /\ Dispatchable
    /\ MoveTo(w, "claim")
    /\ UNCHANGED <<columns, notified, top, gone, canceling, failures, deaths>>

(* Mutant of ClaimDue: only a scheduled campaign is ever claimed. *)
ClaimScheduledOnly(w) ==
    /\ run[w].pc = "claim"
    /\ IF status = "SCHEDULED" /\ due
       THEN /\ status' = "SENDING"
            /\ attempts' = attempts + 1
            /\ overdue' = FALSE
            /\ MoveTo(w, "load")
       ELSE /\ MoveTo(w, "idle")
            /\ UNCHANGED <<status, attempts, overdue>>
    /\ UNCHANGED <<due, cursor, notified, top, gone, canceling, failures, deaths>>

(* The guarded updates of dispatch: the campaign may have been taken since. *)
ClaimDue(w) ==
    /\ run[w].pc = "claim"
    /\ IF Dispatchable
       THEN /\ status' = "SENDING"
            /\ attempts' = attempts + 1
            /\ overdue' = FALSE
            /\ MoveTo(w, "load")
       ELSE /\ MoveTo(w, "idle")
            /\ UNCHANGED <<status, attempts, overdue>>
    /\ UNCHANGED <<due, cursor, notified, top, gone, canceling, failures, deaths>>

(* The campaign is read again: its cursor is where the run starts. *)
Load(w) ==
    /\ run[w].pc = "load"
    /\ run' = [run EXCEPT ![w].pc = "fetch", ![w].cursor = cursor]
    /\ UNCHANGED <<columns, notified, top, gone, canceling, failures, deaths>>

(* Mutant of Fetch: the checkpoint is saved before the batch is delivered. *)
FetchAndCheckpoint(w) ==
    /\ run[w].pc = "fetch"
    /\ LET batch == NextBatch(run[w].cursor)
       IN  IF batch = {}
           THEN MoveTo(w, "finish") /\ UNCHANGED cursor
           ELSE /\ run' = [run EXCEPT ![w].pc = "notify", ![w].batch = batch]
                /\ cursor' = Max(batch)
    /\ UNCHANGED <<status, due, overdue, attempts, notified, top, gone, canceling, failures, deaths>>

Fetch(w) ==
    /\ run[w].pc = "fetch"
    /\ LET batch == NextBatch(run[w].cursor)
       IN  IF batch = {}
           THEN MoveTo(w, "finish")
           ELSE run' = [run EXCEPT ![w].pc = "notify", ![w].batch = batch]
    /\ UNCHANGED <<columns, notified, top, gone, canceling, failures, deaths>>

(* notify: the unique (user, event key) makes a second delivery vanish. *)
Notify(w) ==
    /\ run[w].pc = "notify"
    /\ notified' = notified \cup run[w].batch
    /\ MoveTo(w, "checkpoint")
    /\ UNCHANGED <<columns, top, gone, canceling, failures, deaths>>

(* The checkpoint, if the campaign is still SENDING; a short batch is the last. *)
Checkpoint(w) ==
    /\ run[w].pc = "checkpoint"
    /\ LET batch == run[w].batch
       IN  /\ run' = [run EXCEPT ![w] =
                [pc |-> IF Cardinality(batch) < BatchSize THEN "finish" ELSE "fetch",
                 cursor |-> Max(batch), batch |-> {}]]
           /\ IF status = "SENDING"
              THEN /\ cursor' = Max(batch)
                   /\ overdue' = FALSE
              ELSE UNCHANGED <<cursor, overdue>>
    /\ UNCHANGED <<status, due, attempts, notified, top, gone, canceling, failures, deaths>>

(* The last update of dispatch asks for no status. *)
FinishRun(w) ==
    /\ run[w].pc = "finish"
    /\ status' = "SENT"
    /\ run' = [run EXCEPT ![w] = Idle]
    /\ UNCHANGED <<due, overdue, attempts, cursor, notified, top, gone, canceling, failures, deaths>>

(* A query of dispatch throws, that of a notify possibly after its rows were *)
(* made, or one of the catch does, which ends the run.                       *)
Throw(w) ==
    /\ run[w].pc # "idle"
    /\ failures < MaxFailures
    /\ failures' = failures + 1
    /\ \/ UNCHANGED notified
       \/ run[w].pc = "notify" /\ notified' = notified \cup run[w].batch
    /\ run' = [run EXCEPT ![w] = IF run[w].pc = "failed" THEN Idle ELSE [Idle EXCEPT !.pc = "failed"]]
    /\ UNCHANGED <<columns, top, gone, canceling, deaths>>

(* The catch of dispatchDueCampaigns: after the last attempt it is FAILED. *)
HandleFailure(w) ==
    /\ run[w].pc = "failed"
    /\ status' = IF status = "SENDING" /\ attempts >= MaxAttempts THEN "FAILED" ELSE status
    /\ run' = [run EXCEPT ![w] = Idle]
    /\ UNCHANGED <<due, overdue, attempts, cursor, notified, top, gone, canceling, failures, deaths>>

(* The process goes, and with it every run. *)
Die ==
    /\ deaths < MaxDeaths
    /\ deaths' = deaths + 1
    /\ run' = [w \in Runs |-> Idle]
    /\ canceling' = FALSE
    /\ UNCHANGED <<columns, notified, top, gone, failures>>

-------------------------------------------------------------------------------
(* cancel: looks at the status, then updates whatever it is by then. *)
CancelRead ==
    /\ ~canceling
    /\ status = "SCHEDULED"
    /\ canceling' = TRUE
    /\ UNCHANGED <<columns, notified, top, gone, run, failures, deaths>>

CancelWrite ==
    /\ canceling
    /\ canceling' = FALSE
    /\ status' = "CANCELED"
    /\ UNCHANGED <<due, overdue, attempts, cursor, notified, top, gone, run, failures, deaths>>

(* Time passes, users come and go. *)
ComeDue ==
    /\ ~due
    /\ due' = TRUE
    /\ UNCHANGED <<status, overdue, attempts, cursor, notified, top, gone, canceling, run, failures, deaths>>

Lapse ==
    /\ status = "SENDING"
    /\ ~overdue
    /\ overdue' = TRUE
    /\ UNCHANGED <<status, due, attempts, cursor, notified, top, gone, canceling, run, failures, deaths>>

Register ==
    /\ top < Last
    /\ top' = top + 1
    /\ UNCHANGED <<columns, notified, gone, canceling, run, failures, deaths>>

Deactivate(u) ==
    /\ u \in Audience
    /\ gone' = gone \cup {u}
    /\ UNCHANGED <<columns, notified, top, canceling, run, failures, deaths>>

RunStep(w) ==
    \/ FindDue(w) \/ ClaimDue(w) \/ Load(w) \/ Fetch(w) \/ Notify(w)
    \/ Checkpoint(w) \/ FinishRun(w) \/ HandleFailure(w)

CampaignNext ==
    \/ \E w \in Runs : RunStep(w) \/ Throw(w)
    \/ Die
    \/ CancelRead \/ CancelWrite
    \/ ComeDue \/ Lapse
    \/ Register \/ \E u \in 1..top : Deactivate(u)

CampaignSpec == CampaignInit /\ [][CampaignNext]_campaignVars

(* The interval keeps firing, a run that neither throws nor dies goes on,  *)
(* and time passes.                                                        *)
CampaignFairSpec ==
    /\ CampaignSpec
    /\ \A w \in Runs : WF_campaignVars(RunStep(w))
    /\ WF_campaignVars(ComeDue)
    /\ WF_campaignVars(Lapse)
    /\ WF_campaignVars(CancelWrite)

-------------------------------------------------------------------------------
Steps == {"idle", "claim", "load", "fetch", "notify", "checkpoint", "finish", "failed"}

(* Attempts never pass their limit, the checkpoint is a registered user, a *)
(* batch is held only on its way to delivery, and who reads a batch reads  *)
(* past the run's own cursor.                                              *)
CampaignOK ==
    /\ status \in {"SCHEDULED", "SENDING", "SENT", "CANCELED", "FAILED"}
    /\ due \in BOOLEAN
    /\ overdue \in BOOLEAN
    /\ attempts \in 0..MaxAttempts
    /\ top \in First..Last
    /\ cursor \in 0..top
    /\ notified \subseteq 1..top
    /\ gone \subseteq 1..top
    /\ canceling \in BOOLEAN
    /\ failures \in 0..MaxFailures
    /\ deaths \in 0..MaxDeaths
    /\ \A w \in Runs :
         /\ run[w].pc \in Steps
         /\ run[w].cursor \in 0..top
         /\ run[w].batch \subseteq 1..top
         /\ run[w].batch # {} <=> run[w].pc \in {"notify", "checkpoint"}
         /\ \A u \in run[w].batch : u > run[w].cursor

(* A user left out by the cursor's skip sits behind a user who is gone. *)
Excused(u) == \E v \in gone : v < u

(* The checkpoint never runs ahead of the deliveries, whatever crashes,    *)
(* throws or overlaps: up to the persisted cursor everybody who is still   *)
(* active has the notification.  Only a user right behind a deactivated    *)
(* cursor may be skipped.                                                  *)
CheckpointIsDelivered ==
    \A u \in Audience : u <= cursor => u \in notified \/ Excused(u)

(* A campaign is SENT only when everybody who was there when it was made,  *)
(* and still is, has been notified.                                        *)
SentReachedEverybody ==
    status = "SENT" => \A u \in (1..First) \ gone : u \in notified \/ Excused(u)

(* Nobody is left out, neither behind the cursor nor at the end.           *)
NobodyIsLeftOut == CheckpointIsDelivered /\ SentReachedEverybody

(* Claims, checkpoints and runs that overlap keep their ranges, and nobody *)
(* is passed over.                                                         *)
CampaignHolds == CampaignOK /\ NobodyIsLeftOut

(* Whatever throws, dies or overlaps, a campaign goes on until it is over  *)
(* or its attempts are spent: it is never forgotten before.                *)
EndsWhileAttemptsLast == <>(status \in {"SENT", "FAILED", "CANCELED"} \/ attempts = MaxAttempts)

===============================================================================
