---------------------------- MODULE MediaProcessing ----------------------------
(***************************************************************************)
(* One image of a user: its row in media, the rows of its attempts to make *)
(* previews (media_preview_attempts), its objects in the object storage,   *)
(* its job in the BullMQ queue "image" and the things that refer to it.    *)
(* Everybody who works on the image is a process: at[x] is the place x has *)
(* come to, seen[x] what x remembers from the places before.               *)
(*                                                                         *)
(* Then the image worker (ImageProcessor, MediaProcessingService and what  *)
(* they call), the queue that feeds it, the recovery of images whose job   *)
(* was lost, and the conversion of historical images that are shown as a   *)
(* GIF.                                                                    *)
(***************************************************************************)
EXTENDS Integers, FiniteSets

CONSTANTS
    Attempts,    \* bound: the attempts there can be, positive numbers
    Workers,     \* slots of the image worker (concurrency 2)
    Recovery,    \* MediaProcessingRecoveryService
    Cleaner,     \* cleanupMediaPreviewAttempts
    Sweeper,     \* cleanupOrphanMedia
    Redis,       \* the store of the queue
    Nobody,      \* no owner of a job
    Plots        \* bound: what there is at first, and who does what

(* Times are kept by what they have passed: 15 minutes of processing, five *)
(* of a lease, seven days of being an orphan.                              *)
MediaRows ==
    [status : {"UPLOADING", "PROCESSING", "COMPLETED", "FAILED", "GONE"},
     claimed : BOOLEAN,                              \* deletionClaimedAt
     staging : BOOLEAN,                              \* stagingKey
     started : {"none", "fresh", "stale"},           \* processingStartedAt
     orphaned : {"no", "recent", "old"},             \* orphanedAt
     preview : {0} \cup Attempts,                    \* previewVariants
     display : {0} \cup Attempts,                    \* displayAsset
     lease : {"none", "running", "lapsed", "failed"}, \* displayStatus
     tries : 0..3]                                   \* displayAttempts

(* An attempt has a time until which it may publish, and is settled a week *)
(* later.                                                                  *)
AttemptRows ==
    [status : {"none", "PENDING", "PUBLISHED", "CLEANING"},
     expiry : {"live", "expired", "settled"},
     passes : 0..1]        \* of the cleaner: none, or some

NoAttempt == [status |-> "none", expiry |-> "live", passes |-> 0]

(* The object clients upload, the master, those of the attempts; and the   *)
(* uploads of attempts that are still on their way.                        *)
Stores ==
    [staging : {"none", "good", "bad"}, master : BOOLEAN,
     derived : SUBSET Attempts, flying : SUBSET Attempts]

JobStates == {"missing", "waiting", "active", "completed", "failed"}
Jobs == [state : JobStates, made : 0..2, stalls : 0..1, owner : Workers \cup {Nobody}]

Sights ==
    [staging : BOOLEAN, display : {0} \cup Attempts, made : 0..2, tries : 0..3, attempt : {0} \cup Attempts,
     good : BOOLEAN, state : JobStates \cup {""}, others : BOOLEAN, keys : SUBSET Attempts]

(* Commands of clients and scripts: value is what an upload puts into the  *)
(* storage, by the thing that comes to refer to the image or stops to.     *)
Commands == [id : Nat, op : STRING, value : {"-", "good", "bad"}, by : STRING]

PlotFields == {"media", "age", "attempt", "store", "job", "refs", "animated", "requests", "active", "faults"}

ASSUME MediaAssumption ==
    /\ Attempts \subseteq Nat \ {0}
    /\ Recovery \notin {Cleaner, Sweeper, Redis, Nobody} /\ Cleaner \notin {Sweeper, Redis, Nobody}
    /\ Sweeper \notin {Redis, Nobody} /\ Redis # Nobody
    /\ {Recovery, Cleaner, Sweeper, Redis, Nobody} \cap Workers = {}
    /\ \A p \in Plots : PlotFields \subseteq DOMAIN p

Requests == UNION {p.requests : p \in Plots}

ASSUME RequestsAssumption == Requests \cap (Workers \cup {Recovery, Cleaner, Sweeper}) = {}

Processes == Requests \cup Workers \cup {Recovery, Cleaner, Sweeper}

VARIABLES
    plot,
    media,
    age,         \* since createdAt: young, a day, a week
    attempt,
    store,
    job,
    refs,        \* what refers to the image, over all foreign keys
    used,        \* has anything referred to it in the last seven days?
    healed,      \* has the daily run looked at the marker since refs changed?
    taken,       \* history: a confirmation took the image back from a worker that had its job
    faults,      \* how many faults may still happen
    at,
    seen

useVars == <<refs, used, healed, taken>>
dataVars == <<media, attempt, store, job>>
imageVars == <<plot, dataVars, age, useVars, faults, at, seen>>

-------------------------------------------------------------------------------
(* The course of a process *)

NoSight ==
    [staging |-> FALSE, display |-> 0, made |-> 0, tries |-> 0, attempt |-> 0,
     good |-> FALSE, state |-> "", others |-> FALSE, keys |-> {}]

(* Where a process is when it has nothing to do (any more). *)
Rest(x) == IF x \in Requests THEN "done" ELSE "idle"

(* Something outside fails: the storage, the encoder, Redis, a process.    *)
OneFault == faults > 0 /\ faults' = faults - 1
NoFault == UNCHANGED faults

Go(x, place, sight) ==
    /\ at' = [at EXCEPT ![x] = place]
    /\ seen' = [seen EXCEPT ![x] = sight]
    /\ UNCHANGED <<plot, age>>

Goto(x, place) == Go(x, place, seen[x])
Finish(x) == Go(x, Rest(x), NoSight)

(* A request that is made. *)
Arrives(r, op) == r.op = op /\ r \in plot.requests /\ at[r] = "new"

(* A timer that goes off. *)
Wakes(x) == x \in plot.active /\ at[x] = "idle"

-------------------------------------------------------------------------------
(* The row *)

Exists == media.status # "GONE"
Processable == media.status = "PROCESSING" /\ ~media.claimed
Showable == media.status \in {"PROCESSING", "COMPLETED"} /\ ~media.claimed

Unsettled(a) ==
    /\ attempt[a].status \in {"PENDING", "CLEANING"}
    /\ attempt[a].passes = 0 \/ attempt[a].expiry # "settled"

(* The attempts with a row, and those that may publish. *)
Recorded == {a \in Attempts : attempt[a].status # "none"}
MayPublish(a) == attempt[a].status = "PENDING" /\ attempt[a].expiry = "live"

(* An attempt is entered, with the key of its object, before its upload    *)
(* starts.  A free one is one that never was.                              *)
FreeAttempts == {a \in Attempts : attempt[a].status = "none" /\ a \notin store.derived \cup store.flying}

StartAttempt(a) ==
    /\ attempt' = [attempt EXCEPT ![a] = [NoAttempt EXCEPT !.status = "PENDING"]]
    /\ store' = [store EXCEPT !.flying = @ \cup {a}]

-------------------------------------------------------------------------------
(* removeStagingObject: the object first, then the row forgets the key.    *)
(* After a failure the key stays.                                          *)
removeObject(x, next) ==
    /\ at[x] = "drop"
    /\ \/ OneFault /\ Goto(x, next) /\ UNCHANGED store
       \/ NoFault /\ Goto(x, "forget") /\ store' = [store EXCEPT !.staging = "none"]
    /\ UNCHANGED <<media, attempt, job, useVars>>

forgetKey(x, next) ==
    /\ at[x] = "forget"
    /\ Goto(x, next)
    /\ NoFault
    /\ media' = IF Exists THEN [media EXCEPT !.staging = FALSE] ELSE media
    /\ UNCHANGED <<attempt, store, job, useVars>>

(* markFailed, but for the removal of the object that follows it. *)
markFailed(x, next) ==
    /\ at[x] = "markFailed"
    /\ NoFault
    /\ IF Processable
       THEN /\ media' = [media EXCEPT !.status = "FAILED", !.started = "none"]
            /\ Goto(x, IF media.staging THEN "drop" ELSE next)
       ELSE Goto(x, next) /\ UNCHANGED media
    /\ UNCHANGED <<attempt, store, job, useVars>>

(* enqueueProcessing: BullMQ ignores a job whose id it knows already.      *)
NewJob == [state |-> "waiting", made |-> 0, stalls |-> 0, owner |-> Nobody]
Enqueued == IF job.state = "missing" THEN NewJob ELSE job

-------------------------------------------------------------------------------
(* BullMQ, as it is used: two attempts (a job that waits for its second is  *)
(* waiting).  A worker that stops, or that lets the lock of its job lapse, *)
(* loses the job; it is given out once more, and fails when it is lost a   *)
(* second time.  A worker that has lost its job does not know.             *)

loseJob(w) ==
    /\ job.state = "active" /\ job.owner = w
    /\ OneFault
    /\ job' = IF job.stalls = 0
              THEN [job EXCEPT !.state = "waiting", !.stalls = 1, !.owner = Nobody]
              ELSE [job EXCEPT !.state = "failed", !.owner = Nobody]
    /\ \/ Finish(w)
       \/ UNCHANGED <<plot, age, at, seen>>
    /\ UNCHANGED <<media, attempt, store, useVars>>

(* Redis loses the job. *)
forgetJob ==
    /\ Redis \in plot.active
    /\ job.state # "missing"
    /\ OneFault
    /\ job' = [job EXCEPT !.state = "missing", !.owner = Nobody]
    /\ UNCHANGED <<plot, media, attempt, store, age, useVars, at, seen>>

(* process() has returned or thrown. *)
succeedJob(w) ==
    /\ w \in Workers
    /\ at[w] = "succeeded"
    /\ job' = IF job.owner = w THEN [job EXCEPT !.state = "completed", !.owner = Nobody] ELSE job
    /\ Finish(w)
    /\ NoFault
    /\ UNCHANGED <<media, attempt, store, useVars>>

failJob(w) ==
    /\ w \in Workers
    /\ at[w] = "failed"
    /\ job' = IF job.owner # w
              THEN job
              ELSE [job EXCEPT !.made = @ + 1, !.owner = Nobody,
                               !.state = IF job.made + 1 >= 2 THEN "failed" ELSE "waiting"]
    /\ Finish(w)
    /\ NoFault
    /\ UNCHANGED <<media, attempt, store, useVars>>

(* What an error leads to: the last attempt marks the image as failed; a   *)
(* conversion gives its lease back.                                        *)
Failing(x) ==
    IF x \in Requests THEN "giveBack" ELSE IF seen[x].made + 1 >= 2 THEN "markFailed" ELSE "failed"

Fails(x) == Go(x, Failing(x), [seen[x] EXCEPT !.attempt = 0]) /\ UNCHANGED <<media, attempt, store, job, useVars>>

-------------------------------------------------------------------------------
(* processImage *)

(* A worker takes the job and reads the row; it has nothing to do unless   *)
(* the image is in processing.                                             *)
begin(w) ==
    /\ w \in Workers
    /\ Wakes(w)
    /\ job.state = "waiting"
    /\ NoFault
    /\ IF Processable
       THEN /\ job' = [job EXCEPT !.state = "active", !.owner = w]
            /\ Go(w, "download", [NoSight EXCEPT !.made = job.made, !.staging = media.staging,
                                                 !.display = media.display])
       ELSE /\ job' = [job EXCEPT !.state = "completed"]
            /\ UNCHANGED <<plot, age, at, seen>>
    /\ UNCHANGED <<media, attempt, store, useVars>>

(* An image without a staging key is one from before there were any, and   *)
(* is found under its own key.  The inspection may refuse what it finds.   *)
Source(x) == IF seen[x].staging THEN store.staging # "none" ELSE store.master

download(x) ==
    /\ at[x] = "download"
    /\ \/ Source(x) /\ NoFault /\ Goto(x, IF plot.animated /\ seen[x].display = 0 THEN "register" ELSE "upload")
       \/ Source(x) /\ OneFault /\ Goto(x, Failing(x))
       \/ ~Source(x) /\ NoFault /\ Goto(x, Failing(x))
    /\ UNCHANGED <<dataVars, useVars>>

(* ensureAnimationDisplay: the attempt is entered under the lock that the  *)
(* reclamation takes, then the upload starts.  (Where the model has no     *)
(* attempt left the encoder fails.)                                        *)
registerDisplay(x) ==
    /\ at[x] = "register"
    /\ \/ OneFault /\ Fails(x)
       \/ (~Showable \/ FreeAttempts = {}) /\ NoFault /\ Fails(x)
       \/ /\ Showable
          /\ \E a \in FreeAttempts :
               /\ \A b \in FreeAttempts : a <= b
               /\ StartAttempt(a)
               /\ Go(x, "publish", [seen[x] EXCEPT !.attempt = a])
          /\ NoFault
          /\ UNCHANGED <<media, job, useVars>>

(* The upload has succeeded.  The attempt is published, unless its time is *)
(* over or another attempt has been: then the image has that one.          *)
AfterDisplay(x) == IF x \in Requests THEN "done" ELSE "upload"

publishDisplay(x) ==
    /\ at[x] = "publish"
    /\ seen[x].attempt \in store.derived
    /\ NoFault
    /\ LET a == seen[x].attempt
           published == MayPublish(a) /\ Showable /\ media.display = 0
       IN  \/ /\ published
              /\ attempt' = [attempt EXCEPT ![a].status = "PUBLISHED"]
              /\ media' = [media EXCEPT !.display = a, !.lease = "none"]
              /\ Goto(x, AfterDisplay(x))
              /\ UNCHANGED <<store, job, useVars>>
           \/ /\ ~published
              /\ IF Showable /\ media.display # 0
                 THEN Goto(x, AfterDisplay(x))
                 ELSE Go(x, Failing(x), [seen[x] EXCEPT !.attempt = 0])
              /\ UNCHANGED <<dataVars, useVars>>

(* The upload is given up when the time of the attempt is over, or fails.  *)
abandonDisplay(x) ==
    /\ at[x] = "publish"
    /\ attempt[seen[x].attempt].expiry # "live" \/ seen[x].attempt \notin store.flying \cup store.derived
    /\ NoFault
    /\ Fails(x)

(* The master and the variants that every image has. *)
upload(w) ==
    /\ w \in Workers
    /\ at[w] = "upload"
    /\ \/ OneFault /\ Fails(w)
       \/ /\ NoFault
          /\ store' = IF seen[w].staging THEN [store EXCEPT !.master = TRUE] ELSE store
          /\ Go(w, IF plot.animated THEN "preview" ELSE "complete", [seen[w] EXCEPT !.attempt = 0])
          /\ UNCHANGED <<media, attempt, job, useVars>>

(* stageOptionalPreviews: whatever fails, or lasts too long, the image is  *)
(* completed without previews.                                             *)
stagePreviews(w) ==
    /\ w \in Workers
    /\ at[w] = "preview"
    /\ NoFault
    /\ \/ Goto(w, "complete") /\ UNCHANGED <<dataVars, useVars>>
       \/ /\ Exists
          /\ \E a \in FreeAttempts :
               /\ \A b \in FreeAttempts : a <= b
               /\ StartAttempt(a)
               /\ Go(w, "staging", [seen[w] EXCEPT !.attempt = a])
          /\ UNCHANGED <<media, job, useVars>>

endPreviews(w) ==
    /\ w \in Workers
    /\ at[w] = "staging"
    /\ NoFault
    /\ \/ Go(w, "complete", [seen[w] EXCEPT !.attempt = 0])
       \/ seen[w].attempt \in store.derived /\ Goto(w, "complete")
    /\ UNCHANGED <<dataVars, useVars>>

(* completeMediaWithPreviews: the image is completed with the previews, if *)
(* they may still be published, in one transaction.                        *)
completeMediaWithPreviews(w) ==
    /\ w \in Workers
    /\ at[w] = "complete"
    /\ NoFault
    /\ IF ~Processable
       THEN Goto(w, "succeeded") /\ UNCHANGED <<media, attempt, used>>
       ELSE LET a == seen[w].attempt
                publishes == a # 0 /\ MayPublish(a)
            IN  /\ media' = [media EXCEPT !.status = "COMPLETED", !.started = "none", !.orphaned = "recent",
                                          !.preview = IF publishes THEN a ELSE 0]
                /\ attempt' = IF publishes THEN [attempt EXCEPT ![a].status = "PUBLISHED"] ELSE attempt
                /\ used' = TRUE
                /\ Go(w, IF seen[w].staging THEN "drop" ELSE "succeeded", [seen[w] EXCEPT !.good = TRUE])
    /\ UNCHANGED <<store, job, refs, healed, taken>>

(* After the staging object is gone. *)
EndOf(w) == IF seen[w].good THEN "succeeded" ELSE "failed"

WorkerSteps(w) ==
    \/ begin(w) \/ download(w) \/ registerDisplay(w) \/ publishDisplay(w) \/ abandonDisplay(w)
    \/ upload(w) \/ stagePreviews(w) \/ endPreviews(w) \/ completeMediaWithPreviews(w)
    \/ markFailed(w, "failed") \/ removeObject(w, EndOf(w)) \/ forgetKey(w, EndOf(w))
    \/ succeedJob(w) \/ failJob(w)

(* Nobody works on the image. *)
WorkPlaces == {"download", "register", "publish", "upload", "preview", "staging", "complete"}
Resting == \A w \in Workers : at[w] \notin WorkPlaces

-------------------------------------------------------------------------------
(* processHistoricalDisplay: an execution of a job of the script that      *)
(* makes displays for completed images.  A lease of five minutes and at    *)
(* most three tries.                                                       *)

Historical == media.status = "COMPLETED" /\ ~media.claimed /\ media.display = 0

readHistorical(r) ==
    /\ Arrives(r, "display-backfill")
    /\ NoFault
    /\ IF Historical /\ media.tries < 3
       THEN Go(r, "lease", [seen[r] EXCEPT !.tries = media.tries])
       ELSE Finish(r)
    /\ UNCHANGED <<dataVars, useVars>>

leaseHistorical(r) ==
    /\ at[r] = "lease"
    /\ NoFault
    /\ IF Historical /\ media.tries = seen[r].tries /\ media.lease # "running"
       THEN media' = [media EXCEPT !.lease = "running", !.tries = @ + 1] /\ Goto(r, "download")
       ELSE UNCHANGED media /\ Finish(r)
    /\ UNCHANGED <<attempt, store, job, useVars>>

giveBack(r) ==
    /\ at[r] = "giveBack"
    /\ NoFault
    /\ media' = IF media.lease \in {"running", "lapsed"} /\ media.tries = seen[r].tries + 1
                THEN [media EXCEPT !.lease = "failed"]
                ELSE media
    /\ Finish(r)
    /\ UNCHANGED <<attempt, store, job, useVars>>

BackfillSteps(r) ==
    \/ readHistorical(r) \/ leaseHistorical(r)
    \/ download(r) \/ registerDisplay(r) \/ publishDisplay(r) \/ abandonDisplay(r)
    \/ giveBack(r)

-------------------------------------------------------------------------------
(* MediaProcessingRecoveryService, every ten minutes *)

findStale ==
    /\ Wakes(Recovery)
    /\ media.status = "PROCESSING" /\ media.started # "fresh"
    /\ Goto(Recovery, "look")
    /\ NoFault
    /\ UNCHANGED <<dataVars, useVars>>

(* Mutant of reconcileOne: a job that has completed is left alone. *)
reconcileLost ==
    /\ at[Recovery] = "look"
    /\ Go(Recovery,
          CASE job.state = "failed" -> "markFailed"
            [] job.state = "missing" -> "requeue"
            [] OTHER -> "idle",
          [NoSight EXCEPT !.state = job.state])
    /\ NoFault
    /\ UNCHANGED <<dataVars, useVars>>

reconcileOne ==
    /\ at[Recovery] = "look"
    /\ Go(Recovery,
          CASE job.state = "failed" -> "markFailed"
            [] job.state \in {"completed", "missing"} -> "requeue"
            [] OTHER -> "idle",
          [NoSight EXCEPT !.state = job.state])
    /\ NoFault
    /\ UNCHANGED <<dataVars, useVars>>

(* A job that was seen completed is removed first.  Another may be in its  *)
(* place by then: BullMQ removes it too, unless a worker has it, and then  *)
(* the call fails.                                                         *)
requeue ==
    /\ at[Recovery] = "requeue"
    /\ NoFault
    /\ LET removes == seen[Recovery].state = "completed"
       IN  IF removes /\ job.state = "active"
           THEN Finish(Recovery) /\ UNCHANGED job
           ELSE Goto(Recovery, "stamp") /\ job' = IF removes THEN NewJob ELSE Enqueued
    /\ UNCHANGED <<media, attempt, store, useVars>>

stamp ==
    /\ at[Recovery] = "stamp"
    /\ NoFault
    /\ media' = IF media.status = "PROCESSING" THEN [media EXCEPT !.started = "fresh"] ELSE media
    /\ Finish(Recovery)
    /\ UNCHANGED <<attempt, store, job, useVars>>

RecoverySteps ==
    \/ findStale \/ reconcileOne \/ requeue \/ stamp
    \/ markFailed(Recovery, "idle") \/ removeObject(Recovery, "idle") \/ forgetKey(Recovery, "idle")
===============================================================================
