-------------------------------- MODULE Media ---------------------------------
(***************************************************************************)
(* The life of an image, from the upload of a client to the end of its row   *)
(* and its objects: the worker and the recovery (MediaProcessing), what      *)
(* refers to the image, and what removes it when nothing does: the marker    *)
(* orphanedAt (MediaReferenceService), the daily run (cleanupOrphanMedia)    *)
(* and the cleaner of unpublished attempts; the requests of clients          *)
(* (MediaService), and the passing of time.                                  *)
(***************************************************************************)
EXTENDS MediaProcessing

Referenced == refs # {}

(* A change of refs; the marker is set with it, in one transaction.        *)
Refer(to, marker) ==
    /\ refs' = to
    /\ media' = IF media.status = "COMPLETED" THEN [media EXCEPT !.orphaned = marker] ELSE media
    /\ used' = TRUE
    /\ healed' = FALSE
    /\ UNCHANGED taken

-------------------------------------------------------------------------------
(* References *)

(* The writer looks whether the image may be used, ...                     *)
readAttach(r) ==
    /\ Arrives(r, "attach")
    /\ NoFault
    /\ IF media.status = "COMPLETED" /\ ~media.claimed THEN Goto(r, "attach") ELSE Finish(r)
    /\ UNCHANGED <<dataVars, useVars>>

(* Mutant of attach: there is no trigger. *)
attachUnguarded(r) ==
    /\ at[r] = "attach"
    /\ NoFault
    /\ Finish(r)
    /\ IF Exists THEN Refer(refs \cup {r.by}, "no") ELSE UNCHANGED <<media, useVars>>
    /\ UNCHANGED <<attempt, store, job>>

(* ... and a trigger on its foreign key takes the row of the image and     *)
(* looks again; reconcileMediaIds then finds the reference.                *)
attach(r) ==
    /\ at[r] = "attach"
    /\ NoFault
    /\ Finish(r)
    /\ IF Exists /\ ~media.claimed
       THEN Refer(refs \cup {r.by}, "no")
       ELSE UNCHANGED <<media, useVars>>
    /\ UNCHANGED <<attempt, store, job>>

(* reconcileMediaIds looks for other references, and marks what it saw.    *)
readDetach(r) ==
    /\ Arrives(r, "detach")
    /\ NoFault
    /\ IF r.by \in refs
       THEN Go(r, "detach", [NoSight EXCEPT !.others = (refs # {r.by})])
       ELSE Finish(r)
    /\ UNCHANGED <<dataVars, useVars>>

detach(r) ==
    /\ at[r] = "detach"
    /\ NoFault
    /\ Refer(refs \ {r.by}, IF seen[r].others THEN "no" ELSE "recent")
    /\ Finish(r)
    /\ UNCHANGED <<attempt, store, job>>

(* A row that refers to the image goes by a cascade: nothing is marked.    *)
cascade(r) ==
    /\ Arrives(r, "cascade") /\ r.by \in refs
    /\ NoFault
    /\ Refer(refs \ {r.by}, media.orphaned)
    /\ Finish(r)
    /\ UNCHANGED <<attempt, store, job>>

ReferenceSteps(r) == readAttach(r) \/ attach(r) \/ readDetach(r) \/ detach(r) \/ cascade(r)

-------------------------------------------------------------------------------
(* cleanupOrphanMedia, once a day *)

(* cleanupCompletedStagingObjects *)
sweepStaging ==
    /\ Wakes(Sweeper)
    /\ Goto(Sweeper, IF media.status \in {"COMPLETED", "FAILED"} /\ media.staging THEN "drop" ELSE "heal")
    /\ NoFault
    /\ UNCHANGED <<dataVars, useVars>>

(* Mutant of findMarked: marks of images that are referred to stay. *)
findNothing ==
    /\ at[Sweeper] = "heal"
    /\ Goto(Sweeper, "heal2")
    /\ healed' = TRUE
    /\ NoFault
    /\ UNCHANGED <<dataVars, refs, used, taken>>

(* reconcileAllMarkers: images that are marked though something refers to  *)
(* them, then those that are not though nothing does.                      *)
findMarked ==
    /\ at[Sweeper] = "heal"
    /\ Goto(Sweeper, IF media.status = "COMPLETED" /\ media.orphaned # "no" /\ Referenced THEN "unmark" ELSE "heal2")
    /\ healed' = TRUE
    /\ NoFault
    /\ UNCHANGED <<dataVars, refs, used, taken>>

unmark ==
    /\ at[Sweeper] = "unmark"
    /\ media' = IF Exists THEN [media EXCEPT !.orphaned = "no"] ELSE media
    /\ Goto(Sweeper, "heal")
    /\ NoFault
    /\ UNCHANGED <<attempt, store, job, useVars>>

findUnmarked ==
    /\ at[Sweeper] = "heal2"
    /\ Goto(Sweeper, IF media.status = "COMPLETED" /\ media.orphaned = "no" /\ ~Referenced THEN "mark" ELSE "find")
    /\ NoFault
    /\ UNCHANGED <<dataVars, useVars>>

mark ==
    /\ at[Sweeper] = "mark"
    /\ media' = IF Exists /\ media.orphaned = "no" THEN [media EXCEPT !.orphaned = "recent"] ELSE media
    /\ Goto(Sweeper, "heal2")
    /\ NoFault
    /\ UNCHANGED <<attempt, store, job, useVars>>

(* mediaDisplayCleanupProtection: nobody converts the image, and every     *)
(* upload of an attempt that was not published has been cleaned up after   *)
(* once, and a week is over.                                               *)
Protected == media.lease = "running" \/ \E a \in Attempts : Unsettled(a)

(* The reclamation of completed images, which is off by default, is on.    *)
Eligible ==
    /\ \/ media.claimed
       \/ media.status = "UPLOADING" /\ age # "young"
       \/ media.status = "FAILED" /\ age = "week"
       \/ media.status = "COMPLETED" /\ media.orphaned = "old"
    /\ ~Protected

findStaleMedia ==
    /\ at[Sweeper] = "find"
    /\ Goto(Sweeper, IF Exists /\ Eligible THEN "claim" ELSE "idle")
    /\ NoFault
    /\ UNCHANGED <<dataVars, useVars>>

(* claimUnreferenced: under the lock of the row all is looked at again.    *)
claimUnreferenced ==
    /\ at[Sweeper] = "claim"
    /\ NoFault
    /\ IF Exists /\ Eligible /\ ~Referenced
       THEN media' = [media EXCEPT !.claimed = TRUE] /\ Goto(Sweeper, "collect")
       ELSE UNCHANGED media /\ Goto(Sweeper, "idle")
    /\ UNCHANGED <<attempt, store, job, useVars>>

collectKeys ==
    /\ at[Sweeper] = "collect"
    /\ Go(Sweeper, "remove", [NoSight EXCEPT !.keys = Recorded, !.staging = media.staging])
    /\ NoFault
    /\ UNCHANGED <<dataVars, useVars>>

(* Objects are removed one by one; one that stays keeps the row.           *)
removeMany ==
    /\ at[Sweeper] = "remove"
    /\ \/ /\ NoFault
          /\ store' = [store EXCEPT !.master = FALSE, !.derived = @ \ seen[Sweeper].keys,
                                    !.staging = IF seen[Sweeper].staging THEN "none" ELSE @]
          /\ Goto(Sweeper, "delete")
       \/ /\ OneFault
          /\ \/ store' = [store EXCEPT !.master = FALSE]
             \/ store' = [store EXCEPT !.derived = @ \ seen[Sweeper].keys]
          /\ Goto(Sweeper, "idle")
    /\ UNCHANGED <<media, attempt, job, useVars>>

deleteMany ==
    /\ at[Sweeper] = "delete"
    /\ media' = [media EXCEPT !.status = "GONE"]
    /\ attempt' = [a \in Attempts |-> NoAttempt]
    /\ Finish(Sweeper)
    /\ NoFault
    /\ UNCHANGED <<store, job, useVars>>

SweeperSteps ==
    \/ sweepStaging \/ removeObject(Sweeper, "heal") \/ forgetKey(Sweeper, "heal")
    \/ findMarked \/ unmark \/ findUnmarked \/ mark
    \/ findStaleMedia \/ claimUnreferenced \/ collectKeys \/ removeMany \/ deleteMany

-------------------------------------------------------------------------------
(* cleanupMediaPreviewAttempts, every ten minutes *)

(* An attempt that was not published in time is claimed by its status; it  *)
(* cannot be published any more then.                                      *)
claimAttempt ==
    /\ Wakes(Cleaner)
    /\ media.status \in {"COMPLETED", "FAILED"}
    /\ \E a \in Attempts :
         /\ attempt[a].status \in {"PENDING", "CLEANING"}
         /\ attempt[a].expiry # "live"
         /\ attempt' = [attempt EXCEPT ![a].status = "CLEANING"]
         /\ Go(Cleaner, "clean", [NoSight EXCEPT !.attempt = a])
    /\ NoFault
    /\ UNCHANGED <<media, store, job, useVars>>

(* Two seconds for the removal; a failure is repeated in ten minutes, a    *)
(* success checked again in some days, for uploads that arrive later.      *)
cleanAttempt ==
    /\ at[Cleaner] = "clean"
    /\ LET a == seen[Cleaner].attempt
       IN  \/ /\ NoFault
              /\ store' = [store EXCEPT !.derived = @ \ {a}]
              /\ attempt' = IF attempt[a].status = "CLEANING"
                            THEN [attempt EXCEPT ![a].passes = 1]
                            ELSE attempt
           \/ /\ OneFault
              /\ store' \in {store, [store EXCEPT !.derived = @ \ {a}]}
              /\ UNCHANGED attempt
    /\ Finish(Cleaner)
    /\ UNCHANGED <<media, job, useVars>>

CleanerSteps == claimAttempt \/ cleanAttempt

-------------------------------------------------------------------------------
(* Clients *)

(* A PUT to the signed address, which is good for ten minutes. *)
put(r) ==
    /\ Arrives(r, "put")
    /\ age = "young"
    /\ store' = [store EXCEPT !.staging = r.value]
    /\ Finish(r)
    /\ NoFault
    /\ UNCHANGED <<media, attempt, job, useVars>>

(* confirmUpload *)
readConfirm(r) ==
    /\ Arrives(r, "confirm")
    /\ NoFault
    /\ IF media.status = "UPLOADING" /\ ~media.claimed
       THEN Go(r, "head", [NoSight EXCEPT !.staging = media.staging])
       ELSE Finish(r)
    /\ UNCHANGED <<dataVars, useVars>>

(* Sizes and types are compared with those that were announced. *)
head(r) ==
    /\ at[r] = "head"
    /\ \/ OneFault /\ Finish(r)
       \/ /\ NoFault
          /\ CASE store.staging = "none" -> Finish(r)
               [] store.staging = "good" -> Goto(r, "promote")
               [] store.staging = "bad" -> Goto(r, "invalidate")
    /\ UNCHANGED <<dataVars, useVars>>

(* What does not fit is removed, even if the image is not UPLOADING now.   *)
invalidate(r) ==
    /\ at[r] = "invalidate"
    /\ NoFault
    /\ media' = IF media.status = "UPLOADING" /\ ~media.claimed THEN [media EXCEPT !.status = "FAILED"] ELSE media
    /\ Goto(r, IF seen[r].staging THEN "drop" ELSE "done")
    /\ UNCHANGED <<attempt, store, job, useVars>>

promote(r) ==
    /\ at[r] = "promote"
    /\ NoFault
    /\ IF media.status = "UPLOADING" /\ ~media.claimed
       THEN media' = [media EXCEPT !.status = "PROCESSING", !.started = "fresh"] /\ Goto(r, "enqueue")
       ELSE UNCHANGED media /\ Finish(r)
    /\ UNCHANGED <<attempt, store, job, useVars>>

(* After an error the job may be there all the same. *)
enqueueProcessing(r) ==
    /\ at[r] = "enqueue"
    /\ \/ NoFault /\ job' = Enqueued /\ Finish(r)
       \/ OneFault /\ job' \in {job, Enqueued} /\ Goto(r, "rollback")
    /\ UNCHANGED <<media, attempt, store, useVars>>

(* A worker that has the job goes on, with an image that is UPLOADING.      *)
rollback(r) ==
    /\ at[r] = "rollback"
    /\ NoFault
    /\ media' = IF media.status = "PROCESSING" THEN [media EXCEPT !.status = "UPLOADING", !.started = "none"] ELSE media
    /\ taken' = (taken \/ (media.status = "PROCESSING" /\ ~Resting))
    /\ Finish(r)
    /\ UNCHANGED <<attempt, store, job, refs, used, healed>>

ConfirmSteps(r) ==
    \/ readConfirm(r) \/ head(r) \/ invalidate(r) \/ promote(r) \/ enqueueProcessing(r) \/ rollback(r)
    \/ removeObject(r, "done") \/ forgetKey(r, "done")

-------------------------------------------------------------------------------
(* Uploads on their way, and time *)

land(a) ==
    /\ a \in store.flying
    /\ store' = [store EXCEPT !.flying = @ \ {a}, !.derived = @ \cup {a}]
    /\ UNCHANGED <<plot, media, attempt, job, age, useVars, faults, at, seen>>

lose(a) ==
    /\ a \in store.flying
    /\ OneFault
    /\ store' = [store EXCEPT !.flying = @ \ {a}]
    /\ UNCHANGED <<plot, media, attempt, job, age, useVars, at, seen>>

expire(a) ==
    /\ attempt[a].status # "none" /\ attempt[a].expiry = "live"
    /\ attempt' = [attempt EXCEPT ![a].expiry = "expired"]
    /\ UNCHANGED <<plot, media, store, job, age, useVars, faults, at, seen>>

(* Fifteen minutes of processing, five minutes of a conversion. *)
processTooLong ==
    /\ media.started = "fresh"
    /\ media' = [media EXCEPT !.started = "stale"]
    /\ UNCHANGED <<plot, attempt, store, job, age, useVars, faults, at, seen>>

lapse ==
    /\ media.lease = "running"
    /\ media' = [media EXCEPT !.lease = "lapsed"]
    /\ UNCHANGED <<plot, attempt, store, job, age, useVars, faults, at, seen>>

(* Days pass while nothing is under way: no request, job or upload lasts a *)
(* day, nor does an image stay in processing for one.  A week sees a daily *)
(* run.                                                                    *)
Quiet ==
    /\ \A x \in Processes : at[x] \in {"new", Rest(x)}
    /\ store.flying = {}
    /\ media.status # "PROCESSING" /\ Exists

(* Finished jobs are kept for a day, failed ones for a week. *)
WithoutJob(states) == IF job.state \in states THEN [job EXCEPT !.state = "missing"] ELSE job

dayPasses ==
    /\ Quiet
    /\ age = "young"
    /\ age' = "day"
    /\ job' = WithoutJob({"completed"})
    /\ UNCHANGED <<plot, media, attempt, store, useVars, faults, at, seen>>

Settle(a) == [a EXCEPT !.expiry = IF @ = "expired" THEN "settled" ELSE @]

weekPasses ==
    /\ Quiet
    /\ healed /\ (media.status = "UPLOADING" => media.claimed)
    /\ age' = "week"
    /\ media' = [media EXCEPT !.orphaned = IF @ = "recent" THEN "old" ELSE @]
    /\ attempt' = [a \in Attempts |-> Settle(attempt[a])]
    /\ job' = WithoutJob({"completed", "failed"})
    /\ used' = (refs # {})
    /\ UNCHANGED <<plot, store, refs, healed, taken, faults, at, seen>>

-------------------------------------------------------------------------------
(* A story begins with an image that is in order and that nobody works on. *)
BeginsWell(p) ==
    /\ p.media \in MediaRows /\ p.media.status # "GONE" /\ ~p.media.claimed
    /\ p.media.status = "PROCESSING" <=> p.media.started # "none"
    /\ p.media.orphaned # "no" => p.media.orphaned = "recent" /\ p.media.status = "COMPLETED"
    /\ p.age \in {"young", "day", "week"} /\ (p.age = "week" => p.media.status \in {"COMPLETED", "FAILED"})
    /\ p.attempt \in [Attempts -> AttemptRows]
    /\ p.store \in Stores
    /\ p.media.status = "COMPLETED" => p.store.master
    /\ \A a \in {p.media.preview, p.media.display} \ {0} : a \in p.store.derived /\ p.attempt[a].status = "PUBLISHED"
    /\ \A a \in p.store.derived : p.attempt[a].status # "none"
    /\ \A a \in p.store.flying : p.attempt[a].status \in {"PENDING", "CLEANING"} /\ p.attempt[a].expiry # "settled"
    /\ p.store.derived \cap p.store.flying = {}
    /\ p.job \in Jobs /\ p.job.state # "active" /\ p.job.owner = Nobody
    /\ p.job.state = "waiting" => p.job.made <= 1
    /\ p.refs # {} => p.media.status = "COMPLETED"
    /\ p.faults \in Nat
    /\ \A r \in p.requests : r.op = "put" => r.value \in {"good", "bad"}

ASSUME StoriesAssumption == \A p \in Plots : BeginsWell(p)

ImageInit ==
    /\ plot \in Plots
    /\ media = plot.media
    /\ age = plot.age
    /\ attempt = plot.attempt
    /\ store = plot.store
    /\ job = plot.job
    /\ refs = plot.refs
    /\ used = TRUE
    /\ healed = FALSE /\ taken = FALSE
    /\ faults = plot.faults
    /\ at = [x \in Processes |-> IF x \in Requests THEN "new" ELSE "idle"]
    /\ seen = [x \in Processes |-> NoSight]

ImageNext ==
    \/ \E r \in Requests : put(r) \/ ConfirmSteps(r) \/ ReferenceSteps(r) \/ BackfillSteps(r)
    \/ \E w \in Workers : WorkerSteps(w) \/ loseJob(w)
    \/ forgetJob
    \/ RecoverySteps \/ SweeperSteps \/ CleanerSteps
    \/ \E a \in Attempts : land(a) \/ lose(a) \/ expire(a)
    \/ processTooLong \/ lapse \/ dayPasses \/ weekPasses

(* The worker and the timers run as long as there is work for them, what   *)
(* is under way ends; clients need not come back.                          *)
ImageFairness ==
    /\ WF_imageVars(\E w \in Workers : WorkerSteps(w))
    /\ WF_imageVars(RecoverySteps)
    /\ WF_imageVars(SweeperSteps)
    /\ WF_imageVars(processTooLong)
    /\ WF_imageVars(\E r \in Requests : ConfirmSteps(r) /\ at[r] # "new")
    /\ WF_imageVars(\E a \in Attempts : land(a) \/ expire(a))

ImageSpec == ImageInit /\ [][ImageNext]_imageVars /\ ImageFairness

-------------------------------------------------------------------------------
ImageOK ==
    /\ media \in MediaRows
    /\ age \in {"young", "day", "week"}
    /\ attempt \in [Attempts -> AttemptRows]
    /\ store \in Stores
    /\ job \in Jobs /\ (job.owner # Nobody <=> job.state = "active")
    /\ used \in BOOLEAN /\ healed \in BOOLEAN /\ taken \in BOOLEAN
    /\ faults \in Nat
    /\ seen \in [Processes -> Sights]
    /\ media.status = "PROCESSING" <=> media.started # "none"
    /\ media.orphaned # "no" => media.status \in {"COMPLETED", "GONE"}

(* What anything refers to is there for good: an image that is referred to *)
(* is complete and not claimed by the reclamation, whatever the reader of  *)
(* its state and the daily run do to it at the same time.                  *)
ReferencedStays ==
    Referenced => media.status = "COMPLETED" /\ ~media.claimed /\ store.master

(* What the row of a completed image shows, the storage has: the master,   *)
(* the previews and the display it was published with survive every stale  *)
(* worker, late upload and cleaner.                                        *)
ShownIsStored ==
    media.status = "COMPLETED" /\ ~media.claimed =>
        /\ store.master
        /\ \A a \in {media.preview, media.display} \ {0} :
             a \in store.derived /\ attempt[a].status = "PUBLISHED"

(* A row that is gone leaves no object behind that nobody knows any more,  *)
(* and no upload is on its way to become one.  (Objects of clients aside,  *)
(* who may upload again after the staging key was forgotten.)  But a       *)
(* confirmation that the queue failed may have taken the image back from a *)
(* worker (media.service.ts:241), who then works on what the daily run may *)
(* reclaim.                                                                *)
GoneLeavesNothing ==
    media.status = "GONE" /\ ~taken => ~store.master /\ store.derived = {} /\ store.flying = {}

(* What refers to an image finds it, what shows it finds its objects, and  *)
(* what is gone leaves none, whoever stops, comes late or comes twice.     *)
ImageHolds == ImageOK /\ ReferencedStays /\ ShownIsStored /\ GoneLeavesNothing

(* docs/modules/media.md: a completed image is reclaimed only if nothing   *)
(* has referred to it for seven days, even if its marker was wrong.        *)
GraceHolds ==
    [][~media.claimed /\ media'.claimed /\ media.status = "COMPLETED" => ~used]_imageVars

(* No image stays in processing, whatever becomes of its job and the       *)
(* workers, and what was claimed by the reclamation goes.                  *)
NothingHangs ==
    /\ media.status = "PROCESSING" ~> media.status # "PROCESSING"
    /\ media.claimed ~> ~Exists
===============================================================================
