-------------------------------- MODULE Stickers --------------------------------
(***************************************************************************)
(* StickersService, StickerProcessor and StickerProcessingRecoveryService: *)
(* a collection of stickers with a limit, and the imports that fill it     *)
(* through a queue (BullMQ: two attempts; a job whose worker is lost is    *)
(* given out once more).                                                   *)
(***************************************************************************)
EXTENDS Shelves

Live == {i \in DOMAIN import : import[i].live}
Processing == {i \in Live : import[i].status = "PROCESSING"}
KeyOf(r) == {i \in Live : import[i].key = r.key}

(* assertCapacity *)
Full == Cardinality(DOMAIN favorite) + Cardinality(Processing) >= Limit

(* createFavorite: at the front; what is there moves back. *)
WithFavorite(a) ==
    [b \in DOMAIN favorite \cup {a} |->
        IF b \notin DOMAIN favorite THEN 0
        ELSE IF a \in DOMAIN favorite THEN favorite[b] ELSE favorite[b] + 1]

Saves(a) ==
    /\ favorite' = WithFavorite(a)
    /\ collection' = IF a \in DOMAIN favorite THEN collection ELSE collection + 1

InStickers(r) == Done(r) /\ UNCHANGED <<relationVars, threadVars, shelfVars, tagVars, draftVars, worker, faults>>

Fault == faults > 0 /\ faults' = faults - 1

-------------------------------------------------------------------------------
(* The collection *)

reorder(r) ==
    /\ Arrives(r, "reorder")
    /\ LET ids == {r.order[k] : k \in DOMAIN r.order}
           possible == /\ Cardinality(ids) = Len(r.order)
                       /\ r.version = collection /\ ids = DOMAIN favorite
       IN  \/ ~possible /\ Refused(r)
           \/ /\ possible
              /\ favorite' = [a \in ids |-> (CHOOSE k \in DOMAIN r.order : r.order[k] = a) - 1]
              /\ collection' = collection + 1
              /\ UNCHANGED <<import, job, source>>
              /\ InStickers(r)

removeSticker(r) ==
    /\ Arrives(r, "removeSticker")
    /\ \/ r.what \notin DOMAIN favorite /\ Refused(r)
       \/ /\ r.what \in DOMAIN favorite
          /\ favorite' = [a \in DOMAIN favorite \ {r.what} |->
                             IF favorite[a] > favorite[r.what] THEN favorite[a] - 1 ELSE favorite[a]]
          /\ collection' = collection + 1
          /\ UNCHANGED <<import, job, source>>
          /\ InStickers(r)

-------------------------------------------------------------------------------
(* Imports *)

Imports == {"import", "importPostImage", "importDirectMessage", "importMomentImage"}

(* One's own image, one in a post, in a message that is not recalled, or   *)
(* in a moment or a comment of people who are not blocked.                 *)
MaySave(r) ==
    /\ r.what \in source
    /\ r.op = "importPostImage" => Accessible(r.user, r.thread, TRUE)
    /\ r.op = "importMomentImage" => \A v \in r.by : ~Blocked(r.user, v)

(* Messages and moments may be gone; a request that came before is          *)
(* answered with its import.                                               *)
readImport(r) ==
    /\ r.op \in Imports /\ Arrives(r, r.op)
    /\ \/ (~MaySave(r) \/ r.op \in {"importDirectMessage", "importMomentImage"}) /\ Refused(r)
       \/ MaySave(r) /\ KeyOf(r) # {} /\ Answered(r)
       \/ MaySave(r) /\ KeyOf(r) = {} /\ Reads(r, "start", NoSight)

NewImport(r) == [live |-> TRUE, key |-> r.key, status |-> "PROCESSING", media |-> r.what, recent |-> TRUE]

(* startMediaImport: under the lock of the collection; the import of the   *)
(* same request that came first is put into the queue again.               *)
startMediaImport(r) ==
    /\ Stands(r, "start")
    /\ \/ Full /\ Refused(r)
       \/ ~Full /\ KeyOf(r) = {} /\ r.what \notin source /\ Refused(r)
       \/ ~Full /\ KeyOf(r) # {} /\ KeyOf(r) \cap Processing = {} /\ Answered(r)
       \/ ~Full /\ KeyOf(r) \cap Processing # {}
          /\ Reads(r, "enqueue", [NoSight EXCEPT !.row = CHOOSE i \in KeyOf(r) : TRUE])
       \/ /\ ~Full /\ KeyOf(r) = {} /\ r.what \in source
          /\ import' = Append(import, NewImport(r))
          /\ job' = Append(job, NoJob)
          /\ seen' = [seen EXCEPT ![r] = [NoSight EXCEPT !.row = Len(import) + 1]]
          /\ Place(r, "enqueue")
          /\ UNCHANGED <<relationVars, threadVars, shelfVars, tagVars, draftVars, favorite, collection, source, worker, faults>>

(* A job that is there already stays as it is. *)
Enqueued(i) == IF job[i].state = "missing" THEN [job EXCEPT ![i] = [NoJob EXCEPT !.state = "waiting"]] ELSE job

enqueueImport(r) ==
    /\ Stands(r, "enqueue")
    /\ job' = Enqueued(seen[r].row)
    /\ UNCHANGED <<favorite, collection, import, source>>
    /\ InStickers(r)

EndedAs(i, status) ==
    IF import[i].status = "PROCESSING" THEN [import EXCEPT ![i].status = status] ELSE import

(* The queue does not answer, or the server stops before it is asked. *)
enqueueFails(r) ==
    /\ Stands(r, "enqueue")
    /\ Fault
    /\ Place(r, "mark failed") \/ Place(r, "refused")
    /\ UNCHANGED <<seen, relationVars, threadVars, shelfVars, tagVars, draftVars, favorite, collection, import, job, source, worker>>

markStartFailed(r) ==
    /\ Stands(r, "mark failed")
    /\ import' = EndedAs(seen[r].row, "FAILED")
    /\ UNCHANGED <<favorite, collection, job, source>>
    /\ InStickers(r)

(* addExistingAsset: no work for the queue. *)
readAdopt(r) ==
    /\ Arrives(r, "adopt")
    /\ \/ KeyOf(r) # {} /\ Answered(r)
       \/ KeyOf(r) = {} /\ Reads(r, "adopt", NoSight)

addExistingAsset(r) ==
    /\ At(r, "adopt", "adopt")
    /\ LET fits == r.what \in DOMAIN favorite \/ ~Full
       IN  \/ ~fits /\ Refused(r)
           \/ fits /\ KeyOf(r) # {} /\ Answered(r)
           \/ /\ fits /\ KeyOf(r) = {}
              /\ Saves(r.what)
              /\ \E m \in Media :
                   /\ AssetOf(m) = r.what
                   /\ import' = Append(import, [NewImport(r) EXCEPT !.status = "COMPLETED", !.media = m])
              /\ job' = Append(job, NoJob)
              /\ UNCHANGED source
              /\ InStickers(r)

StickerRequests(r) ==
    \/ reorder(r) \/ removeSticker(r) \/ readImport(r) \/ startMediaImport(r) \/ enqueueImport(r)
    \/ enqueueFails(r) \/ markStartFailed(r) \/ readAdopt(r) \/ addExistingAsset(r)

-------------------------------------------------------------------------------
(* The worker *)

Idle == [at |-> "idle", row |-> 0, made |-> 0]
Aside == UNCHANGED <<plot, requestVars, relationVars, threadVars, shelfVars, tagVars, draftVars>>
Goes(w, at) == worker' = [worker EXCEPT ![w].at = at]

takeJob(w) ==
    /\ worker[w].at = "idle"
    /\ \E i \in DOMAIN job :
         /\ job[i].state = "waiting"
         /\ job' = [job EXCEPT ![i].state = "active", ![i].owner = w]
         /\ worker' = [worker EXCEPT ![w] = [at |-> "work", row |-> i, made |-> job[i].made]]
    /\ UNCHANGED <<favorite, collection, import, source, faults>>
    /\ Aside

(* processImport up to the asset, which is found by its content or stored; *)
(* an import that has ended is left alone.                                 *)
processImport(w) ==
    /\ worker[w].at = "work"
    /\ LET i == worker[w].row
       IN  \/ i \notin Processing /\ Goes(w, "success") /\ UNCHANGED faults
           \/ i \in Processing /\ Goes(w, "complete") /\ UNCHANGED faults
           \/ i \in Processing /\ Goes(w, "fail") /\ Fault
    /\ UNCHANGED <<favorite, collection, import, job, source>>
    /\ Aside

completeImport(w) ==
    /\ worker[w].at = "complete"
    /\ LET i == worker[w].row
       IN  IF i \in Processing
           THEN import' = EndedAs(i, "COMPLETED") /\ Saves(AssetOf(import[i].media))
           ELSE UNCHANGED <<import, favorite, collection>>
    /\ Goes(w, "success")
    /\ UNCHANGED <<job, source, faults>>
    /\ Aside

(* The last attempt marks the import. *)
failImport(w) ==
    /\ worker[w].at = "fail"
    /\ import' = IF worker[w].made + 1 >= 2 THEN EndedAs(worker[w].row, "FAILED") ELSE import
    /\ Goes(w, "failed")
    /\ UNCHANGED <<favorite, collection, job, source, faults>>
    /\ Aside

endJob(w) ==
    /\ worker[w].at \in {"success", "failed"}
    /\ LET i == worker[w].row
           ended == IF worker[w].at = "success" THEN "completed"
                    ELSE IF job[i].made + 1 >= 2 THEN "failed" ELSE "waiting"
       IN  job' = IF job[i].owner # w THEN job
                  ELSE [job EXCEPT ![i].state = ended, ![i].made = @ + 1, ![i].owner = Nobody]
    /\ worker' = [worker EXCEPT ![w] = Idle]
    /\ UNCHANGED <<favorite, collection, import, source, faults>>
    /\ Aside

crash(w) ==
    /\ worker[w].at # "idle"
    /\ Fault
    /\ worker' = [worker EXCEPT ![w] = Idle]
    /\ UNCHANGED <<favorite, collection, import, job, source>>
    /\ Aside

(* A job whose worker is gone, or did not renew its lock. *)
Lost(i) == \A w \in Workers : worker[w].at = "idle" \/ worker[w].row # i

stall(i) ==
    /\ job[i].state = "active"
    /\ \/ Lost(i) /\ UNCHANGED faults
       \/ ~Lost(i) /\ Fault
    /\ job' = [job EXCEPT ![i].state = IF job[i].stalls = 0 THEN "waiting" ELSE "failed",
                          ![i].stalls = @ + 1, ![i].owner = Nobody]
    /\ UNCHANGED <<favorite, collection, import, source, worker>>
    /\ Aside

(* Redis loses the job; a job that is completed goes after a day. *)
forgetJob(i) ==
    /\ \/ job[i].state = "completed" /\ UNCHANGED faults
       \/ job[i].state \in {"waiting", "failed"} /\ Fault
    /\ job' = [job EXCEPT ![i] = NoJob]
    /\ UNCHANGED <<favorite, collection, import, source, worker>>
    /\ Aside

-------------------------------------------------------------------------------
(* Recovery and clean-up *)

Stale(i) == i \in Processing /\ ~import[i].recent

age(i) ==
    /\ i \in Processing /\ import[i].recent
    /\ import' = [import EXCEPT ![i].recent = FALSE]
    /\ UNCHANGED <<favorite, collection, job, source, worker, faults>>
    /\ Aside

(* Mutant of reconcileOne: an import whose job is missing is not put into  *)
(* the queue again.                                                        *)
reconcileFailed(i) ==
    /\ Stale(i)
    /\ job[i].state = "failed"
    /\ import' = EndedAs(i, "FAILED")
    /\ UNCHANGED <<job, favorite, collection, source, worker, faults>>
    /\ Aside

(* An import is marked when its job has failed, and put into the queue     *)
(* again when its job is missing or has ended without it.                  *)
reconcileOne(i) ==
    /\ Stale(i)
    /\ job[i].state \in {"missing", "completed", "failed"}
    /\ IF job[i].state = "failed"
       THEN import' = EndedAs(i, "FAILED") /\ UNCHANGED job
       ELSE /\ job' = [job EXCEPT ![i] = [NoJob EXCEPT !.state = "waiting"]]
            /\ import' = [import EXCEPT ![i].recent = TRUE]
    /\ UNCHANGED <<favorite, collection, source, worker, faults>>
    /\ Aside

(* cleanupOrphanAssets: imports that ended long ago. *)
cleanupImport(i) ==
    /\ i \in Live \ Processing
    /\ import' = [import EXCEPT ![i].live = FALSE]
    /\ UNCHANGED <<favorite, collection, job, source, worker, faults>>
    /\ Aside

(* The reclamation of images spares those with an import under way. *)
reclaimSource(m) ==
    /\ m \in source
    /\ \A i \in Processing : import[i].media # m
    /\ source' = source \ {m}
    /\ UNCHANGED <<favorite, collection, import, job, worker, faults>>
    /\ Aside
===============================================================================
