-------------------------------- MODULE Outbox --------------------------------
(***************************************************************************)
(* The transactional outbox: OutboxService.enqueue, OutboxDispatcher and   *)
(* the purge of acknowledged rows in CleanupTask.  Time is kept only as    *)
(* far as the code reads it: available_at <= NOW() is a flag per row that  *)
(* a claim or a failure clears and the passing of the lease or of the      *)
(* backoff sets.                                                           *)
(***************************************************************************)
EXTENDS Integers, FiniteSets

CONSTANTS
    Events,        \* event keys
    ListenersOf,   \* ListenersOf[e]: the listeners of e's type, {} if none is registered
    Malformed,     \* events whose payload assertDomainEventPayload rejects
    Dispatchers,   \* processes that run an OutboxDispatcher
    BatchLimit,    \* claim(50)
    NoEvent,       \* no row: what is not in Events
    MaxCrashes,    \* bound: how many times a dispatcher process dies
    Casts          \* bound: which dispatchers run and which events may be committed

ASSUME OutboxAssumption ==
    /\ IsFiniteSet(Events)
    /\ DOMAIN ListenersOf = Events
    /\ Malformed \subseteq Events
    /\ NoEvent \notin Events
    /\ BatchLimit \in Nat \ {0}
    /\ MaxCrashes \in Nat
    /\ \A cast \in Casts : {"dispatchers", "events"} \subseteq DOMAIN cast

Listeners == UNION {ListenersOf[e] : e \in Events}

VARIABLES
    row,        \* row[e]: "absent", "pending", "processed" or "purged"; "void": never committed
    created,    \* created[e]: position of e in created_at order
    available,  \* rows whose available_at has been reached
    pc,         \* pc[d]: where dispatcher d is in dispatch()
    stopping,   \* dispatchers told to shut down
    batch,      \* batch[d]: rows claimed by d and not yet taken up
    cur,        \* cur[d]: the row d is delivering
    awaited,    \* awaited[d]: listeners of cur[d] that have not completed
    detached,   \* <<d, e, l>>: runs emitAsync stopped waiting for, still going
    applied,    \* <<e, l>>: listener l has completed e at least once
    lapsed,     \* events whose lease or backoff ran out while a process worked on them
    crashes

vars == <<row, created, available, pc, stopping, batch, cur, awaited,
          detached, applied, lapsed, crashes>>

Holds(d, e) == e \in batch[d] \/ cur[d] = e

(* A dispatcher is still working on e: it holds the row, or a listener run *)
(* it started for e has not ended.                                         *)
Working(d, e) == Holds(d, e) \/ \E l \in Listeners : <<d, e, l>> \in detached

(* Where a dispatcher is agrees with what it holds: currentDispatch is     *)
(* cleared exactly when neither a row nor a listener is left to wait for.  *)
ControlOK ==
    \A d \in Dispatchers :
        /\ pc[d] \in {"emitting", "failing"} <=> cur[d] # NoEvent
        /\ pc[d] = "batch" => batch[d] # {}
        /\ pc[d] \in {"idle", "down", "unused"} => batch[d] = {}
        /\ pc[d] # "emitting" => awaited[d] = {}
        /\ pc[d] \in {"down", "unused"} => d \notin stopping

(* The values of the variables, and the agreement between them that the    *)
(* early returns and the finally block of dispatch() keep.                 *)
TypeOK ==
    /\ ControlOK
    /\ row \in [Events -> {"void", "absent", "pending", "processed", "purged"}]
    /\ created \in [Events -> Nat]
    /\ available \subseteq Events
    /\ pc \in [Dispatchers -> {"idle", "batch", "emitting", "failing", "down", "unused"}]
    /\ stopping \subseteq Dispatchers
    /\ batch \in [Dispatchers -> SUBSET Events]
    /\ cur \in [Dispatchers -> Events \cup {NoEvent}]
    /\ awaited \in [Dispatchers -> SUBSET Listeners]
    /\ detached \subseteq Dispatchers \X Events \X Listeners
    /\ applied \subseteq Events \X Listeners
    /\ lapsed \subseteq Events
    /\ crashes \in 0..MaxCrashes

Init ==
    /\ \E cast \in Casts :
         /\ row = [e \in Events |-> IF e \in cast.events THEN "absent" ELSE "void"]
         /\ pc = [d \in Dispatchers |-> IF d \in cast.dispatchers THEN "idle" ELSE "unused"]
    /\ created = [e \in Events |-> 0]
    /\ available = {}
    /\ stopping = {}
    /\ batch = [d \in Dispatchers |-> {}]
    /\ cur = [d \in Dispatchers |-> NoEvent]
    /\ awaited = [d \in Dispatchers |-> {}]
    /\ detached = {}
    /\ applied = {}
    /\ lapsed = {}
    /\ crashes = 0

-------------------------------------------------------------------------------
(* OutboxService.enqueue, as part of a business transaction that commits.  *)
(* A second enqueue with the same key is an upsert with an empty update.   *)
(* Every caller puts a fresh id into the key, so a key whose row has been  *)
(* purged is not used again.                                               *)
Enqueue(e) ==
    /\ row[e] = "absent"
    /\ row' = [row EXCEPT ![e] = "pending"]
    /\ created' = [created EXCEPT ![e] = Cardinality({x \in Events : row[x] \notin {"void", "absent"}})]
    /\ available' = available \cup {e}
    /\ UNCHANGED <<pc, stopping, batch, cur, awaited, detached, applied, lapsed, crashes>>

(* available_at is reached: the 60 s lease or the backoff is over. *)
Elapse(e) ==
    /\ row[e] = "pending"
    /\ e \notin available
    /\ available' = available \cup {e}
    /\ lapsed' = IF \E d \in Dispatchers : Working(d, e) THEN lapsed \cup {e} ELSE lapsed
    /\ UNCHANGED <<row, created, pc, stopping, batch, cur, awaited, detached, applied, crashes>>

Claimable == {e \in Events : row[e] = "pending" /\ e \in available}

(* The rows the claiming statement may lock: the BatchLimit oldest ones. *)
OldestOf(S) ==
    {B \in SUBSET S :
        /\ B # {}
        /\ Cardinality(B) <= BatchLimit
        /\ Cardinality(B) < BatchLimit => B = S
        /\ \A x \in B, y \in S \ B : created[x] <= created[y]}

(* Mutant of Claim: the claiming statement does not push available_at. *)
ClaimWithoutLease(d) ==
    /\ pc[d] = "idle"
    /\ d \notin stopping
    /\ \E B \in OldestOf(Claimable) : batch' = [batch EXCEPT ![d] = B]
    /\ pc' = [pc EXCEPT ![d] = "batch"]
    /\ UNCHANGED <<row, created, available, stopping, cur, awaited, detached, applied, lapsed, crashes>>

(* dispatch() and claim(): one statement picks and leases the rows. *)
Claim(d) ==
    /\ pc[d] = "idle"
    /\ d \notin stopping
    /\ \E B \in OldestOf(Claimable) :
         /\ available' = available \ B
         /\ batch' = [batch EXCEPT ![d] = B]
         /\ pc' = [pc EXCEPT ![d] = "batch"]
    /\ UNCHANGED <<row, created, stopping, cur, awaited, detached, applied, lapsed, crashes>>

(* assertDomainEventPayload: the type is known and the schema accepts the payload. *)
PayloadRejected(e) == e \in Malformed

(* Mutant of Emit: the payload is checked outside the try block, so that a *)
(* malformed row ends the whole batch.                                     *)
EmitPoisonEndsBatch(d, e) ==
    /\ pc[d] = "batch"
    /\ e \in batch[d]
    /\ IF PayloadRejected(e) \/ ListenersOf[e] = {}
       THEN /\ batch' = [batch EXCEPT ![d] = {}]
            /\ pc' = [pc EXCEPT ![d] = "idle"]
            /\ UNCHANGED <<cur, awaited>>
       ELSE /\ batch' = [batch EXCEPT ![d] = @ \ {e}]
            /\ cur' = [cur EXCEPT ![d] = e]
            /\ pc' = [pc EXCEPT ![d] = "emitting"]
            /\ awaited' = [awaited EXCEPT ![d] = ListenersOf[e]]
    /\ UNCHANGED <<row, created, available, stopping, detached, applied, lapsed, crashes>>

(* deliver() begins: the payload and the listener count are checked; on    *)
(* success every listener of the event is started at once (emitAsync).     *)
Emit(d, e) ==
    /\ pc[d] = "batch"
    /\ e \in batch[d]
    /\ batch' = [batch EXCEPT ![d] = @ \ {e}]
    /\ cur' = [cur EXCEPT ![d] = e]
    /\ IF PayloadRejected(e) \/ ListenersOf[e] = {}
       THEN /\ pc' = [pc EXCEPT ![d] = "failing"]
            /\ UNCHANGED awaited
       ELSE /\ pc' = [pc EXCEPT ![d] = "emitting"]
            /\ awaited' = [awaited EXCEPT ![d] = ListenersOf[e]]
    /\ UNCHANGED <<row, created, available, stopping, detached, applied, lapsed, crashes>>

(* A listener that the delivery waits for completes. *)
ListenerOk(d, l) ==
    /\ pc[d] = "emitting"
    /\ l \in awaited[d]
    /\ awaited' = [awaited EXCEPT ![d] = @ \ {l}]
    /\ applied' = applied \cup {<<cur[d], l>>}
    /\ UNCHANGED <<row, created, available, pc, stopping, batch, cur, detached, lapsed, crashes>>

(* A listener rejects: emitAsync rejects at once, and the listeners that   *)
(* have not completed keep running without anyone waiting for them.        *)
ListenerFail(d, l) ==
    /\ pc[d] = "emitting"
    /\ l \in awaited[d]
    /\ detached' = detached \cup {<<d, cur[d], k>> : k \in awaited[d] \ {l}}
    /\ awaited' = [awaited EXCEPT ![d] = {}]
    /\ pc' = [pc EXCEPT ![d] = "failing"]
    /\ UNCHANGED <<row, created, available, stopping, batch, cur, applied, lapsed, crashes>>

(* A run nobody waits for ends, with or without its effect. *)
DetachedEnds(d, e, l) ==
    /\ <<d, e, l>> \in detached
    /\ detached' = detached \ {<<d, e, l>>}
    /\ \/ applied' = applied \cup {<<e, l>>}
       \/ UNCHANGED applied
    /\ UNCHANGED <<row, created, available, pc, stopping, batch, cur, awaited, lapsed, crashes>>

(* The dispatcher is through with cur[d]: on to the next row of the batch. *)
Proceed(d) ==
    /\ cur' = [cur EXCEPT ![d] = NoEvent]
    /\ pc' = [pc EXCEPT ![d] = IF batch[d] = {} THEN "idle" ELSE "batch"]

(* Every listener completed: processed_at is set if it is still null. *)
Ack(d) ==
    /\ pc[d] = "emitting"
    /\ awaited[d] = {}
    /\ row' = [row EXCEPT ![cur[d]] = IF @ = "pending" THEN "processed" ELSE @]
    /\ Proceed(d)
    /\ UNCHANGED <<created, available, stopping, batch, awaited, detached, applied, lapsed, crashes>>

(* The acknowledging statement throws; whether it committed is not known. *)
AckThrows(d) ==
    /\ pc[d] = "emitting"
    /\ awaited[d] = {}
    /\ \/ row' = [row EXCEPT ![cur[d]] = IF @ = "pending" THEN "processed" ELSE @]
       \/ UNCHANGED row
    /\ pc' = [pc EXCEPT ![d] = "failing"]
    /\ UNCHANGED <<created, available, stopping, batch, cur, awaited, detached, applied, lapsed, crashes>>

(* The catch block: if processed_at is null, available_at moves into the   *)
(* future by the backoff, whoever holds the row by now.                    *)
Fail(d) ==
    /\ pc[d] = "failing"
    /\ available' = IF row[cur[d]] = "pending" THEN available \ {cur[d]} ELSE available
    /\ Proceed(d)
    /\ UNCHANGED <<row, created, stopping, batch, awaited, detached, applied, lapsed, crashes>>

(* The catch block's own statement throws: dispatchBatch rejects and the   *)
(* rest of the batch is left to its lease.                                 *)
Abandon(d) ==
    /\ pc[d] = "failing"
    /\ pc' = [pc EXCEPT ![d] = "idle"]
    /\ cur' = [cur EXCEPT ![d] = NoEvent]
    /\ batch' = [batch EXCEPT ![d] = {}]
    /\ UNCHANGED <<row, created, available, stopping, awaited, detached, applied, lapsed, crashes>>

(* beforeApplicationShutdown: no further claim, then wait for the batch. *)
Stop(d) ==
    /\ pc[d] \notin {"down", "unused"}
    /\ d \notin stopping
    /\ stopping' = stopping \cup {d}
    /\ UNCHANGED <<row, created, available, pc, batch, cur, awaited, detached, applied, lapsed, crashes>>

(* The process ends; what it was running ends with it. *)
Halt(d) ==
    /\ pc' = [pc EXCEPT ![d] = "down"]
    /\ stopping' = stopping \ {d}
    /\ batch' = [batch EXCEPT ![d] = {}]
    /\ cur' = [cur EXCEPT ![d] = NoEvent]
    /\ awaited' = [awaited EXCEPT ![d] = {}]
    /\ detached' = {t \in detached : t[1] # d}
    /\ UNCHANGED <<row, created, available, applied, lapsed>>

Exit(d) ==
    /\ d \in stopping
    /\ pc[d] = "idle"
    /\ Halt(d)
    /\ UNCHANGED crashes

Crash(d) ==
    /\ pc[d] \notin {"down", "unused"}
    /\ crashes < MaxCrashes
    /\ Halt(d)
    /\ crashes' = crashes + 1

(* onModuleInit of the next process of this kind. *)
Start(d) ==
    /\ pc[d] = "down"
    /\ pc' = [pc EXCEPT ![d] = "idle"]
    /\ UNCHANGED <<row, created, available, stopping, batch, cur, awaited,
                   detached, applied, lapsed, crashes>>

(* Mutant of Purge: the age of the row is looked at, not processed_at. *)
PurgeByAge(e) ==
    /\ row[e] \in {"pending", "processed"}
    /\ row' = [row EXCEPT ![e] = "purged"]
    /\ UNCHANGED <<created, available, pc, stopping, batch, cur, awaited,
                   detached, applied, lapsed, crashes>>

(* CleanupTask.cleanup: acknowledged rows are dropped after seven days. *)
Purge(e) ==
    /\ row[e] = "processed"
    /\ row' = [row EXCEPT ![e] = "purged"]
    /\ UNCHANGED <<created, available, pc, stopping, batch, cur, awaited,
                   detached, applied, lapsed, crashes>>

DispatcherStep(d) ==
    \/ Claim(d)
    \/ \E e \in Events : Emit(d, e)
    \/ \E l \in Listeners : ListenerOk(d, l) \/ ListenerFail(d, l)
    \/ Ack(d) \/ AckThrows(d) \/ Fail(d) \/ Abandon(d)
    \/ Stop(d) \/ Exit(d) \/ Crash(d) \/ Start(d)

Next ==
    \/ \E e \in Events : Enqueue(e) \/ Elapse(e) \/ Purge(e)
    \/ \E d \in Dispatchers : DispatcherStep(d)
    \/ \E d \in Dispatchers, e \in Events, l \in Listeners : DetachedEnds(d, e, l)

Spec == Init /\ [][Next]_vars

-------------------------------------------------------------------------------
(* Fairness: the timer fires every second and the process manager restarts *)
(* the service, so a dispatcher that can go on does; leases and backoffs   *)
(* end.  A backoff lasts at least 5 s and a dispatcher claims every second,*)
(* so a row that is claimable again and again is claimed.  Listeners,      *)
(* acknowledgements and the catch block's statement fail only finitely     *)
(* often; malformed events stay malformed and planned restarts may go on   *)
(* for ever.                                                               *)
Fault(d) == Abandon(d) \/ AckThrows(d) \/ \E l \in Listeners : ListenerFail(d, l)

Fairness ==
    /\ \A e \in Events : WF_vars(Elapse(e))
    /\ \A d \in Dispatchers :
         /\ WF_vars(\E e \in Events : Emit(d, e))
         /\ WF_vars(\E l \in Listeners : ListenerOk(d, l))
         /\ WF_vars(Ack(d))
         /\ WF_vars(Fail(d))
         /\ WF_vars(Exit(d))
         /\ WF_vars(Start(d))
    /\ \A e \in Events : SF_vars(\E d \in Dispatchers : Claim(d) /\ e \in batch'[d])
    /\ <>[][\A d \in Dispatchers : ~Fault(d)]_vars

FairSpec == Spec /\ Fairness

-------------------------------------------------------------------------------
(* deliver() acknowledges a row only after emitAsync has resolved: a row   *)
(* whose processed_at is set, purged later or not, belongs to a well       *)
(* formed event with listeners, every one of which has completed it,       *)
(* whatever the retries, crashes and overlapping dispatchers before.       *)
ProcessedMeansAllApplied ==
    \A e \in Events : row[e] \in {"processed", "purged"} =>
        /\ e \notin Malformed
        /\ ListenersOf[e] # {}
        /\ \A l \in ListenersOf[e] : <<e, l>> \in applied

(* The lease of claim() and the backoff of the catch block keep a row to   *)
(* one dispatcher: two of them work on the same event (rows claimed,       *)
(* listeners still running after an early rejection included) only if its  *)
(* available_at passed while one of them was at it.                        *)
ExclusiveUnlessLapsed ==
    \A e \in Events : \A d1, d2 \in Dispatchers :
        Working(d1, e) /\ Working(d2, e) /\ d1 # d2 => e \in lapsed

(* What delivery keeps whatever fails and overlaps: rows and dispatchers   *)
(* agree, an acknowledged row was applied by all of its listeners, and     *)
(* two dispatchers share a row only after its lease ran out.               *)
DeliveryHolds == TypeOK /\ ProcessedMeansAllApplied /\ ExclusiveUnlessLapsed

(* The dispatcher keeps the outbox contract: the rows not yet processed    *)
(* are what is owed, and a row is settled only once every listener of its  *)
(* event has carried it out; a settled event is never owed again.          *)
Contract == INSTANCE DeliveryContract WITH
    owed <- {e \in Events : row[e] = "pending"},
    settled <- {e \in Events : row[e] \in {"processed", "purged"}},
    carried <- applied

RefinesContract == Contract!Spec

(* Every well formed event with a listener that a business transaction     *)
(* committed is acknowledged in the end: neither an event the dispatcher   *)
(* can never deliver, nor a crash between claim and acknowledgement, nor   *)
(* a restart holds it back for ever.                                       *)
EveryEventDelivered ==
    \A e \in Events :
        (row[e] = "pending" /\ e \notin Malformed /\ ListenersOf[e] # {})
            ~> (row[e] \in {"processed", "purged"})
===============================================================================
