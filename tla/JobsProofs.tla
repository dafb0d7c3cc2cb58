------------------------------ MODULE JobsProofs ------------------------------
(***************************************************************************)
(* Proofs about what is done in the background: the outbox, for any set of *)
(* events, listeners, dispatchers, any batch size and any number of        *)
(* crashes; the campaigns, for any number of users and any size of a       *)
(* batch, however many runs overlap and whatever throws or dies; and the   *)
(* images, for any number of workers, attempts, requests and faults.       *)
(*                                                                         *)
(* The three share nothing but the process they run in: the theorems of    *)
(* each are about its own specification.                                   *)
(***************************************************************************)
EXTENDS Outbox, NotificationCampaign, Media, FiniteSetTheorems, WellFoundedInduction, TLAPS
-------------------------------------------------------------------------------
(* What deliver() knows while it waits for emitAsync. *)
EmittingOK ==
    \A d \in Dispatchers : pc[d] = "emitting" =>
        /\ cur[d] \notin Malformed
        /\ ListenersOf[cur[d]] # {}
        /\ awaited[d] \subseteq ListenersOf[cur[d]]
        /\ \A l \in ListenersOf[cur[d]] \ awaited[d] : <<cur[d], l>> \in applied

(* A dispatcher works only on committed events, with their own listeners. *)
CommittedOK ==
    /\ \A d \in Dispatchers, e \in Events : Working(d, e) => row[e] \notin {"void", "absent"}
    /\ \A d \in Dispatchers, e \in Events, l \in Listeners :
         <<d, e, l>> \in detached => l \in ListenersOf[e]

(* An event somebody works on is claimable only after its lease lapsed. *)
LeaseOK ==
    \A d \in Dispatchers, e \in Events :
        Working(d, e) /\ row[e] = "pending" /\ e \in available => e \in lapsed

-------------------------------------------------------------------------------
(* The code keeps every variable in its range, and a dispatcher's control  *)
(* state in agreement with the rows it holds.                              *)
LEMMA TypeInductive == ASSUME TypeOK, [Next]_vars PROVE TypeOK'
  <1>. USE OutboxAssumption
  <1>1. ASSUME NEW e \in Events, Enqueue(e) PROVE TypeOK'
    <2>1. Cardinality({x \in Events : row[x] \notin {"void", "absent"}}) \in Nat
      <3>1. {x \in Events : row[x] \notin {"void", "absent"}} \subseteq Events
        OBVIOUS
      <3>. QED
        BY <3>1, FS_Subset, FS_CardinalityType
    <2>. QED
      BY <1>1, <2>1 DEF Enqueue, TypeOK, ControlOK
  <1>2. ASSUME NEW e \in Events, Elapse(e) PROVE TypeOK'
    BY <1>2 DEF Elapse, TypeOK, ControlOK
  <1>3. ASSUME NEW e \in Events, Purge(e) PROVE TypeOK'
    BY <1>3 DEF Purge, TypeOK, ControlOK
  <1>4. ASSUME NEW d \in Dispatchers, Claim(d) PROVE TypeOK'
    BY <1>4 DEF Claim, OldestOf, Claimable, TypeOK, ControlOK
  <1>5. ASSUME NEW d \in Dispatchers, NEW e \in Events, Emit(d, e) PROVE TypeOK'
    BY <1>5 DEF Emit, PayloadRejected, Listeners, TypeOK, ControlOK
  <1>6. ASSUME NEW d \in Dispatchers, NEW l \in Listeners, ListenerOk(d, l) PROVE TypeOK'
    BY <1>6 DEF ListenerOk, TypeOK, ControlOK
  <1>7. ASSUME NEW d \in Dispatchers, NEW l \in Listeners, ListenerFail(d, l) PROVE TypeOK'
    BY <1>7 DEF ListenerFail, TypeOK, ControlOK
  <1>8. ASSUME NEW d \in Dispatchers, Ack(d) PROVE TypeOK'
    BY <1>8 DEF Ack, Proceed, TypeOK, ControlOK
  <1>9. ASSUME NEW d \in Dispatchers, AckThrows(d) PROVE TypeOK'
    BY <1>9 DEF AckThrows, TypeOK, ControlOK
  <1>10. ASSUME NEW d \in Dispatchers, Fail(d) PROVE TypeOK'
    BY <1>10 DEF Fail, Proceed, TypeOK, ControlOK
  <1>11. ASSUME NEW d \in Dispatchers, Abandon(d) PROVE TypeOK'
    BY <1>11 DEF Abandon, TypeOK, ControlOK
  <1>12. ASSUME NEW d \in Dispatchers, Stop(d) PROVE TypeOK'
    BY <1>12 DEF Stop, TypeOK, ControlOK
  <1>13. ASSUME NEW d \in Dispatchers, Exit(d) PROVE TypeOK'
    BY <1>13 DEF Exit, Halt, TypeOK, ControlOK
  <1>14. ASSUME NEW d \in Dispatchers, Crash(d) PROVE TypeOK'
    BY <1>14 DEF Crash, Halt, TypeOK, ControlOK
  <1>15. ASSUME NEW d \in Dispatchers, Start(d) PROVE TypeOK'
    BY <1>15 DEF Start, TypeOK, ControlOK
  <1>16. ASSUME NEW d \in Dispatchers, NEW e \in Events, NEW l \in Listeners, DetachedEnds(d, e, l) PROVE TypeOK'
    BY <1>16 DEF DetachedEnds, TypeOK, ControlOK
  <1>17. CASE UNCHANGED vars
    BY <1>17 DEF vars, TypeOK, ControlOK
  <1>. QED
    BY <1>1, <1>2, <1>3, <1>4, <1>5, <1>6, <1>7, <1>8, <1>9, <1>10, <1>11, <1>12, <1>13, <1>14, <1>15, <1>16, <1>17 DEF Next, DispatcherStep

(* The variables of the outbox stay in their ranges and every dispatcher's *)
(* control state agrees with what it holds.                                *)
THEOREM TypeCorrect == Spec => []TypeOK
  <1>1. Init => TypeOK
    BY OutboxAssumption DEF Init, TypeOK, ControlOK
  <1>. QED
    BY <1>1, TypeInductive, PTL DEF Spec

-------------------------------------------------------------------------------
(* The acknowledgement argument: while a delivery waits, whoever is no     *)
(* longer awaited has completed; so a row that is acknowledged has been    *)
(* completed by all.                                                       *)
AckInv == TypeOK /\ EmittingOK /\ ProcessedMeansAllApplied

(* Every step of a dispatcher, of the clean-up and of the clock keeps it. *)
LEMMA AckInductive == ASSUME AckInv, [Next]_vars PROVE AckInv'
  <1>. USE OutboxAssumption, TypeInductive DEF AckInv
  <1>1. ASSUME NEW e \in Events, Enqueue(e) PROVE AckInv'
    BY <1>1 DEF Enqueue, EmittingOK, ProcessedMeansAllApplied, TypeOK, ControlOK
  <1>2. ASSUME NEW e \in Events, Elapse(e) PROVE AckInv'
    BY <1>2 DEF Elapse, EmittingOK, ProcessedMeansAllApplied, TypeOK, ControlOK
  <1>3. ASSUME NEW e \in Events, Purge(e) PROVE AckInv'
    BY <1>3 DEF Purge, EmittingOK, ProcessedMeansAllApplied, TypeOK, ControlOK
  <1>4. ASSUME NEW d \in Dispatchers, Claim(d) PROVE AckInv'
    BY <1>4 DEF Claim, OldestOf, Claimable, EmittingOK, ProcessedMeansAllApplied, TypeOK, ControlOK
  <1>5. ASSUME NEW d \in Dispatchers, NEW e \in Events, Emit(d, e) PROVE AckInv'
    BY <1>5 DEF Emit, PayloadRejected, EmittingOK, ProcessedMeansAllApplied, TypeOK, ControlOK
  <1>6. ASSUME NEW d \in Dispatchers, NEW l \in Listeners, ListenerOk(d, l) PROVE AckInv'
    BY <1>6 DEF ListenerOk, EmittingOK, ProcessedMeansAllApplied, TypeOK, ControlOK
  <1>7. ASSUME NEW d \in Dispatchers, NEW l \in Listeners, ListenerFail(d, l) PROVE AckInv'
    BY <1>7 DEF ListenerFail, EmittingOK, ProcessedMeansAllApplied, TypeOK, ControlOK
  <1>8. ASSUME NEW d \in Dispatchers, Ack(d) PROVE AckInv'
    BY <1>8 DEF Ack, Proceed, EmittingOK, ProcessedMeansAllApplied, TypeOK, ControlOK
  <1>9. ASSUME NEW d \in Dispatchers, AckThrows(d) PROVE AckInv'
    BY <1>9 DEF AckThrows, EmittingOK, ProcessedMeansAllApplied, TypeOK, ControlOK
  <1>10. ASSUME NEW d \in Dispatchers, Fail(d) PROVE AckInv'
    BY <1>10 DEF Fail, Proceed, EmittingOK, ProcessedMeansAllApplied, TypeOK, ControlOK
  <1>11. ASSUME NEW d \in Dispatchers, Abandon(d) PROVE AckInv'
    BY <1>11 DEF Abandon, EmittingOK, ProcessedMeansAllApplied, TypeOK, ControlOK
  <1>12. ASSUME NEW d \in Dispatchers, Stop(d) PROVE AckInv'
    BY <1>12 DEF Stop, EmittingOK, ProcessedMeansAllApplied, TypeOK, ControlOK
  <1>13. ASSUME NEW d \in Dispatchers, Exit(d) PROVE AckInv'
    BY <1>13 DEF Exit, Halt, EmittingOK, ProcessedMeansAllApplied, TypeOK, ControlOK
  <1>14. ASSUME NEW d \in Dispatchers, Crash(d) PROVE AckInv'
    BY <1>14 DEF Crash, Halt, EmittingOK, ProcessedMeansAllApplied, TypeOK, ControlOK
  <1>15. ASSUME NEW d \in Dispatchers, Start(d) PROVE AckInv'
    BY <1>15 DEF Start, EmittingOK, ProcessedMeansAllApplied, TypeOK, ControlOK
  <1>16. ASSUME NEW d \in Dispatchers, NEW e \in Events, NEW l \in Listeners, DetachedEnds(d, e, l) PROVE AckInv'
    <2>1. applied \subseteq applied'
      BY <1>16 DEF DetachedEnds
    <2>. QED
      BY <1>16, <2>1 DEF DetachedEnds, EmittingOK, ProcessedMeansAllApplied
  <1>17. CASE UNCHANGED vars
    BY <1>17 DEF vars, EmittingOK, ProcessedMeansAllApplied, TypeOK, ControlOK
  <1>. QED
    BY <1>1, <1>2, <1>3, <1>4, <1>5, <1>6, <1>7, <1>8, <1>9, <1>10, <1>11, <1>12, <1>13, <1>14, <1>15, <1>16, <1>17 DEF Next, DispatcherStep

(* A row is acknowledged only when every listener has completed its event. *)
THEOREM AckSound == Spec => []ProcessedMeansAllApplied
  <1>1. Init => AckInv
    BY OutboxAssumption DEF Init, AckInv, TypeOK, ControlOK, EmittingOK, ProcessedMeansAllApplied
  <1>2. AckInv => ProcessedMeansAllApplied
    BY DEF AckInv
  <1>. QED
    BY <1>1, <1>2, AckInductive, PTL DEF Spec
-------------------------------------------------------------------------------
(* Only a claim gives a dispatcher new work. *)
LEMMA WorkComesFromClaims ==
    ASSUME TypeOK, [Next]_vars, NEW x \in Dispatchers, NEW y \in Events, Working(x, y)'
    PROVE  Working(x, y) \/ (Claim(x) /\ y \in batch'[x])
  <1>. USE OutboxAssumption DEF Working, Holds, TypeOK, ControlOK
  <1>1. ASSUME NEW e \in Events, Enqueue(e) 
         PROVE  Working(x, y) \/ (Claim(x) /\ y \in batch'[x])
    BY <1>1 DEF Enqueue
  <1>2. ASSUME NEW e \in Events, Elapse(e) 
         PROVE  Working(x, y) \/ (Claim(x) /\ y \in batch'[x])
    BY <1>2 DEF Elapse
  <1>3. ASSUME NEW e \in Events, Purge(e) 
         PROVE  Working(x, y) \/ (Claim(x) /\ y \in batch'[x])
    BY <1>3 DEF Purge
  <1>4. ASSUME NEW d \in Dispatchers, Claim(d) 
         PROVE  Working(x, y) \/ (Claim(x) /\ y \in batch'[x])
    BY <1>4, ZenonT(30) DEF Claim, OldestOf, Claimable
  <1>5. ASSUME NEW d \in Dispatchers, NEW e \in Events, Emit(d, e) 
         PROVE  Working(x, y) \/ (Claim(x) /\ y \in batch'[x])
    BY <1>5 DEF Emit, PayloadRejected
  <1>6. ASSUME NEW d \in Dispatchers, NEW l \in Listeners, ListenerOk(d, l) 
         PROVE  Working(x, y) \/ (Claim(x) /\ y \in batch'[x])
    BY <1>6 DEF ListenerOk
  <1>7. ASSUME NEW d \in Dispatchers, NEW l \in Listeners, ListenerFail(d, l) 
         PROVE  Working(x, y) \/ (Claim(x) /\ y \in batch'[x])
    BY <1>7 DEF ListenerFail
  <1>8. ASSUME NEW d \in Dispatchers, Ack(d) 
         PROVE  Working(x, y) \/ (Claim(x) /\ y \in batch'[x])
    BY <1>8 DEF Ack, Proceed
  <1>9. ASSUME NEW d \in Dispatchers, AckThrows(d) 
         PROVE  Working(x, y) \/ (Claim(x) /\ y \in batch'[x])
    BY <1>9 DEF AckThrows
  <1>10. ASSUME NEW d \in Dispatchers, Fail(d) 
         PROVE  Working(x, y) \/ (Claim(x) /\ y \in batch'[x])
    BY <1>10 DEF Fail, Proceed
  <1>11. ASSUME NEW d \in Dispatchers, Abandon(d) 
         PROVE  Working(x, y) \/ (Claim(x) /\ y \in batch'[x])
    BY <1>11 DEF Abandon
  <1>12. ASSUME NEW d \in Dispatchers, Stop(d) 
         PROVE  Working(x, y) \/ (Claim(x) /\ y \in batch'[x])
    BY <1>12 DEF Stop
  <1>13. ASSUME NEW d \in Dispatchers, Exit(d) 
         PROVE  Working(x, y) \/ (Claim(x) /\ y \in batch'[x])
    BY <1>13 DEF Exit, Halt
  <1>14. ASSUME NEW d \in Dispatchers, Crash(d) 
         PROVE  Working(x, y) \/ (Claim(x) /\ y \in batch'[x])
    BY <1>14 DEF Crash, Halt
  <1>15. ASSUME NEW d \in Dispatchers, Start(d) 
         PROVE  Working(x, y) \/ (Claim(x) /\ y \in batch'[x])
    BY <1>15 DEF Start
  <1>16. ASSUME NEW d \in Dispatchers, NEW e \in Events, NEW l \in Listeners, DetachedEnds(d, e, l) 
         PROVE  Working(x, y) \/ (Claim(x) /\ y \in batch'[x])
    BY <1>16 DEF DetachedEnds
  <1>17. CASE UNCHANGED vars
    BY <1>17 DEF vars
  <1>. QED
    BY <1>1, <1>2, <1>3, <1>4, <1>5, <1>6, <1>7, <1>8, <1>9, <1>10, <1>11, <1>12, <1>13, <1>14, <1>15, <1>16, <1>17 DEF Next, DispatcherStep

-------------------------------------------------------------------------------
(* A dispatcher works only on events that were committed, and the runs it  *)
(* no longer waits for are of listeners of their event.                    *)
CommitInv == AckInv /\ CommittedOK

(* No step takes a row back to absent, and only claims give new work. *)
LEMMA CommitInductive == ASSUME CommitInv, [Next]_vars PROVE CommitInv'
  <1>1. AckInv'
    BY AckInductive DEF CommitInv
  <1>2. TypeOK /\ TypeOK'
    BY <1>1 DEF AckInv, CommitInv
  <1>3. \A y \in Events : row[y] \notin {"void", "absent"} => row'[y] \notin {"void", "absent"}
    <2>1. CASE row' = row
      BY <2>1
    <2>2. CASE \E e \in Events : Enqueue(e) \/ Purge(e)
      BY <2>2, <1>2 DEF Enqueue, Purge, TypeOK
    <2>3. CASE \E d \in Dispatchers : Ack(d) \/ AckThrows(d)
      BY <2>3, <1>2 DEF Ack, AckThrows, TypeOK
    <2>. QED
      BY <2>1, <2>2, <2>3 DEF Next, DispatcherStep, vars, Elapse, Claim, Emit, ListenerOk,
         ListenerFail, Fail, Abandon, Stop, Exit, Crash, Halt, Start, DetachedEnds
  <1>4. \A x \in Dispatchers, y \in Events : Working(x, y)' => row'[y] \notin {"void", "absent"}
    <2>. SUFFICES ASSUME NEW x \in Dispatchers, NEW y \in Events, Working(x, y)'
                  PROVE  row'[y] \notin {"void", "absent"}
      OBVIOUS
    <2>1. CASE Working(x, y)
      BY <2>1, <1>3 DEF CommitInv, CommittedOK
    <2>2. CASE Claim(x) /\ y \in batch'[x]
      BY <2>2, <1>2 DEF Claim, OldestOf, Claimable, TypeOK
    <2>. QED
      BY <2>1, <2>2, <1>2, WorkComesFromClaims
  <1>5. \A x \in Dispatchers, y \in Events, k \in Listeners :
          <<x, y, k>> \in detached' => k \in ListenersOf[y]
    <2>1. CASE detached' \subseteq detached
      BY <2>1 DEF CommitInv, CommittedOK
    <2>2. CASE \E d \in Dispatchers, l \in Listeners : ListenerFail(d, l)
      <3>1. PICK d \in Dispatchers, l \in Listeners : ListenerFail(d, l)
        BY <2>2
      <3>2. pc[d] = "emitting" /\ awaited[d] \subseteq ListenersOf[cur[d]]
        BY <3>1 DEF ListenerFail, CommitInv, AckInv, EmittingOK
      <3>. QED
        BY <3>1, <3>2, <1>2 DEF ListenerFail, CommitInv, CommittedOK, TypeOK
    <2>. QED
      BY <2>1, <2>2 DEF Next, DispatcherStep, vars, Enqueue, Elapse, Purge, Claim, Emit, ListenerOk,
         Ack, AckThrows, Fail, Abandon, Stop, Exit, Crash, Halt, Start, DetachedEnds
  <1>. QED
    BY <1>1, <1>4, <1>5 DEF CommitInv, CommittedOK

(* An empty table and idle dispatchers satisfy it. *)
LEMMA InitCommit == Init => CommitInv
  BY OutboxAssumption DEF Init, CommitInv, AckInv, TypeOK, ControlOK, EmittingOK,
     ProcessedMeansAllApplied, CommittedOK, Working, Holds

-------------------------------------------------------------------------------
(* The lease argument: an event somebody works on cannot be claimed before *)
(* its lease or backoff ends, and if that happens meanwhile it has lapsed. *)
LeaseInv == LeaseOK /\ ExclusiveUnlessLapsed

(* Every step keeps the lease discipline. *)
LEMMA LeaseInductive == ASSUME CommitInv, LeaseInv, [Next]_vars PROVE LeaseInv'
  <1>. USE DEF LeaseInv
  <1>t. TypeOK /\ CommittedOK
    BY DEF CommitInv, AckInv
  <1>w. \A x \in Dispatchers, y \in Events :
          Working(x, y)' => Working(x, y) \/ (Claim(x) /\ y \in batch'[x])
    BY <1>t, WorkComesFromClaims
  <1>1. ASSUME NEW e \in Events, Enqueue(e) PROVE LeaseInv'
    <2>1. \A x \in Dispatchers, y \in Events : Working(x, y)' => Working(x, y)
      BY <1>1 DEF Enqueue, Working, Holds
    <2>. QED
      BY <1>1, <1>t, <2>1 DEF Enqueue, LeaseOK, CommittedOK, ExclusiveUnlessLapsed, TypeOK
  <1>2. ASSUME NEW e \in Events, Elapse(e) PROVE LeaseInv'
    <2>1. \A x \in Dispatchers, y \in Events : Working(x, y)' => Working(x, y)
      BY <1>2, <1>t, <1>w DEF Elapse, Claim, TypeOK
    <2>. QED
      BY <1>2, <1>t, <2>1 DEF Elapse, LeaseOK, ExclusiveUnlessLapsed, TypeOK
  <1>3. ASSUME NEW e \in Events, Purge(e) PROVE LeaseInv'
    <2>1. \A x \in Dispatchers, y \in Events : Working(x, y)' => Working(x, y)
      BY <1>3, <1>t, <1>w DEF Purge, Claim, TypeOK
    <2>. QED
      BY <1>3, <1>t, <2>1 DEF Purge, LeaseOK, ExclusiveUnlessLapsed, TypeOK
  <1>4. ASSUME NEW d \in Dispatchers, Claim(d) PROVE LeaseInv'
    <2>1. \A y \in batch'[d] : y \in available /\ row[y] = "pending" /\ y \notin available'
      BY <1>4, <1>t DEF Claim, OldestOf, Claimable, TypeOK
    <2>2. \A x \in Dispatchers, y \in Events :
            Working(x, y)' => Working(x, y) \/ (x = d /\ y \in batch'[d])
      BY <1>4, <1>t, <1>w, ZenonT(30) DEF Claim, TypeOK
    <2>3. available' \subseteq available /\ row' = row /\ lapsed' = lapsed
      BY <1>4 DEF Claim, OldestOf
    <2>4. LeaseOK'
      BY <2>1, <2>2, <2>3 DEF LeaseOK
    <2>5. ExclusiveUnlessLapsed'
      BY <2>1, <2>2, <2>3 DEF LeaseOK, ExclusiveUnlessLapsed
    <2>. QED
      BY <2>4, <2>5
  <1>5. ASSUME NEW d \in Dispatchers, NEW e \in Events, Emit(d, e) PROVE LeaseInv'
    <2>1. \A x \in Dispatchers, y \in Events : Working(x, y)' => Working(x, y)
      BY <1>5, <1>t, <1>w, ZenonT(30) DEF Emit, PayloadRejected, Claim, TypeOK
    <2>. QED
      BY <1>5, <1>t, <2>1 DEF Emit, PayloadRejected, LeaseOK, ExclusiveUnlessLapsed, TypeOK
  <1>6. ASSUME NEW d \in Dispatchers, NEW l \in Listeners, ListenerOk(d, l) PROVE LeaseInv'
    <2>1. \A x \in Dispatchers, y \in Events : Working(x, y)' => Working(x, y)
      BY <1>6, <1>t, <1>w DEF ListenerOk, Claim, TypeOK
    <2>. QED
      BY <1>6, <1>t, <2>1 DEF ListenerOk, LeaseOK, ExclusiveUnlessLapsed, TypeOK
  <1>7. ASSUME NEW d \in Dispatchers, NEW l \in Listeners, ListenerFail(d, l) PROVE LeaseInv'
    <2>1. \A x \in Dispatchers, y \in Events : Working(x, y)' => Working(x, y)
      BY <1>7, <1>t, <1>w DEF ListenerFail, Claim, TypeOK
    <2>. QED
      BY <1>7, <1>t, <2>1 DEF ListenerFail, LeaseOK, ExclusiveUnlessLapsed, TypeOK
  <1>8. ASSUME NEW d \in Dispatchers, Ack(d) PROVE LeaseInv'
    <2>1. \A x \in Dispatchers, y \in Events : Working(x, y)' => Working(x, y)
      BY <1>8, <1>t, <1>w, ZenonT(30) DEF Ack, Proceed, Claim, TypeOK
    <2>. QED
      BY <1>8, <1>t, <2>1 DEF Ack, Proceed, LeaseOK, ExclusiveUnlessLapsed, TypeOK
  <1>9. ASSUME NEW d \in Dispatchers, AckThrows(d) PROVE LeaseInv'
    <2>1. \A x \in Dispatchers, y \in Events : Working(x, y)' => Working(x, y)
      BY <1>9, <1>t, <1>w DEF AckThrows, Claim, TypeOK
    <2>. QED
      BY <1>9, <1>t, <2>1 DEF AckThrows, LeaseOK, ExclusiveUnlessLapsed, TypeOK
  <1>10. ASSUME NEW d \in Dispatchers, Fail(d) PROVE LeaseInv'
    <2>1. \A x \in Dispatchers, y \in Events : Working(x, y)' => Working(x, y)
      BY <1>10, <1>t, <1>w DEF Fail, Proceed, Claim, TypeOK
    <2>. QED
      BY <1>10, <1>t, <2>1 DEF Fail, Proceed, LeaseOK, ExclusiveUnlessLapsed, TypeOK
  <1>11. ASSUME NEW d \in Dispatchers, Abandon(d) PROVE LeaseInv'
    <2>1. \A x \in Dispatchers, y \in Events : Working(x, y)' => Working(x, y)
      BY <1>11, <1>t, <1>w DEF Abandon, Claim, TypeOK
    <2>. QED
      BY <1>11, <1>t, <2>1 DEF Abandon, LeaseOK, ExclusiveUnlessLapsed, TypeOK
  <1>12. ASSUME NEW d \in Dispatchers, Stop(d) PROVE LeaseInv'
    <2>1. \A x \in Dispatchers, y \in Events : Working(x, y)' => Working(x, y)
      BY <1>12, <1>t, <1>w DEF Stop, Claim, TypeOK
    <2>. QED
      BY <1>12, <1>t, <2>1 DEF Stop, LeaseOK, ExclusiveUnlessLapsed, TypeOK
  <1>13. ASSUME NEW d \in Dispatchers, Exit(d) PROVE LeaseInv'
    <2>1. \A x \in Dispatchers, y \in Events : Working(x, y)' => Working(x, y)
      BY <1>13, <1>t, <1>w DEF Exit, Halt, Claim, TypeOK
    <2>. QED
      BY <1>13, <1>t, <2>1 DEF Exit, Halt, LeaseOK, ExclusiveUnlessLapsed, TypeOK
  <1>14. ASSUME NEW d \in Dispatchers, Crash(d) PROVE LeaseInv'
    <2>1. \A x \in Dispatchers, y \in Events : Working(x, y)' => Working(x, y)
      <3>1. crashes' # crashes
        BY <1>14, <1>t, OutboxAssumption DEF Crash, TypeOK
      <3>. QED
        BY <3>1, <1>w DEF Claim
    <2>. QED
      BY <1>14, <1>t, <2>1 DEF Crash, Halt, LeaseOK, ExclusiveUnlessLapsed, TypeOK
  <1>15. ASSUME NEW d \in Dispatchers, Start(d) PROVE LeaseInv'
    <2>1. \A x \in Dispatchers, y \in Events : Working(x, y)' => Working(x, y)
      BY <1>15, <1>t, <1>w DEF Start, Claim, TypeOK
    <2>. QED
      BY <1>15, <1>t, <2>1 DEF Start, LeaseOK, ExclusiveUnlessLapsed, TypeOK
  <1>16. ASSUME NEW d \in Dispatchers, NEW e \in Events, NEW l \in Listeners, DetachedEnds(d, e, l) PROVE LeaseInv'
    <2>1. \A x \in Dispatchers, y \in Events : Working(x, y)' => Working(x, y)
      BY <1>16, <1>t, <1>w DEF DetachedEnds, Claim, TypeOK
    <2>. QED
      BY <1>16, <1>t, <2>1 DEF DetachedEnds, LeaseOK, ExclusiveUnlessLapsed, TypeOK
  <1>17. CASE UNCHANGED vars
    BY <1>17 DEF vars, LeaseOK, ExclusiveUnlessLapsed, Working, Holds
  <1>. QED
    BY <1>1, <1>2, <1>3, <1>4, <1>5, <1>6, <1>7, <1>8, <1>9, <1>10, <1>11, <1>12, <1>13, <1>14, <1>15, <1>16, <1>17 DEF Next, DispatcherStep

(* Two dispatchers work on the same event only after a lease lapsed. *)
THEOREM LeaseExclusive == Spec => []ExclusiveUnlessLapsed
  <1>1. Init => LeaseInv
    BY OutboxAssumption DEF Init, LeaseInv, LeaseOK, ExclusiveUnlessLapsed, Working, Holds
  <1>2. LeaseInv => ExclusiveUnlessLapsed
    BY DEF LeaseInv
  <1>. QED
    BY <1>1, <1>2, InitCommit, CommitInductive, LeaseInductive, PTL DEF Spec

-------------------------------------------------------------------------------
(* Refinement.  The contract's state is read off the rows; every step of   *)
(* the dispatcher is a step of the contract or leaves its state alone.     *)
LEMMA InitRefines == Init => Contract!Init
  BY DEF Init, Contract!Init

(* An enqueue owes, a completing listener carries, an acknowledgement      *)
(* settles; everything else is invisible to the contract.                  *)
LEMMA StepRefines ==
    ASSUME CommitInv, [Next]_vars PROVE [Contract!Next]_(Contract!cvars)
  <1>. USE DEF Contract!cvars
  <1>t. TypeOK /\ EmittingOK /\ CommittedOK
    BY DEF CommitInv, AckInv
  <1>1. ASSUME NEW e \in Events, Enqueue(e) PROVE Contract!Next
    BY <1>1, <1>t DEF Enqueue, Contract!Next, Contract!Owe, TypeOK
  <1>2. ASSUME NEW d \in Dispatchers, NEW l \in Listeners, ListenerOk(d, l)
        PROVE  Contract!Next
    <2>1. cur[d] \in Events /\ l \in ListenersOf[cur[d]]
      BY <1>2, <1>t DEF ListenerOk, TypeOK, ControlOK, EmittingOK
    <2>2. row[cur[d]] \notin {"void", "absent"}
      BY <2>1, <1>t DEF CommittedOK, Working, Holds
    <2>3. Contract!Carry(cur[d], l)
      BY <1>2, <1>t, <2>1, <2>2 DEF ListenerOk, Contract!Carry, TypeOK
    <2>. QED
      BY <2>1, <2>3 DEF Contract!Next
  <1>3. ASSUME NEW d \in Dispatchers, NEW e \in Events, NEW l \in Listeners, DetachedEnds(d, e, l)
        PROVE  Contract!Next \/ UNCHANGED Contract!cvars
    <2>1. l \in ListenersOf[e] /\ row[e] \notin {"void", "absent"}
      BY <1>3, <1>t DEF DetachedEnds, CommittedOK, Working
    <2>2. Contract!Carry(e, l) \/ UNCHANGED Contract!cvars
      BY <1>3, <1>t, <2>1 DEF DetachedEnds, Contract!Carry, TypeOK
    <2>. QED
      BY <2>1, <2>2 DEF Contract!Next
  <1>4. ASSUME NEW d \in Dispatchers, Ack(d) \/ AckThrows(d)
        PROVE  Contract!Next \/ UNCHANGED Contract!cvars
    <2>1. /\ cur[d] \in Events
          /\ ListenersOf[cur[d]] # {}
          /\ \A l \in ListenersOf[cur[d]] : <<cur[d], l>> \in applied
      BY <1>4, <1>t DEF Ack, AckThrows, TypeOK, ControlOK, EmittingOK
    <2>2. PICK y \in Events : y = cur[d]
      BY <2>1
    <2>3. CASE row' = row
      BY <1>4, <2>3 DEF Ack, AckThrows
    <2>4. CASE row[y] = "pending" /\ row' = [row EXCEPT ![y] = "processed"]
      <3>1. Contract!Settle(y)
        BY <1>4, <1>t, <2>1, <2>2, <2>4 DEF Ack, AckThrows, Contract!Settle, TypeOK
      <3>. QED
        BY <3>1 DEF Contract!Next
    <2>. QED
      BY <1>4, <1>t, <2>2, <2>3, <2>4 DEF Ack, AckThrows, TypeOK
  <1>5. ASSUME NEW e \in Events, Purge(e) PROVE UNCHANGED Contract!cvars
    BY <1>5, <1>t DEF Purge, TypeOK
  <1>6. ASSUME NEW e \in Events, Elapse(e) PROVE UNCHANGED Contract!cvars
    BY <1>6 DEF Elapse
  <1>7. ASSUME NEW d \in Dispatchers,
               \/ Claim(d) \/ Fail(d) \/ Abandon(d) \/ Stop(d) \/ Exit(d) \/ Crash(d) \/ Start(d)
               \/ \E e \in Events : Emit(d, e)
               \/ \E l \in Listeners : ListenerFail(d, l)
        PROVE  UNCHANGED Contract!cvars
    BY <1>7 DEF Claim, Fail, Abandon, Stop, Exit, Crash, Halt, Start, Emit, ListenerFail
  <1>8. CASE UNCHANGED vars
    BY <1>8 DEF vars
  <1>. QED
    BY <1>1, <1>2, <1>3, <1>4, <1>5, <1>6, <1>7, <1>8 DEF Next, DispatcherStep

(* The outbox implements the at-least-once contract. *)
THEOREM OutboxRefinesContract == Spec => RefinesContract
  BY InitRefines, StepRefines, InitCommit, CommitInductive, PTL DEF Spec, RefinesContract, Contract!Spec

(* Together, as the model checker has it: whatever fails, dies or overlaps, *)
(* rows and dispatchers agree, what OutboxDispatcher acknowledges was      *)
(* applied, and leases exclude.                                            *)
THEOREM DeliveryIsKept == Spec => []DeliveryHolds
  BY TypeCorrect, AckSound, LeaseExclusive, PTL DEF DeliveryHolds

-------------------------------------------------------------------------------
(* The campaigns: the checkpoint covers only users who have the            *)
(* notification, and a campaign that is SENT has reached everybody.        *)

(* u has the notification, or sits behind a user who is gone. *)
Served(u) == u \in notified \/ Excused(u)

(* Everybody up to c is served. *)
Covered(c) == \A u \in Audience : u <= c => Served(u)

(* Everybody who was there when the campaign was made is served. *)
Everybody == \A u \in (1..First) \ gone : Served(u)

(* What a run knows at each of its steps.  A batch leaves out nobody up to *)
(* its last user, and a short batch nobody who was there at the beginning. *)
RunOK(w) ==
    LET page == run[w].batch
    IN  /\ run[w].pc \in {"fetch", "notify", "checkpoint"} => Covered(run[w].cursor)
        /\ run[w].pc \in {"notify", "checkpoint"} =>
             /\ \A u \in Audience : run[w].cursor < u /\ u <= Max(page) => u \in page \/ Excused(u)
             /\ Cardinality(page) < BatchSize =>
                  \A u \in (1..First) \ gone : run[w].cursor < u => u \in page \/ Excused(u)
        /\ run[w].pc = "checkpoint" => page \subseteq notified
        /\ run[w].pc = "finish" => Everybody

RunRecords == [pc : Steps, cursor : Nat, batch : SUBSET Nat]

(* The inductive invariant: attempts are counted from the first claim on,  *)
(* and each run knows where it is.                                         *)
CampaignInvariant ==
    /\ CampaignOK
    /\ run \in [Runs -> RunRecords]
    /\ status = "SCHEDULED" => attempts = 0
    /\ NobodyIsLeftOut
    /\ \A w \in Runs : RunOK(w)

-------------------------------------------------------------------------------
(* Finite sets of integers *)

(* Max is the maximum: a finite set of integers has one. *)
LEMMA MaxOfFinite ==
    ASSUME NEW S \in SUBSET Int, IsFiniteSet(S), S # {}
    PROVE  Max(S) \in S /\ \A x \in S : Max(S) >= x
<1> DEFINE From(x) == {y \in S : y >= x}
           F == {From(x) : x \in S}
<1> HIDE DEF F
<1>1. F \subseteq FiniteSubsetsOf(S) /\ F # {}
  <2>1. FiniteSubsetsOf(S) = SUBSET S
    BY FS_FiniteSubsetsOfFinite
  <2>2. \A x \in S : From(x) \in SUBSET S /\ From(x) \in F
    BY DEF F
  <2>3. F \subseteq SUBSET S
    BY DEF F
  <2> HIDE DEF F, From
  <2> QED BY <2>1, <2>2, <2>3
<1>2. PICK T \in F : \A U \in F : ~(<<U, T>> \in StrictSubsetOrdering(S))
  <2>1. IsWellFoundedOn(StrictSubsetOrdering(S), FiniteSubsetsOf(S))
    BY FS_StrictSubsetOrderingWellFounded
  <2> QED BY <1>1, <2>1, WFMin
<1>3. PICK x \in S : T = From(x)
  BY <1>2 DEF F
<1>4. \A y \in S : x >= y
  <2>1. SUFFICES ASSUME NEW y \in S, y > x PROVE FALSE
    OBVIOUS
  <2>2. From(y) \subseteq From(x) /\ x \in From(x) /\ x \notin From(y)
    <3>1. x \in Int /\ y \in Int /\ \A z \in S : z \in Int
      OBVIOUS
    <3>2. \A z \in Int : z >= y => z >= x
      BY <2>1, <3>1
    <3>3. From(y) \subseteq From(x)
      BY <3>1, <3>2, Zenon
    <3>4. x \in From(x) /\ x \notin From(y)
      BY <2>1, <3>1
    <3> QED BY <3>3, <3>4
  <2>3. <<From(y), T>> \in StrictSubsetOrdering(S)
    BY <1>3, <2>2 DEF StrictSubsetOrdering
  <2> QED BY <1>2, <2>3 DEF F
<1> QED BY <1>4 DEF Max

(* Min is the minimum. *)
LEMMA MinOfFinite ==
    ASSUME NEW S \in SUBSET Int, IsFiniteSet(S), S # {}
    PROVE  Min(S) \in S /\ \A x \in S : Min(S) <= x
<1> DEFINE f == [x \in S |-> -x]
           T == {-x : x \in S}
<1>0. \A x \in S : x \in Int
  OBVIOUS
<1>1. IsFiniteSet(T)
  <2>1. f \in Surjection(S, T)
    BY Zenon DEF Surjection
  <2> QED BY <2>1, FS_Surjection
<1>2. T \in SUBSET Int /\ T # {}
  <2>1. \A x \in S : -x \in Int
    BY <1>0
  <2>2. T \subseteq Int
    BY <2>1, Zenon
  <2>3. T # {}
    BY Zenon
  <2> QED BY <2>2, <2>3
<1>3. Max(T) \in T /\ \A x \in T : Max(T) >= x
  BY <1>1, <1>2, MaxOfFinite
<1>4. PICK m \in S : Max(T) = -m
  BY <1>3
<1>5. \A x \in S : m <= x
  <2> TAKE x \in S
  <2>1. -x \in T
    BY Zenon
  <2>2. -m >= -x
    BY <1>3, <1>4, <2>1
  <2> QED BY <2>2, <1>0
<1> HIDE DEF T
<1> QED BY <1>5 DEF Min

(* The first elements of S, k of them if there are as many: a prefix of S  *)
(* that is not the whole has at least k elements, ...                      *)
LEMMA FirstOnesFill ==
    ASSUME NEW S \in SUBSET Int, IsFiniteSet(S), NEW k \in Nat,
           {x \in S : Cardinality({y \in S : y < x}) < k} # S
    PROVE  Cardinality({x \in S : Cardinality({y \in S : y < x}) < k}) >= k
<1> DEFINE Below(x) == {y \in S : y < x}
           first == {x \in S : Cardinality(Below(x)) < k}
           rest == S \ first
<1>1. \A x \in S : IsFiniteSet(Below(x)) /\ Cardinality(Below(x)) \in Nat
  BY FS_Subset, FS_CardinalityType
<1>2. rest # {} /\ rest \in SUBSET Int /\ IsFiniteSet(rest)
  BY FS_Subset
<1>3. PICK m \in rest : \A x \in rest : m <= x
  BY <1>2, MinOfFinite
<1>4. Below(m) \subseteq first
  <2>1. SUFFICES ASSUME NEW y \in S, y < m PROVE y \in first
    OBVIOUS
  <2>2. y \in Int /\ m \in Int
    BY <1>3
  <2>3. ~(m <= y)
    BY <2>1, <2>2
  <2> QED BY <1>3, <2>3
<1>5. Cardinality(Below(m)) >= k
  <2>1. ~(Cardinality(Below(m)) < k) /\ Cardinality(Below(m)) \in Nat
    BY <1>1, <1>3
  <2> QED BY <2>1
<1>6. IsFiniteSet(first)
  BY FS_Subset
<1>7. Cardinality(Below(m)) <= Cardinality(first) /\ Cardinality(first) \in Nat
  BY <1>4, <1>6, FS_Subset, FS_CardinalityType
<1>8. Cardinality(Below(m)) \in Nat
  BY <1>1, <1>3
<1>9. Cardinality(first) >= k
  BY <1>5, <1>7, <1>8
<1> QED BY <1>9

(* ... whoever is smaller than one of them is one of them, ...             *)
LEMMA FirstOnesArePrefix ==
    ASSUME NEW S \in SUBSET Int, IsFiniteSet(S), NEW k \in Nat,
           NEW x \in S, NEW z \in S, z < x,
           Cardinality({y \in S : y < x}) < k
    PROVE  Cardinality({y \in S : y < z}) < k
<1> DEFINE Below(u) == {y \in S : y < u}
<1>1. Below(z) \subseteq Below(x)
  <2>1. \A y \in S : y < z => y < x
    <3>1. z \in Int /\ x \in Int /\ \A y \in S : y \in Int
      OBVIOUS
    <3> QED BY <3>1
  <2> QED BY <2>1
<1>2. IsFiniteSet(Below(x))
  BY FS_Subset
<1>3. Cardinality(Below(z)) <= Cardinality(Below(x)) /\ Cardinality(Below(z)) \in Nat
      /\ Cardinality(Below(x)) \in Nat
  BY <1>1, <1>2, FS_Subset, FS_CardinalityType
<1>4. Cardinality(Below(x)) < k
  OBVIOUS
<1>5. Cardinality(Below(z)) < k
  BY <1>3, <1>4
<1> QED BY <1>5

-------------------------------------------------------------------------------
(* Batches *)

(* A batch is the next users after the cursor: the query passes over       *)
(* nobody but a user right behind a cursor that is gone.                   *)
LEMMA BatchOfCursor ==
    ASSUME CampaignOK, NEW c \in 0..top
    PROVE  LET page == NextBatch(c)
           IN  /\ page \subseteq Audience
               /\ \A u \in page : c < u
               /\ page # {} => Max(page) \in page /\ \A u \in page : u <= Max(page)
               /\ \A u \in Audience : \A v \in page :
                    c < u /\ u <= v => u \in page \/ Excused(u)
               /\ Cardinality(page) < BatchSize =>
                    \A u \in Audience : c < u => u \in page \/ Excused(u)
<1> DEFINE from == {u \in Audience : u >= c}
           rest == IF c = 0 \/ from = {} THEN from ELSE from \ {Min(from)}
           page == {u \in rest : Cardinality({v \in rest : v < u}) < BatchSize}
<1>1. NextBatch(c) = page
  BY DEF NextBatch
<1>2. top \in Nat /\ c \in Nat /\ BatchSize \in Nat \ {0} /\ gone \subseteq 1..top
  BY CampaignAssumption DEF CampaignOK
<1>3. Audience \subseteq 1..top /\ IsFiniteSet(Audience) /\ \A u \in Audience : u \in Int /\ u >= 1
  <2>1. IsFiniteSet(1..top)
    BY <1>2, FS_Interval
  <2>2. Audience \subseteq 1..top
    BY DEF Audience
  <2>3. \A u \in 1..top : u \in Int /\ u >= 1
    BY <1>2
  <2>4. IsFiniteSet(Audience)
    BY <2>1, <2>2, FS_Subset
  <2> QED BY <2>2, <2>3, <2>4
<1>4. from \in SUBSET Int /\ IsFiniteSet(from)
  BY <1>3, FS_Subset
<1>5. rest \in SUBSET Int /\ IsFiniteSet(rest) /\ rest \subseteq Audience
  BY <1>4, FS_Subset
<1>6. \A u \in rest : c < u
  <2>1. CASE c = 0 \/ from = {}
    BY <1>2, <1>3, <2>1
  <2>2. CASE c # 0 /\ from # {}
    <3>1. Min(from) \in from /\ \A x \in from : Min(from) <= x
      BY <1>4, <2>2, MinOfFinite
    <3>2. SUFFICES ASSUME NEW u \in rest PROVE c < u
      OBVIOUS
    <3>3. u \in from /\ u # Min(from) /\ u \in Int /\ u >= c
      BY <1>3, <2>2
    <3>4. ASSUME u = c PROVE FALSE
      <4>1. Min(from) \in Int /\ Min(from) >= c /\ Min(from) <= c
        BY <1>3, <3>1, <3>3, <3>4
      <4> QED BY <1>2, <3>3, <3>4, <4>1
    <3> QED BY <1>2, <3>3, <3>4
  <2> QED BY <2>1, <2>2
<1>7. \A u \in Audience : c < u => u \in rest \/ Excused(u)
  <2>1. SUFFICES ASSUME NEW u \in Audience, c < u, u \notin rest PROVE Excused(u)
    OBVIOUS
  <2>2. u \in from /\ c # 0
    BY <1>2, <1>3, <2>1
  <2>3. u = Min(from)
    BY <2>1, <2>2
  <2>4. \A x \in from : Min(from) <= x
    BY <1>4, <2>2, MinOfFinite
  <2>5. c \notin from
    BY <1>2, <1>3, <2>1, <2>3, <2>4
  <2>6. c \in gone
    BY <1>2, <2>2, <2>5 DEF Audience
  <2> QED BY <2>1, <2>6 DEF Excused
<1> HIDE DEF rest, from
<1>8. page \in SUBSET Int /\ IsFiniteSet(page) /\ page \subseteq rest
  BY <1>5, FS_Subset
<1>9. page # {} => Max(page) \in page /\ \A u \in page : u <= Max(page)
  <2>1. ASSUME page # {} PROVE Max(page) \in page /\ \A u \in page : Max(page) >= u
    BY <1>8, <2>1, MaxOfFinite
  <2>2. \A u \in page : u \in Int
    BY <1>8
  <2> HIDE DEF page
  <2> QED BY <2>1, <2>2
<1>10. \A u \in rest : \A v \in page : u <= v => u \in page
  <2>1. SUFFICES ASSUME NEW u \in rest, NEW v \in page, u <= v PROVE u \in page
    OBVIOUS
  <2>2. u \in Int /\ v \in Int /\ v \in rest
    BY <1>5
  <2>3. CASE u = v
    BY <2>3
  <2>4. CASE u < v
    <3>1. Cardinality({y \in rest : y < v}) < BatchSize
      OBVIOUS
    <3>2. Cardinality({y \in rest : y < u}) < BatchSize
      BY <1>2, <1>5, <2>2, <2>4, <3>1, FirstOnesArePrefix
    <3> QED BY <3>2
  <2> QED BY <2>1, <2>2, <2>3, <2>4
<1>11. Cardinality(page) < BatchSize => page = rest
  <2>1. ASSUME page # rest PROVE Cardinality(page) >= BatchSize
    BY <1>2, <1>5, <2>1, FirstOnesFill
  <2>2. Cardinality(page) \in Nat
    BY <1>8, FS_CardinalityType
  <2> HIDE DEF page
  <2> QED BY <1>2, <2>1, <2>2
<1> HIDE DEF page
<1> QED BY <1>1, <1>5, <1>6, <1>7, <1>8, <1>9, <1>10, <1>11

-------------------------------------------------------------------------------
(* What was served stays served: users come at the end, go, and are told.  *)
Grows ==
    /\ top' \in Nat /\ top <= top'
    /\ notified \subseteq notified'
    /\ gone \subseteq gone'

LEMMA ServedStays ==
    ASSUME Grows, NEW u, Served(u)
    PROVE  Served(u)'
BY DEF Grows, Served, Excused

LEMMA CoveredStays ==
    ASSUME CampaignOK, Grows, NEW c \in 0..top, Covered(c)
    PROVE  Covered(c)'
<1> SUFFICES ASSUME NEW u \in Audience', u <= c PROVE Served(u)'
  BY DEF Covered
<1>1. top \in Nat /\ top' \in Nat
  BY CampaignAssumption DEF CampaignOK, Grows
<1>2. u \in 1..top' /\ u \notin gone'
  BY DEF Audience
<1>3. u \in Audience
  BY <1>1, <1>2 DEF Audience, Grows
<1> QED BY <1>3, ServedStays DEF Covered

LEMMA EverybodyStays ==
    ASSUME Grows, Everybody
    PROVE  Everybody'
BY ServedStays DEF Everybody, Grows

(* A run that does not move still knows what it knew. *)
LEMMA RunStays ==
    ASSUME CampaignOK, Grows, NEW w \in Runs, RunOK(w), run'[w] = run[w]
    PROVE  RunOK(w)'
<1> DEFINE page == run[w].batch
<1>1. /\ top \in Nat /\ top' \in Nat /\ top <= top'
      /\ run[w].cursor \in 0..top /\ page \subseteq 1..top
      /\ page # {} <=> run[w].pc \in {"notify", "checkpoint"}
  BY CampaignAssumption DEF CampaignOK, Grows
<1>2. run[w].pc \in {"fetch", "notify", "checkpoint"} => Covered(run[w].cursor)'
  BY <1>1, CoveredStays DEF RunOK
<1>3. ASSUME run[w].pc \in {"notify", "checkpoint"}
      PROVE  /\ \A u \in Audience' : run[w].cursor < u /\ u <= Max(page) => u \in page \/ Excused(u)'
             /\ Cardinality(page) < BatchSize =>
                  \A u \in (1..First) \ gone' : run[w].cursor < u => u \in page \/ Excused(u)'
  <2>1. Max(page) \in 1..top
    <3>0. IsFiniteSet(1..top)
      BY <1>1, FS_Interval
    <3>1. page \in SUBSET Int /\ IsFiniteSet(page) /\ page # {}
      BY <1>1, <1>3, <3>0, FS_Subset
    <3> QED BY <1>1, <3>1, MaxOfFinite
  <2>2. \A u : Excused(u) => Excused(u)'
    BY DEF Grows, Excused
  <2>3. \A u \in Audience' : u <= Max(page) => u \in Audience
    BY <1>1, <2>1 DEF Audience, Grows
  <2>4. (1..First) \ gone' \subseteq (1..First) \ gone
    BY DEF Grows
  <2> QED BY <1>3, <2>2, <2>3, <2>4 DEF RunOK
<1>4. run[w].pc = "checkpoint" => page \subseteq notified'
  BY DEF RunOK, Grows
<1>5. run[w].pc = "finish" => Everybody'
  BY EverybodyStays DEF RunOK
<1> QED BY <1>2, <1>3, <1>4, <1>5 DEF RunOK

-------------------------------------------------------------------------------
(* The steps *)

(* Where a run may go: the others do not move, it keeps its types. *)
RunMoves(w) ==
    /\ run' \in [Runs -> RunRecords]
    /\ \A v \in Runs \ {w} : run'[v] = run[v]
    /\ run'[w].cursor \in 0..top
    /\ run'[w].batch \subseteq 1..top
    /\ run'[w].batch # {} <=> run'[w].pc \in {"notify", "checkpoint"}
    /\ \A u \in run'[w].batch : u > run'[w].cursor

(* What it may do to the campaign: notify, and move the checkpoint over    *)
(* users who are served; the campaign is SENT when all are.                *)
CampaignMoves ==
    /\ UNCHANGED <<due, top, gone, canceling, deaths>>
    /\ status' \in {"SCHEDULED", "SENDING", "SENT", "CANCELED", "FAILED"}
    /\ attempts' \in 0..MaxAttempts
    /\ status' = "SCHEDULED" => status = "SCHEDULED" /\ attempts' = attempts
    /\ status' = "SENT" => status = "SENT" \/ Everybody
    /\ overdue' \in BOOLEAN
    /\ cursor' \in 0..top
    /\ cursor' = cursor \/ Covered(cursor')
    /\ notified \subseteq notified'
    /\ notified' \subseteq 1..top
    /\ failures' \in 0..MaxFailures

LEMMA CampaignTypes ==
    ASSUME CampaignInvariant
    PROVE  /\ top \in Nat /\ top \in First..Last /\ cursor \in 0..top /\ notified \subseteq 1..top
           /\ gone \subseteq 1..top
           /\ failures \in 0..MaxFailures /\ attempts \in 0..MaxAttempts /\ overdue \in BOOLEAN
           /\ status \in {"SCHEDULED", "SENDING", "SENT", "CANCELED", "FAILED"}
           /\ status = "SCHEDULED" => attempts = 0
           /\ Covered(cursor) /\ (status = "SENT" => Everybody)
           /\ CampaignOK
BY CampaignAssumption
   DEF CampaignInvariant, CampaignOK, NobodyIsLeftOut, SentReachedEverybody, CheckpointIsDelivered,
       Everybody, Covered, Served

LEMMA RunTypes ==
    ASSUME CampaignInvariant, NEW w \in Runs
    PROVE  /\ run \in [Runs -> RunRecords] /\ run[w] \in RunRecords
           /\ run[w].cursor \in 0..top /\ run[w].batch \subseteq 1..top
           /\ run[w].batch # {} <=> run[w].pc \in {"notify", "checkpoint"}
           /\ \A u \in run[w].batch : u > run[w].cursor
           /\ RunOK(w)
BY DEF CampaignInvariant, CampaignOK

(* Nobody is left out by a step that lets users only come, go or be told.  *)
LEMMA NobodyStaysLeftOut ==
    ASSUME CampaignInvariant, Grows, cursor' \in 0..top, cursor' = cursor \/ Covered(cursor'),
           status' = "SENT" => status = "SENT" \/ Everybody
    PROVE  NobodyIsLeftOut'
<1>1. Covered(cursor')
  BY CampaignTypes
<1>2. CheckpointIsDelivered'
  <2>1. PICK c \in 0..top : c = cursor'
    OBVIOUS
  <2>2. Covered(c)'
    BY <1>1, <2>1, CampaignTypes, CoveredStays
  <2> QED BY <2>1, <2>2 DEF Covered, CheckpointIsDelivered, Served
<1>3. status' = "SENT" => Everybody'
  BY CampaignTypes, EverybodyStays
<1> QED BY <1>2, <1>3 DEF NobodyIsLeftOut, SentReachedEverybody, Everybody, Served

(* A run that moves like this and is right about itself keeps the rest.    *)
LEMMA RunMoveKeeps ==
    ASSUME CampaignInvariant, NEW w \in Runs, RunMoves(w), CampaignMoves, RunOK(w)'
    PROVE  CampaignInvariant'
<1>1. Grows
  BY CampaignTypes DEF CampaignMoves, Grows
<1>2. \A v \in Runs : RunOK(v)'
  BY <1>1, RunStays DEF CampaignInvariant, RunMoves
<1>3. CampaignOK'
  BY DEF CampaignInvariant, CampaignOK, RunMoves, CampaignMoves, RunRecords
<1>4. NobodyIsLeftOut'
  BY <1>1, NobodyStaysLeftOut DEF CampaignMoves
<1> QED BY <1>2, <1>3, <1>4, CampaignTypes DEF CampaignInvariant, RunMoves, CampaignMoves

LEMMA FindDueKeeps ==
    ASSUME CampaignInvariant, NEW w \in Runs, FindDue(w)
    PROVE  CampaignInvariant'
<1>1. run' = [run EXCEPT ![w].pc = "claim"] /\ run[w].pc = "idle"
  BY DEF FindDue, MoveTo
<1>2. RunMoves(w) /\ run'[w].pc = "claim"
  BY <1>1, RunTypes DEF RunMoves, RunRecords, Steps
<1>3. CampaignMoves
  BY CampaignTypes DEF FindDue, CampaignMoves, columns
<1>4. RunOK(w)'
  BY <1>2 DEF RunOK
<1> QED BY <1>2, <1>3, <1>4, RunMoveKeeps

LEMMA ClaimKeeps ==
    ASSUME CampaignInvariant, NEW w \in Runs, ClaimDue(w)
    PROVE  CampaignInvariant'
<1>1. (run' = [run EXCEPT ![w].pc = "load"] \/ run' = [run EXCEPT ![w].pc = "idle"]) /\ run[w].pc = "claim"
  BY DEF ClaimDue, MoveTo
<1>2. RunMoves(w) /\ run'[w].pc \in {"load", "idle"}
  BY <1>1, RunTypes DEF RunMoves, RunRecords, Steps
<1>3. CampaignMoves
  <2>1. Dispatchable => attempts + 1 \in 0..MaxAttempts
    BY CampaignTypes, CampaignAssumption DEF Dispatchable
  <2> QED BY <2>1, CampaignTypes DEF ClaimDue, CampaignMoves
<1>4. RunOK(w)'
  BY <1>2 DEF RunOK
<1> QED BY <1>2, <1>3, <1>4, RunMoveKeeps

LEMMA LoadKeeps ==
    ASSUME CampaignInvariant, NEW w \in Runs, Load(w)
    PROVE  CampaignInvariant'
<1>1. run' = [run EXCEPT ![w].pc = "fetch", ![w].cursor = cursor] /\ run[w].pc = "load"
  BY DEF Load
<1>2. RunMoves(w) /\ run'[w].pc = "fetch" /\ run'[w].cursor = cursor
  BY <1>1, RunTypes, CampaignTypes DEF RunMoves, RunRecords, Steps
<1>3. CampaignMoves
  BY CampaignTypes DEF Load, CampaignMoves, columns
<1>4. Covered(cursor)'
  <2>1. UNCHANGED <<notified, top, gone, cursor>>
    BY DEF Load, columns
  <2> QED BY <2>1, CampaignTypes DEF Covered, Served, Excused, Audience
<1>5. cursor' = cursor
  BY DEF Load, columns
<1>6. Covered(run[w].cursor)'
  BY <1>2, <1>4, <1>5 DEF Covered
<1>7. RunOK(w)'
  BY <1>2, <1>6 DEF RunOK
<1> QED BY <1>2, <1>3, <1>7, RunMoveKeeps

LEMMA FetchKeeps ==
    ASSUME CampaignInvariant, NEW w \in Runs, Fetch(w)
    PROVE  CampaignInvariant'
<1> DEFINE c == run[w].cursor
           page == NextBatch(c)
<1>1. /\ page \subseteq Audience
      /\ \A u \in page : c < u
      /\ page # {} => Max(page) \in page /\ \A u \in page : u <= Max(page)
      /\ \A u \in Audience : \A v \in page : c < u /\ u <= v => u \in page \/ Excused(u)
      /\ Cardinality(page) < BatchSize => \A u \in Audience : c < u => u \in page \/ Excused(u)
  BY RunTypes, CampaignTypes, BatchOfCursor
<1>2. Audience \subseteq 1..top /\ (1..First) \ gone \subseteq Audience
  BY CampaignTypes, CampaignAssumption DEF Audience
<1>3. run[w].pc = "fetch" /\ Covered(c)
  BY RunTypes DEF Fetch, RunOK
<1>4. UNCHANGED <<columns, notified, top, gone, canceling, failures, deaths>>
  BY DEF Fetch
<1>5. CampaignMoves
  BY <1>4, CampaignTypes DEF CampaignMoves, columns
<1>6. run[w].batch = {}
  BY <1>3, RunTypes
<1> HIDE DEF page
<1>7. CASE page = {}
  <2>1. run' = [run EXCEPT ![w].pc = "finish"]
    BY <1>7 DEF Fetch, MoveTo, page
  <2>2. RunMoves(w) /\ run'[w].pc = "finish"
    BY <1>6, <2>1, RunTypes DEF RunMoves, RunRecords, Steps
  <2>3. Everybody
    <3>1. Cardinality(page) < BatchSize
      BY <1>7, FS_EmptySet, CampaignAssumption
    <3>2. SUFFICES ASSUME NEW u \in (1..First) \ gone PROVE Served(u)
      BY DEF Everybody
    <3>3. u \in Int /\ c \in Int /\ u \in Audience
      BY <1>2, RunTypes, CampaignTypes, CampaignAssumption
    <3>4. CASE c < u
      BY <1>1, <1>7, <3>1, <3>3, <3>4 DEF Served
    <3>5. CASE u <= c
      BY <1>3, <3>3, <3>5 DEF Covered
    <3> QED BY <3>3, <3>4, <3>5
  <2>4. Everybody'
    BY <1>4, <2>3 DEF Everybody, Served, Excused
  <2>5. RunOK(w)'
    BY <2>2, <2>4 DEF RunOK
  <2> QED BY <1>5, <2>2, <2>5, RunMoveKeeps
<1>8. CASE page # {}
  <2>1. run' = [run EXCEPT ![w].pc = "notify", ![w].batch = page]
    BY <1>8 DEF Fetch, MoveTo, page
  <2>2. run'[w].pc = "notify" /\ run'[w].batch = page /\ run'[w].cursor = c
    BY <2>1, RunTypes DEF RunRecords
  <2>3. page \subseteq 1..top /\ page \in SUBSET Nat
    <3>1. page \subseteq 1..top
      BY <1>1, <1>2
    <3>2. 1..top \subseteq Nat
      OBVIOUS
    <3> QED BY <3>1, <3>2
  <2>4. RunMoves(w)
    BY <1>1, <1>8, <2>1, <2>2, <2>3, RunTypes DEF RunMoves, RunRecords, Steps
  <2>5. Covered(c)' /\ Audience' = Audience /\ \A u : Excused(u)' <=> Excused(u)
    <3>1. run'[w].cursor = run[w].cursor
      BY <2>2
    <3> QED BY <1>3, <1>4, <3>1 DEF Covered, Audience, Served, Excused
  <2>6. RunOK(w)'
    BY <1>1, <1>2, <1>4, <1>8, <2>2, <2>5 DEF RunOK
  <2> QED BY <1>5, <2>4, <2>6, RunMoveKeeps
<1> QED BY <1>7, <1>8

LEMMA NotifyKeeps ==
    ASSUME CampaignInvariant, NEW w \in Runs, Notify(w)
    PROVE  CampaignInvariant'
<1>1. run' = [run EXCEPT ![w].pc = "checkpoint"] /\ run[w].pc = "notify"
  BY DEF Notify, MoveTo
<1>2. RunMoves(w) /\ run'[w] = [run[w] EXCEPT !.pc = "checkpoint"]
  BY <1>1, RunTypes DEF RunMoves, RunRecords, Steps
<1>3. run'[w].pc = "checkpoint" /\ run'[w].batch = run[w].batch /\ run'[w].cursor = run[w].cursor
  BY <1>2, RunTypes DEF RunRecords
<1>4. CampaignMoves /\ notified' = notified \cup run[w].batch
  BY CampaignTypes, RunTypes DEF Notify, CampaignMoves, columns
<1>5. UNCHANGED <<top, gone>>
  BY DEF Notify
<1>6. Audience' = Audience /\ \A u : (Excused(u)' <=> Excused(u)) /\ (Served(u) => Served(u)')
  BY <1>4, <1>5 DEF Audience, Served, Excused
<1>7. RunOK(w)'
  BY <1>1, <1>3, <1>4, <1>5, <1>6, RunTypes DEF RunOK, Covered
<1> QED BY <1>2, <1>4, <1>7, RunMoveKeeps

LEMMA CheckpointKeeps ==
    ASSUME CampaignInvariant, NEW w \in Runs, Checkpoint(w)
    PROVE  CampaignInvariant'
<1> DEFINE page == run[w].batch
           c == run[w].cursor
           m == Max(run[w].batch)
<1>1. run[w].pc = "checkpoint" /\ page \subseteq 1..top /\ page # {} /\ c \in 0..top
  BY RunTypes DEF Checkpoint
<1>2. m \in page /\ m \in 1..top
  <2>1. IsFiniteSet(1..top)
    BY CampaignTypes, FS_Interval
  <2>2. page \in SUBSET Int
    BY <1>1, CampaignTypes
  <2>3. IsFiniteSet(page)
    BY <1>1, <2>1, FS_Subset
  <2> QED BY <1>1, <2>2, <2>3, MaxOfFinite
<1>3. /\ Covered(c) /\ page \subseteq notified
      /\ \A u \in Audience : c < u /\ u <= m => u \in page \/ Excused(u)
      /\ Cardinality(page) < BatchSize =>
           \A u \in (1..First) \ gone : c < u => u \in page \/ Excused(u)
  BY <1>1, RunTypes DEF RunOK
<1>4. Covered(m)
  <2>1. SUFFICES ASSUME NEW u \in Audience, u <= m PROVE Served(u)
    BY DEF Covered
  <2>2. u \in Int /\ c \in Int
    BY <1>1, CampaignTypes DEF Audience
  <2>3. CASE c < u
    BY <1>3, <2>1, <2>3 DEF Served
  <2>4. CASE u <= c
    BY <1>3, <2>4 DEF Covered
  <2> QED BY <2>2, <2>3, <2>4
<1>5. Cardinality(page) < BatchSize => Everybody
  <2>1. SUFFICES ASSUME Cardinality(page) < BatchSize, NEW u \in (1..First) \ gone PROVE Served(u)
    BY DEF Everybody
  <2>2. u \in Int /\ c \in Int /\ u \in Audience
    BY <1>1, CampaignTypes, CampaignAssumption DEF Audience
  <2>3. CASE c < u
    BY <1>3, <2>1, <2>3 DEF Served
  <2>4. CASE u <= c
    BY <1>3, <2>2, <2>4 DEF Covered
  <2> QED BY <2>2, <2>3, <2>4
<1> DEFINE next == IF Cardinality(page) < BatchSize THEN "finish" ELSE "fetch"
<1>6. /\ run' = [run EXCEPT ![w] = [pc |-> next, cursor |-> m, batch |-> {}]]
      /\ UNCHANGED <<status, due, attempts, notified, top, gone, canceling, failures, deaths>>
  BY DEF Checkpoint
<1>7. next \in {"finish", "fetch"} /\ (next = "finish" => Cardinality(page) < BatchSize)
  OBVIOUS
<1> HIDE DEF next
<1>8. run'[w] = [pc |-> next, cursor |-> m, batch |-> {}]
  BY <1>6, RunTypes
<1>9. RunMoves(w)
  BY <1>2, <1>6, <1>7, <1>8, RunTypes, CampaignTypes DEF RunMoves, RunRecords, Steps
<1>10. CampaignMoves
  <2>1. (cursor' = m \/ cursor' = cursor) /\ overdue' \in BOOLEAN
    BY CampaignTypes DEF Checkpoint
  <2> HIDE DEF m
  <2>2. m \in 0..top
    BY <1>2, CampaignTypes
  <2> QED BY <1>4, <1>6, <2>1, <2>2, CampaignTypes DEF CampaignMoves
<1>11. Everybody => Everybody'
  BY <1>6 DEF Everybody, Served, Excused
<1>12. Covered(run[w].cursor)'
  <2>1. PICK k \in 1..top : k = m
    BY <1>2
  <2>2. Covered(k)'
    BY <1>4, <1>6, <2>1 DEF Covered, Served, Excused, Audience
  <2> QED BY <1>8, <2>1, <2>2 DEF Covered
<1>13. RunOK(w)'
  BY <1>5, <1>7, <1>8, <1>11, <1>12 DEF RunOK
<1> QED BY <1>9, <1>10, <1>13, RunMoveKeeps

LEMMA FinishRunKeeps ==
    ASSUME CampaignInvariant, NEW w \in Runs, FinishRun(w)
    PROVE  CampaignInvariant'
<1>1. run' = [run EXCEPT ![w] = Idle] /\ run[w].pc = "finish"
  BY DEF FinishRun
<1>2. RunMoves(w) /\ run'[w].pc = "idle"
  BY <1>1, RunTypes, CampaignTypes DEF RunMoves, RunRecords, Steps, Idle
<1>3. CampaignMoves
  BY <1>1, RunTypes, CampaignTypes DEF FinishRun, CampaignMoves, RunOK
<1>4. RunOK(w)'
  BY <1>2 DEF RunOK
<1> QED BY <1>2, <1>3, <1>4, RunMoveKeeps

LEMMA HandleFailureKeeps ==
    ASSUME CampaignInvariant, NEW w \in Runs, HandleFailure(w)
    PROVE  CampaignInvariant'
<1>1. run' = [run EXCEPT ![w] = Idle]
  BY DEF HandleFailure
<1>2. RunMoves(w) /\ run'[w].pc = "idle"
  BY <1>1, RunTypes, CampaignTypes DEF RunMoves, RunRecords, Steps, Idle
<1>3. CampaignMoves
  BY CampaignTypes DEF HandleFailure, CampaignMoves
<1>4. RunOK(w)'
  BY <1>2 DEF RunOK
<1> QED BY <1>2, <1>3, <1>4, RunMoveKeeps

(* A run that throws has perhaps told its users before, and no more.       *)
LEMMA ThrowKeeps ==
    ASSUME CampaignInvariant, NEW w \in Runs, Throw(w)
    PROVE  CampaignInvariant'
<1> DEFINE rest == IF run[w].pc = "failed" THEN Idle ELSE [Idle EXCEPT !.pc = "failed"]
<1>1. run' = [run EXCEPT ![w] = rest]
  BY DEF Throw
<1>2. rest.pc \in {"idle", "failed"} /\ rest.cursor = 0 /\ rest.batch = {} /\ rest \in RunRecords
  BY DEF Idle, RunRecords, Steps
<1> HIDE DEF rest
<1>3. RunMoves(w) /\ run'[w].pc \in {"idle", "failed"}
  BY <1>1, <1>2, RunTypes, CampaignTypes DEF RunMoves
<1>4. notified \subseteq notified' /\ notified' \subseteq 1..top
  BY RunTypes, CampaignTypes DEF Throw
<1>5. CampaignMoves
  BY <1>4, CampaignTypes, CampaignAssumption DEF Throw, CampaignMoves, columns
<1>6. RunOK(w)'
  BY <1>3 DEF RunOK
<1> QED BY <1>3, <1>5, <1>6, RunMoveKeeps

(* The steps of everybody else: the administrator, the clock and the users. *)
LEMMA OthersKeep ==
    ASSUME CampaignInvariant, UNCHANGED <<run, cursor, attempts, notified>>, Grows,
           top' \in First..Last, gone' \subseteq 1..top', failures' = failures, deaths' = deaths,
           due' \in BOOLEAN, overdue' \in BOOLEAN, canceling' \in BOOLEAN,
           status' = status \/ status' = "CANCELED"
    PROVE  CampaignInvariant'
<1>1. \A w \in Runs : RunOK(w)'
  BY RunStays DEF CampaignInvariant
<1>2. NobodyIsLeftOut'
  BY CampaignTypes, NobodyStaysLeftOut
<1>3. 1..top \subseteq 1..top' /\ 0..top \subseteq 0..top'
  BY CampaignTypes DEF Grows
<1>4. CampaignOK'
  BY <1>3, CampaignTypes DEF CampaignInvariant, CampaignOK
<1> QED BY <1>1, <1>2, <1>4 DEF CampaignInvariant

-------------------------------------------------------------------------------
(* The theorems *)

LEMMA InitCampaign == CampaignInit => CampaignInvariant
<1> SUFFICES ASSUME CampaignInit PROVE CampaignInvariant
  OBVIOUS
<1>1. run \in [Runs -> RunRecords] /\ \A w \in Runs : run[w] = Idle
  BY DEF CampaignInit, Idle, RunRecords, Steps
<1>2. \A w \in Runs : RunOK(w)
  BY <1>1 DEF RunOK, Idle
<1>3. CampaignOK
  <2>1. \A w \in Runs : run[w].pc = "idle" /\ run[w].cursor = 0 /\ run[w].batch = {}
    BY <1>1 DEF Idle
  <2>2. First \in First..Last /\ 0 \in 0..First /\ 0 \in 0..MaxAttempts /\ 0 \in 0..MaxFailures
        /\ 0 \in 0..MaxDeaths
    BY CampaignAssumption
  <2> QED BY <2>1, <2>2 DEF CampaignInit, CampaignOK, Steps
<1>4. NobodyIsLeftOut
  BY CampaignAssumption
     DEF CampaignInit, NobodyIsLeftOut, CheckpointIsDelivered, SentReachedEverybody, Audience
<1> QED BY <1>1, <1>2, <1>3, <1>4 DEF CampaignInvariant, CampaignInit

LEMMA NextCampaign == CampaignInvariant /\ [CampaignNext]_campaignVars => CampaignInvariant'
<1> SUFFICES ASSUME CampaignInvariant, [CampaignNext]_campaignVars PROVE CampaignInvariant'
  OBVIOUS
<1>1. ASSUME NEW w \in Runs, RunStep(w) \/ Throw(w) PROVE CampaignInvariant'
  BY <1>1, FindDueKeeps, ClaimKeeps, LoadKeeps, FetchKeeps, NotifyKeeps, CheckpointKeeps,
     FinishRunKeeps, HandleFailureKeeps, ThrowKeeps DEF RunStep
<1>2. CASE Die
  <2>1. run' \in [Runs -> RunRecords] /\ \A w \in Runs : run'[w] = Idle
    BY <1>2 DEF Die, Idle, RunRecords, Steps
  <2>2. \A w \in Runs : RunOK(w)'
    BY <2>1 DEF RunOK, Idle
  <2>3. Grows
    BY <1>2, CampaignTypes DEF Die, Grows
  <2>4. NobodyIsLeftOut'
    BY <1>2, <2>3, CampaignTypes, NobodyStaysLeftOut DEF Die, columns
  <2>5. deaths' \in 0..MaxDeaths
    BY <1>2, CampaignAssumption DEF Die, CampaignInvariant, CampaignOK
  <2>6. CampaignOK'
    <3>1. \A w \in Runs : run'[w].pc = "idle" /\ run'[w].cursor = 0 /\ run'[w].batch = {}
      BY <2>1 DEF Idle
    <3>2. 0 \in 0..top
      BY CampaignTypes
    <3>3. UNCHANGED <<status, due, overdue, attempts, cursor, notified, top, gone, failures>>
          /\ canceling' \in BOOLEAN
      BY <1>2 DEF Die, columns
    <3> QED BY <2>5, <3>1, <3>2, <3>3, CampaignTypes DEF CampaignOK, Steps
  <2> QED BY <1>2, <2>1, <2>2, <2>4, <2>6 DEF CampaignInvariant, Die, columns
<1>3. CASE CancelRead \/ CancelWrite \/ ComeDue \/ Lapse
  <2>1. UNCHANGED <<run, cursor, attempts, notified, top, gone, failures, deaths>>
        /\ (status' = status \/ status' = "CANCELED")
    BY <1>3 DEF CancelRead, CancelWrite, ComeDue, Lapse, columns
  <2>2. due' \in BOOLEAN /\ overdue' \in BOOLEAN /\ canceling' \in BOOLEAN
    BY <1>3, CampaignTypes DEF CancelRead, CancelWrite, ComeDue, Lapse, columns, CampaignOK
  <2>3. Grows
    BY <2>1, CampaignTypes DEF Grows
  <2> QED BY <2>1, <2>2, <2>3, CampaignTypes, OthersKeep
<1>4. CASE Register
  <2>1. top' = top + 1 /\ top' \in First..Last /\ 1..top \subseteq 1..top'
    BY <1>4, CampaignTypes, CampaignAssumption DEF Register
  <2> QED BY <1>4, <2>1, CampaignTypes, OthersKeep DEF Register, columns, Grows, CampaignOK
<1>5. CASE \E u \in 1..top : Deactivate(u)
  BY <1>5, CampaignTypes, OthersKeep DEF Deactivate, columns, Grows, CampaignOK, Audience
<1>6. CASE UNCHANGED campaignVars
  BY <1>6, CampaignTypes, OthersKeep DEF campaignVars, columns, Grows, CampaignOK
<1> QED BY <1>1, <1>2, <1>3, <1>4, <1>5, <1>6 DEF CampaignNext

(* The invariant of the campaign and its runs.                             *)
THEOREM CampaignIsSound == CampaignSpec => []CampaignInvariant
BY InitCampaign, NextCampaign, PTL DEF CampaignSpec

(* dispatch saves its cursor after notify only: whatever is thrown, dies,  *)
(* or is claimed twice, up to the stored dispatchCursor nobody lacks the   *)
(* notification but users right behind a deactivated cursor.               *)
THEOREM CheckpointIsTrue == CampaignSpec => []CheckpointIsDelivered
<1>1. CampaignInvariant => CheckpointIsDelivered
  BY DEF CampaignInvariant, NobodyIsLeftOut
<1> QED BY <1>1, CampaignIsSound, PTL

(* A campaign becomes SENT only when everybody who was registered when it  *)
(* was made, and still is, was notified, although the last update of       *)
(* dispatch asks for no status and a late run may finish for another.      *)
THEOREM SentIsComplete == CampaignSpec => []SentReachedEverybody
<1>1. CampaignInvariant => SentReachedEverybody
  BY DEF CampaignInvariant, NobodyIsLeftOut
<1> QED BY <1>1, CampaignIsSound, PTL

(* Both, and the ranges: attempts never pass MAX_DISPATCH_ATTEMPTS.        *)
THEOREM CampaignIsKept == CampaignSpec => []CampaignHolds
<1>1. CampaignInvariant => CampaignHolds
  BY DEF CampaignInvariant, CampaignHolds
<1> QED BY <1>1, CampaignIsSound, PTL

-------------------------------------------------------------------------------
(* The images: the inductive invariant                                    *)

(* What everybody is at, and what jobs and conversions still may do.       *)
Standing ==
    /\ plot \in Plots
    /\ at = [x \in Processes |-> at[x]]
    /\ job.state \in {"waiting", "active"} => job.made <= 1
    /\ \A r \in Requests : at[r] = "lease" => seen[r].tries < 3
    /\ \A r \in Requests :
         at[r] \in {"head", "invalidate", "promote", "enqueue", "rollback"} => r.op = "confirm" /\ r \in plot.requests
    /\ at[Sweeper] # "idle" => Sweeper \in plot.active

(* The way of the row: what is claimed is not processed any more, and only *)
(* the daily run ends it.                                                  *)
Claims ==
    /\ media.claimed => media.status # "PROCESSING"
    /\ ~Exists => media.claimed
    /\ at[Sweeper] \in {"collect", "remove", "delete"} => media.claimed
    /\ at[Sweeper] \in {"mark", "unmark"} => media.status = "COMPLETED"
    /\ \A r \in Requests : at[r] = "attach" => media.status \in {"COMPLETED", "GONE"}

(* What refers to the image, and how its marker follows.                   *)
Markers ==
    /\ Referenced => media.status = "COMPLETED" /\ ~media.claimed
    /\ Referenced => media.orphaned # "old"
    /\ media.orphaned = "old" /\ media.status = "COMPLETED" /\ ~media.claimed => ~used
    /\ healed /\ Referenced /\ media.orphaned # "no" => at[Sweeper] = "unmark"
    /\ healed /\ at[Sweeper] = "mark" => ~Referenced

(* What the row shows is in the storage; so is what somebody is about to   *)
(* show, unless it may not be published any more.                          *)
HasMaster(w) ==
    \/ at[w] \in {"preview", "staging", "complete"}
    \/ at[w] \in {"register", "publish", "upload"} /\ ~seen[w].staging

ShownKept ==
    /\ \A a \in {media.preview, media.display} \ {0} :
         ~media.claimed => a \in store.derived /\ attempt[a].status = "PUBLISHED"
    /\ media.status = "COMPLETED" /\ ~media.claimed => store.master

WorksWell(w) ==
    LET a == seen[w].attempt
    IN  /\ HasMaster(w) /\ ~media.claimed => store.master
        /\ at[w] = "preview" => a = 0
        /\ at[w] \in {"staging", "complete"} /\ a # 0 /\ Exists => a \in Recorded
        /\ at[w] = "complete" /\ a # 0 /\ ~media.claimed /\ MayPublish(a) => a \in store.derived

CleansWell ==
    at[Cleaner] = "clean" =>
        /\ seen[Cleaner].attempt # 0
        /\ Exists => attempt[seen[Cleaner].attempt].status = "CLEANING"

ObjectsKept == ShownKept /\ (\A w \in Workers : WorksWell(w)) /\ CleansWell

(* An upload that is on its way has a row that keeps the image.            *)
UploadsKept ==
    /\ store.derived \cap store.flying = {}
    /\ Exists => \A a \in store.derived : a \in Recorded
    /\ Exists => \A a \in store.flying : attempt[a].status \in {"PENDING", "CLEANING"} /\ attempt[a].expiry # "settled"

(* Nobody works on an image any more that the daily run may claim, unless  *)
(* a confirmation took the image back from him.                            *)
Ends ==
    /\ media.orphaned = "old" => Resting
    /\ age = "week" => Resting /\ (media.claimed \/ media.status \in {"COMPLETED", "FAILED"})
    /\ media.status = "UPLOADING" => taken \/ Resting
    /\ media.claimed => Sweeper \in plot.active /\ (taken \/ (Resting /\ store.flying = {}))
    /\ at[Sweeper] = "remove" => taken \/ seen[Sweeper].keys = Recorded
    /\ at[Sweeper] = "delete" \/ ~Exists => taken \/ (~store.master /\ store.derived = {})

MediaInvariant == ImageOK /\ Standing /\ Claims /\ Markers /\ ObjectsKept /\ UploadsKept /\ Ends

USE MediaAssumption, RequestsAssumption DEF Processes, Exists, Referenced

-------------------------------------------------------------------------------
(* What a step leaves alone *)

(* A step of x, and of nobody else. *)
StepOf(x) ==
    /\ plot' = plot /\ age' = age
    /\ at' = [at EXCEPT ![x] = at'[x]]
    /\ seen' = [seen EXCEPT ![x] = seen'[x]] /\ seen'[x] \in Sights

(* The row keeps what it shows, and its status changes only on the way to  *)
(* the worker and back, or to failure; the objects but the staging one     *)
(* stay.                                                                   *)
RowGoesOn ==
    /\ media'.claimed = media.claimed /\ media'.preview = media.preview /\ media'.display = media.display
    /\ media'.status # media.status =>
         media.status \in {"UPLOADING", "PROCESSING"} /\ media'.status \in {"UPLOADING", "PROCESSING", "FAILED"}
    /\ media'.status = "UPLOADING" => media.status = "UPLOADING" \/ taken' \/ Resting
    /\ media'.orphaned = "old" => media.orphaned = "old"

SameObjects ==
    /\ store'.derived = store.derived /\ store'.flying = store.flying
    /\ store'.master # store.master => store'.master /\ (taken \/ ~media.claimed)

(* The history, but for a confirmation that takes the image back.          *)
UseGoesOn == UNCHANGED <<refs, used, healed>> /\ taken' \in BOOLEAN /\ (taken => taken')

(* Faults get fewer. *)
Luck == faults' \in Nat /\ (faults = 0 => faults' = 0)

(* Nothing is known to begin with; that is a sight, too.                   *)
LEMMA NoSightIsSight == NoSight \in Sights
  BY DEF NoSight, Sights, JobStates

LEMMA SightsChange ==
    ASSUME NEW s \in Sights
    PROVE  /\ \A b \in BOOLEAN : [s EXCEPT !.staging = b] \in Sights /\ [s EXCEPT !.others = b] \in Sights
                               /\ [s EXCEPT !.good = b] \in Sights
           /\ \A a \in {0} \cup Attempts : [s EXCEPT !.attempt = a] \in Sights /\ [s EXCEPT !.display = a] \in Sights
           /\ \A n \in 0..3 : [s EXCEPT !.tries = n] \in Sights
           /\ \A n \in 0..2 : [s EXCEPT !.made = n] \in Sights
           /\ \A j \in JobStates : [s EXCEPT !.state = j] \in Sights
           /\ \A k \in SUBSET Attempts : [s EXCEPT !.keys = k] \in Sights
  BY DEF Sights

LEMMA GoIsStep ==
    ASSUME ImageOK, Standing, NEW x \in Processes, NEW place, NEW sight \in Sights, Go(x, place, sight)
    PROVE  StepOf(x) /\ at'[x] = place /\ seen'[x] = sight
  BY DEF ImageOK, Standing, Go, StepOf

LEMMA GotoIsStep ==
    ASSUME ImageOK, Standing, NEW x \in Processes, NEW place, Goto(x, place)
    PROVE  StepOf(x) /\ at'[x] = place /\ seen'[x] = seen[x]
<1>1. seen[x] \in Sights
  BY DEF ImageOK
<1> QED BY <1>1, GoIsStep DEF Goto

LEMMA FinishIsStep ==
    ASSUME ImageOK, Standing, NEW x \in Processes, Finish(x)
    PROVE  StepOf(x) /\ at'[x] \in {"done", "idle"} /\ seen'[x] = NoSight
<1>1. StepOf(x) /\ at'[x] = Rest(x) /\ seen'[x] = NoSight
  BY NoSightIsSight, GoIsStep DEF Finish
<1> QED BY <1>1 DEF Rest

LEMMA FaultsGetFewer ==
    ASSUME ImageOK, OneFault \/ NoFault
    PROVE  Luck
  BY DEF ImageOK, OneFault, NoFault, Luck

(* What the types say of the row, and what is known of the job.            *)
RowFits ==
    /\ media \in MediaRows
    /\ media.status = "PROCESSING" <=> media.started # "none"
    /\ media.orphaned # "no" => media.status \in {"COMPLETED", "GONE"}

JobFits ==
    /\ job \in Jobs /\ (job.owner # Nobody <=> job.state = "active")
    /\ job.state \in {"waiting", "active"} => job.made <= 1

LEMMA TypesStay ==
    ASSUME ImageOK, NEW x \in Processes, StepOf(x), Luck, RowFits', JobFits', store' \in Stores,
           attempt' \in [Attempts -> AttemptRows], used' \in BOOLEAN, healed' \in BOOLEAN, taken' \in BOOLEAN
    PROVE  ImageOK'
  BY DEF ImageOK, StepOf, Luck, RowFits, JobFits

LEMMA OthersStay ==
    ASSUME Standing, ImageOK, NEW x \in Processes, StepOf(x)
    PROVE  \A y \in Processes : y # x => at'[y] = at[y] /\ seen'[y] = seen[y]
  BY DEF Standing, ImageOK, StepOf

(* Places that one comes to with a reason. *)
Confirming == {"head", "invalidate", "promote", "enqueue", "rollback"}
MayCome(x) ==
    /\ x \in Requests /\ at'[x] = "lease" => seen'[x].tries < 3
    /\ x \in Requests /\ at'[x] = "attach" => media'.status \in {"COMPLETED", "GONE"}
    /\ x \in Requests /\ at'[x] \in Confirming => x.op = "confirm" /\ x \in plot.requests
    /\ x = Sweeper /\ at'[x] # "idle" => Sweeper \in plot.active

LEMMA StandingStays ==
    ASSUME Standing, ImageOK, NEW x \in Processes, StepOf(x), JobFits', MayCome(x)
    PROVE  Standing'
<1>1. plot' = plot /\ at' = [y \in Processes |-> at'[y]]
  BY DEF Standing, StepOf
<1>2. \A y \in Processes : y # x => at'[y] = at[y] /\ seen'[y] = seen[y]
  BY OthersStay
<1>3. \A r \in Requests : at'[r] = "lease" => seen'[r].tries < 3
  BY <1>2 DEF Standing, MayCome
<1>4. \A r \in Requests : at'[r] \in Confirming => r.op = "confirm" /\ r \in plot'.requests
  BY <1>1, <1>2 DEF Standing, MayCome, Confirming
<1>5. at'[Sweeper] # "idle" => Sweeper \in plot'.active
  BY <1>1, <1>2 DEF Standing, MayCome
<1> QED BY <1>1, <1>3, <1>4, <1>5 DEF Standing, Confirming, JobFits

LEMMA ClaimsStay ==
    ASSUME Claims, Standing, ImageOK, NEW x \in Processes, x # Sweeper, StepOf(x), MayCome(x), RowGoesOn,
           media'.status = "PROCESSING" => media.status = "PROCESSING" \/ ~media.claimed
    PROVE  Claims'
<1>1. at'[Sweeper] = at[Sweeper]
  BY OthersStay
<1> QED BY <1>1, OthersStay DEF Claims, MayCome, RowGoesOn

LEMMA MarkersStay ==
    ASSUME Markers, Standing, ImageOK, NEW x \in Processes, StepOf(x), x # Sweeper, RowGoesOn,
           media'.orphaned = media.orphaned, UseGoesOn
    PROVE  Markers'
  BY OthersStay DEF Markers, UseGoesOn, RowGoesOn

LEMMA ShownStays ==
    ASSUME ShownKept, RowGoesOn, SameObjects, UNCHANGED attempt
    PROVE  ShownKept'
  BY DEF ShownKept, RowGoesOn, SameObjects

LEMMA WorkStays ==
    ASSUME NEW w, WorksWell(w), at'[w] = at[w], seen'[w] = seen[w], RowGoesOn, SameObjects, UNCHANGED attempt
    PROVE  WorksWell(w)'
  BY DEF RowGoesOn, SameObjects, WorksWell, HasMaster, MayPublish, Recorded

(* A worker that comes to a place where nothing is expected of it.         *)
LEMMA NothingExpected ==
    ASSUME NEW w, at'[w] \notin {"register", "publish", "upload", "preview", "staging", "complete"}
    PROVE  WorksWell(w)'
  BY DEF WorksWell, HasMaster

(* A worker that moves on with the source it has. *)
LEMMA SourceStays ==
    ASSUME NEW w, WorksWell(w), at[w] \in {"register", "publish"}, at'[w] \in {"register", "publish", "upload"},
           seen'[w].staging = seen[w].staging, media'.claimed = media.claimed, store'.master = store.master
    PROVE  WorksWell(w)'
  BY DEF WorksWell, HasMaster

LEMMA ObjectsStay ==
    ASSUME ObjectsKept, Standing, ImageOK, NEW x \in Processes, StepOf(x), x \in Workers => WorksWell(x)', x # Cleaner,
           RowGoesOn, SameObjects, UNCHANGED attempt
    PROVE  ObjectsKept'
<1>1. ShownKept'
  BY ShownStays DEF ObjectsKept
<1>2. ASSUME NEW w \in Workers PROVE WorksWell(w)'
  <2>1. CASE w = x
    BY <2>1
  <2>2. CASE w # x
    <3>1. at'[w] = at[w] /\ seen'[w] = seen[w] /\ WorksWell(w)
      BY <2>2, OthersStay DEF ObjectsKept
    <3> QED BY <3>1, WorkStays
  <2> QED BY <2>1, <2>2
<1>3. CleansWell'
  BY OthersStay DEF ObjectsKept, CleansWell, RowGoesOn
<1> QED BY <1>1, <1>2, <1>3 DEF ObjectsKept

LEMMA UploadsStay ==
    ASSUME UploadsKept, RowGoesOn, SameObjects, UNCHANGED attempt
    PROVE  UploadsKept'
  BY DEF UploadsKept, Recorded, RowGoesOn, SameObjects

LEMMA RestStays ==
    ASSUME Standing, ImageOK, NEW x \in Processes, StepOf(x), Resting,
           x \in Workers /\ at'[x] \in WorkPlaces => at[x] \in WorkPlaces
    PROVE  Resting'
  BY OthersStay DEF Resting

(* Somebody begins to work only on an image that is in processing.         *)
MayWork(x) == x \in Workers /\ at'[x] \in WorkPlaces => at[x] \in WorkPlaces \/ (Processable /\ media' = media)

LEMMA EndsStay ==
    ASSUME Ends, Claims, Standing, ImageOK, NEW x \in Processes, StepOf(x), x # Sweeper, Luck, MayWork(x),
           RowGoesOn, SameObjects, UNCHANGED attempt, taken => taken'
    PROVE  Ends'
<1>1. Resting => Resting' \/ (Processable /\ media' = media)
  BY RestStays DEF MayWork
<1>2. plot' = plot /\ age' = age /\ at'[Sweeper] = at[Sweeper] /\ seen'[Sweeper] = seen[Sweeper]
  BY OthersStay DEF StepOf
<1>3. Processable => media.orphaned = "no"
  BY DEF Processable, ImageOK
<1>4. media'.orphaned = "old" => Resting'
  BY <1>1, <1>3 DEF Ends, RowGoesOn
<1>5. age' = "week" => Resting' /\ (media'.claimed \/ media'.status \in {"COMPLETED", "FAILED"})
  BY <1>1, <1>2 DEF Ends, RowGoesOn, Processable
<1>6. media'.status = "UPLOADING" => taken' \/ Resting'
  BY <1>1 DEF Ends, RowGoesOn, Processable
<1>7. media'.claimed => Sweeper \in plot'.active /\ (taken' \/ (Resting' /\ store'.flying = {}))
  BY <1>1, <1>2 DEF Ends, RowGoesOn, SameObjects, Processable
<1>8. at'[Sweeper] = "remove" => taken' \/ seen'[Sweeper].keys = Recorded'
  BY <1>2 DEF Ends, Recorded
<1>9. at'[Sweeper] = "delete" \/ ~Exists' => taken' \/ (~store'.master /\ store'.derived = {})
  BY <1>2 DEF Ends, Claims, RowGoesOn, SameObjects
<1> QED BY <1>4, <1>5, <1>6, <1>7, <1>8, <1>9 DEF Ends

-------------------------------------------------------------------------------
(* Steps that bring the row on its way, or only look *)

LEMMA ComingOnKeeps ==
    ASSUME MediaInvariant, NEW x \in Requests \cup Workers \cup {Recovery}, StepOf(x), Luck, MayCome(x),
           RowGoesOn, SameObjects, RowFits', JobFits', store' \in Stores, UNCHANGED attempt, UseGoesOn,
           media'.orphaned = media.orphaned,
           media'.status = "PROCESSING" => media.status = "PROCESSING" \/ ~media.claimed,
           x \in Workers => WorksWell(x)', MayWork(x)
    PROVE  MediaInvariant'
<1>1. x \in Processes /\ x # Sweeper /\ x # Cleaner
  OBVIOUS
<1>2. ImageOK'
  <2>1. attempt' \in [Attempts -> AttemptRows] /\ used' \in BOOLEAN /\ healed' \in BOOLEAN /\ taken' \in BOOLEAN
    BY DEF MediaInvariant, ImageOK, UseGoesOn
  <2> QED BY <1>1, <2>1, TypesStay DEF MediaInvariant
<1>3. Standing' /\ Claims' /\ Markers'
  BY <1>1, StandingStays, ClaimsStay, MarkersStay DEF MediaInvariant
<1>4. ObjectsKept' /\ UploadsKept'
  BY <1>1, ObjectsStay, UploadsStay DEF MediaInvariant
<1>5. Ends'
  BY <1>1, EndsStay DEF MediaInvariant, UseGoesOn
<1> QED BY <1>2, <1>3, <1>4, <1>5 DEF MediaInvariant

LEMMA GoingOnKeeps ==
    ASSUME MediaInvariant, NEW x \in Requests \cup Workers \cup {Recovery}, StepOf(x), Luck, MayCome(x),
           RowGoesOn, SameObjects, RowFits', JobFits', store' \in Stores, UNCHANGED <<attempt, useVars>>,
           media'.orphaned = media.orphaned,
           media'.status = "PROCESSING" => media.status = "PROCESSING" \/ ~media.claimed,
           x \in Workers => WorksWell(x)', MayWork(x)
    PROVE  MediaInvariant'
<1>1. UNCHANGED attempt /\ UseGoesOn
  BY DEF useVars, UseGoesOn, MediaInvariant, ImageOK
<1> QED BY <1>1, ComingOnKeeps

LEMMA LookingKeeps ==
    ASSUME MediaInvariant, NEW x \in Requests \cup Workers \cup {Recovery}, StepOf(x), Luck, MayCome(x),
           UNCHANGED <<dataVars, useVars>>,
           x \in Workers => WorksWell(x)', MayWork(x)
    PROVE  MediaInvariant'
<1>1. RowGoesOn /\ SameObjects /\ media' = media
  BY DEF dataVars, RowGoesOn, SameObjects
<1>2. RowFits' /\ JobFits' /\ store' \in Stores
  BY DEF MediaInvariant, ImageOK, Standing, RowFits, JobFits, dataVars
<1> QED BY <1>1, <1>2, GoingOnKeeps DEF dataVars

-------------------------------------------------------------------------------
(* Confirmations and the recovery *)

LEMMA headKeeps ==
    ASSUME MediaInvariant, NEW r \in Requests, head(r)
    PROVE  MediaInvariant'
<1>1. StepOf(r) /\ at'[r] \in {"promote", "invalidate", "done", "idle"}
  <2>1. store.staging \in {"none", "good", "bad"}
    BY DEF MediaInvariant, ImageOK, Stores
  <2> QED BY <2>1, GotoIsStep, FinishIsStep DEF head, MediaInvariant
<1>2. MayCome(r)
  BY <1>1 DEF head, MediaInvariant, Standing, Confirming, MayCome
<1> QED BY <1>1, <1>2, FaultsGetFewer, LookingKeeps DEF MayWork, head, MediaInvariant

LEMMA readConfirmKeeps ==
    ASSUME MediaInvariant, NEW r \in Requests, readConfirm(r)
    PROVE  MediaInvariant'
<1>1. [NoSight EXCEPT !.staging = media.staging] \in Sights
  BY NoSightIsSight, SightsChange DEF MediaInvariant, ImageOK, MediaRows
<1>2. StepOf(r) /\ at'[r] \in {"head", "done", "idle"}
  BY <1>1, GoIsStep, FinishIsStep DEF readConfirm, MediaInvariant
<1>3. MayCome(r)
  BY <1>2 DEF readConfirm, Arrives, Confirming, MayCome
<1> QED BY <1>2, <1>3, FaultsGetFewer, LookingKeeps DEF MayWork, readConfirm, MediaInvariant

LEMMA putKeeps ==
    ASSUME MediaInvariant, NEW r \in Requests, put(r)
    PROVE  MediaInvariant'
<1>0. r.value \in {"good", "bad"}
  BY StoriesAssumption DEF put, Arrives, MediaInvariant, Standing, BeginsWell
<1>1. StepOf(r) /\ at'[r] \in {"done", "idle"}
  BY FinishIsStep DEF put, MediaInvariant
<1>2. MayCome(r) /\ RowGoesOn /\ SameObjects
  BY <1>1 DEF put, Confirming, MayCome, RowGoesOn, SameObjects, MediaInvariant, ImageOK, Stores
<1>3. RowFits' /\ JobFits' /\ store' \in Stores
  BY <1>0 DEF put, MediaInvariant, ImageOK, Standing, RowFits, JobFits, Stores
<1> QED BY <1>1, <1>2, <1>3, FaultsGetFewer, GoingOnKeeps DEF MayWork, put, MediaInvariant

LEMMA invalidateKeeps ==
    ASSUME MediaInvariant, NEW r \in Requests, invalidate(r)
    PROVE  MediaInvariant'
<1>1. StepOf(r) /\ at'[r] \in {"drop", "done"}
  BY GotoIsStep DEF invalidate, MediaInvariant
<1>2. MayCome(r) /\ RowGoesOn /\ SameObjects
  BY <1>1 DEF invalidate, Confirming, MayCome, RowGoesOn, SameObjects, MediaInvariant, ImageOK, MediaRows
<1>3. RowFits' /\ JobFits' /\ store' \in Stores
  BY DEF invalidate, MediaInvariant, ImageOK, Standing, RowFits, JobFits, MediaRows
<1>4. media'.orphaned = media.orphaned /\ (media'.status = "PROCESSING" => media.status = "PROCESSING")
  BY DEF invalidate, MediaInvariant, ImageOK, MediaRows
<1> QED BY <1>1, <1>2, <1>3, <1>4, FaultsGetFewer, GoingOnKeeps DEF MayWork, invalidate, MediaInvariant

LEMMA promoteKeeps ==
    ASSUME MediaInvariant, NEW r \in Requests, promote(r)
    PROVE  MediaInvariant'
<1>1. StepOf(r) /\ at'[r] \in {"enqueue", "done", "idle"}
  BY GotoIsStep, FinishIsStep DEF promote, MediaInvariant
<1>2. MayCome(r) /\ SameObjects
  BY <1>1 DEF promote, Confirming, MayCome, SameObjects, MediaInvariant, Standing
<1>3. RowGoesOn /\ RowFits' /\ media'.orphaned = media.orphaned
      /\ (media'.status = "PROCESSING" => media.status = "PROCESSING" \/ ~media.claimed)
  <2>1. CASE UNCHANGED media
    BY <2>1 DEF RowGoesOn, RowFits, MediaInvariant, ImageOK
  <2>2. CASE media.status = "UPLOADING" /\ ~media.claimed
    <3>1. media' = [media EXCEPT !.status = "PROCESSING", !.started = "fresh"]
      BY <2>2 DEF promote
    <3>2. media \in MediaRows
      BY DEF MediaInvariant, ImageOK
    <3>3. media' \in MediaRows /\ media'.status = "PROCESSING" /\ media'.started = "fresh"
      BY <3>1, <3>2 DEF MediaRows
    <3>4. media'.claimed = media.claimed /\ media'.orphaned = media.orphaned
          /\ media'.preview = media.preview /\ media'.display = media.display
      BY <3>1, <3>2 DEF MediaRows
    <3> QED BY <2>2, <3>3, <3>4 DEF RowGoesOn, RowFits, MediaInvariant, ImageOK
  <2> QED BY <2>1, <2>2 DEF promote
<1>4. JobFits' /\ store' \in Stores
  BY DEF promote, MediaInvariant, ImageOK, Standing, JobFits
<1> QED BY <1>1, <1>2, <1>3, <1>4, FaultsGetFewer, GoingOnKeeps DEF MayWork, promote, MediaInvariant

LEMMA EnqueuedFits ==
    ASSUME JobFits
    PROVE  Enqueued \in Jobs /\ (Enqueued.owner # Nobody <=> Enqueued.state = "active")
           /\ (Enqueued.state \in {"waiting", "active"} => Enqueued.made <= 1)
  BY DEF JobFits, Enqueued, NewJob, Jobs, JobStates

LEMMA enqueueKeeps ==
    ASSUME MediaInvariant, NEW r \in Requests, enqueueProcessing(r)
    PROVE  MediaInvariant'
<1>1. StepOf(r) /\ at'[r] \in {"rollback", "done", "idle"}
  BY GotoIsStep, FinishIsStep DEF enqueueProcessing, MediaInvariant
<1>3. r.op = "confirm" /\ r \in plot.requests
  BY DEF enqueueProcessing, MediaInvariant, Standing
<1>4. MayCome(r)
  BY <1>1, <1>3 DEF MayCome
<1>5. RowGoesOn /\ SameObjects
  BY DEF enqueueProcessing, RowGoesOn, SameObjects
<1>6. JobFits'
  <2>1. JobFits
    BY DEF MediaInvariant, ImageOK, Standing, JobFits
  <2> QED BY <2>1, EnqueuedFits DEF enqueueProcessing, JobFits
<1>7. RowFits' /\ store' \in Stores
  BY DEF enqueueProcessing, MediaInvariant, ImageOK, RowFits
<1> QED BY <1>1, <1>4, <1>5, <1>6, <1>7, FaultsGetFewer, GoingOnKeeps DEF MayWork, enqueueProcessing, MediaInvariant

LEMMA removeObjectKeeps ==
    ASSUME MediaInvariant, NEW x \in Requests \cup Workers \cup {Recovery},
           NEW next \in {"done", "idle", "succeeded", "failed"}, removeObject(x, next)
    PROVE  MediaInvariant'
<1>1. StepOf(x) /\ at'[x] \in {"forget", "done", "idle", "succeeded", "failed"}
  BY GotoIsStep DEF removeObject, MediaInvariant
<1>2. MayCome(x) /\ RowGoesOn /\ SameObjects
  BY <1>1 DEF removeObject, Confirming, MayCome, RowGoesOn, SameObjects, MediaInvariant, ImageOK, Stores
<1>3. RowFits' /\ JobFits' /\ store' \in Stores
  BY DEF removeObject, MediaInvariant, ImageOK, Standing, RowFits, JobFits, Stores
<1>5. WorksWell(x)' /\ MayWork(x)
  BY <1>1, NothingExpected DEF MayWork, WorkPlaces
<1> QED BY <1>1, <1>5, <1>2, <1>3, FaultsGetFewer, GoingOnKeeps DEF MayWork, removeObject, MediaInvariant

LEMMA forgetKeyKeeps ==
    ASSUME MediaInvariant, NEW x \in Requests \cup Workers \cup {Recovery},
           NEW next \in {"done", "idle", "succeeded", "failed"}, forgetKey(x, next)
    PROVE  MediaInvariant'
<1>1. StepOf(x) /\ at'[x] \in {"done", "idle", "succeeded", "failed"}
  BY GotoIsStep DEF forgetKey, MediaInvariant
<1>2. MayCome(x) /\ RowGoesOn /\ SameObjects
  BY <1>1 DEF forgetKey, Confirming, MayCome, RowGoesOn, SameObjects, MediaInvariant, ImageOK, MediaRows
<1>3. RowFits' /\ JobFits' /\ store' \in Stores
  BY DEF forgetKey, MediaInvariant, ImageOK, Standing, RowFits, JobFits, MediaRows
<1>4. media'.orphaned = media.orphaned /\ media'.status = media.status
  BY DEF forgetKey, MediaInvariant, ImageOK, MediaRows
<1>5. WorksWell(x)' /\ MayWork(x)
  BY <1>1, NothingExpected DEF MayWork, WorkPlaces
<1> QED BY <1>1, <1>5, <1>2, <1>3, <1>4, FaultsGetFewer, GoingOnKeeps DEF MayWork, forgetKey, MediaInvariant

LEMMA FailingGoesOn ==
    ASSUME MediaInvariant, NEW x, NEW next, markFailed(x, next)
    PROVE  RowGoesOn /\ RowFits' /\ media'.orphaned = media.orphaned
           /\ (media'.status = "PROCESSING" => media.status = "PROCESSING")
<1>1. CASE UNCHANGED media
  BY <1>1 DEF RowGoesOn, RowFits, MediaInvariant, ImageOK
<1>2. CASE Processable
  <2>1. media' = [media EXCEPT !.status = "FAILED", !.started = "none"]
    BY <1>2 DEF markFailed
  <2>2. media.orphaned = "no"
    BY <1>2 DEF Processable, MediaInvariant, ImageOK
  <2>3. media \in MediaRows
    BY DEF MediaInvariant, ImageOK
  <2>4. media' \in MediaRows /\ media'.status = "FAILED" /\ media'.started = "none"
    BY <2>1, <2>3 DEF MediaRows
  <2>5. media'.claimed = media.claimed /\ media'.orphaned = media.orphaned
        /\ media'.preview = media.preview /\ media'.display = media.display
    BY <2>1, <2>3 DEF MediaRows
  <2> QED BY <1>2, <2>2, <2>4, <2>5 DEF Processable, RowGoesOn, RowFits
<1> QED BY <1>1, <1>2 DEF markFailed

LEMMA markFailedKeeps ==
    ASSUME MediaInvariant, NEW x \in Workers \cup {Recovery}, NEW next \in {"idle", "failed"}, markFailed(x, next)
    PROVE  MediaInvariant'
<1>1. StepOf(x) /\ at'[x] \in {"drop", "idle", "failed"}
  BY GotoIsStep DEF markFailed, MediaInvariant
<1>2. MayCome(x) /\ SameObjects
  BY DEF markFailed, MayCome, SameObjects
<1>3. RowGoesOn /\ RowFits' /\ media'.orphaned = media.orphaned
      /\ (media'.status = "PROCESSING" => media.status = "PROCESSING")
  BY FailingGoesOn
<1>4. JobFits' /\ store' \in Stores
  BY DEF markFailed, MediaInvariant, ImageOK, Standing, JobFits
<1>5. WorksWell(x)' /\ MayWork(x)
  BY <1>1, NothingExpected DEF MayWork, WorkPlaces
<1> QED BY <1>1, <1>2, <1>3, <1>4, <1>5, FaultsGetFewer, GoingOnKeeps DEF markFailed, MediaInvariant

LEMMA RecoveryLooksKeeps ==
    ASSUME MediaInvariant, findStale \/ reconcileOne
    PROVE  MediaInvariant'
<1>1. StepOf(Recovery)
  <2>1. [NoSight EXCEPT !.state = job.state] \in Sights
    BY NoSightIsSight, SightsChange DEF MediaInvariant, ImageOK, Jobs
  <2> QED BY <2>1, GotoIsStep, GoIsStep DEF findStale, reconcileOne, MediaInvariant
<1>2. MayCome(Recovery)
  BY DEF MayCome
<1> QED BY <1>1, <1>2, FaultsGetFewer, LookingKeeps DEF MayWork, findStale, reconcileOne, MediaInvariant

LEMMA requeueKeeps ==
    ASSUME MediaInvariant, requeue
    PROVE  MediaInvariant'
<1>1. StepOf(Recovery)
  BY GotoIsStep, FinishIsStep DEF requeue, MediaInvariant
<1>2. MayCome(Recovery) /\ RowGoesOn /\ SameObjects
  BY DEF requeue, MayCome, RowGoesOn, SameObjects
<1>3. JobFits'
  <2>1. JobFits
    BY DEF MediaInvariant, ImageOK, Standing, JobFits
  <2> QED BY <2>1, EnqueuedFits DEF requeue, JobFits, NewJob, Jobs, JobStates
<1>4. RowFits' /\ store' \in Stores
  BY DEF requeue, MediaInvariant, ImageOK, RowFits
<1> QED BY <1>1, <1>2, <1>3, <1>4, FaultsGetFewer, GoingOnKeeps DEF MayWork, requeue, MediaInvariant

LEMMA stampKeeps ==
    ASSUME MediaInvariant, stamp
    PROVE  MediaInvariant'
<1>1. StepOf(Recovery)
  BY FinishIsStep DEF stamp, MediaInvariant
<1>2. MayCome(Recovery) /\ RowGoesOn /\ SameObjects
  BY DEF stamp, MayCome, RowGoesOn, SameObjects, MediaInvariant, ImageOK, MediaRows
<1>3. RowFits' /\ JobFits' /\ store' \in Stores
  BY DEF stamp, MediaInvariant, ImageOK, Standing, RowFits, JobFits, MediaRows
<1>4. media'.orphaned = media.orphaned /\ media'.status = media.status
  BY DEF stamp, MediaInvariant, ImageOK, MediaRows
<1> QED BY <1>1, <1>2, <1>3, <1>4, FaultsGetFewer, GoingOnKeeps DEF MayWork, stamp, MediaInvariant

(* A worker may have the image that is taken back; the history knows.      *)
LEMMA rollbackKeeps ==
    ASSUME MediaInvariant, NEW r \in Requests, rollback(r)
    PROVE  MediaInvariant'
<1>1. StepOf(r) /\ at'[r] \in {"done", "idle"}
  BY FinishIsStep DEF rollback, MediaInvariant
<1>2. MayCome(r) /\ SameObjects
  BY <1>1 DEF rollback, Confirming, MayCome, SameObjects
<1>3. RowGoesOn /\ RowFits' /\ media'.orphaned = media.orphaned
      /\ (media'.status = "PROCESSING" => media.status = "PROCESSING")
  <2>1. CASE UNCHANGED media
    BY <2>1 DEF RowGoesOn, RowFits, MediaInvariant, ImageOK
  <2>2. CASE media.status = "PROCESSING"
    <3>1. media' = [media EXCEPT !.status = "UPLOADING", !.started = "none"]
      BY <2>2 DEF rollback
    <3>2. media \in MediaRows /\ media.orphaned = "no"
      BY <2>2 DEF MediaInvariant, ImageOK
    <3>3. media' \in MediaRows /\ media'.status = "UPLOADING" /\ media'.started = "none"
      BY <3>1, <3>2 DEF MediaRows
    <3>4. media'.claimed = media.claimed /\ media'.orphaned = media.orphaned
          /\ media'.preview = media.preview /\ media'.display = media.display
      BY <3>1, <3>2 DEF MediaRows
    <3>5. taken' \/ Resting
      BY <2>2 DEF rollback
    <3> QED BY <2>2, <3>2, <3>3, <3>4, <3>5 DEF RowGoesOn, RowFits
  <2> QED BY <2>1, <2>2 DEF rollback
<1>4. JobFits' /\ store' \in Stores
  BY DEF rollback, MediaInvariant, ImageOK, Standing, JobFits
<1>5. UNCHANGED attempt /\ UseGoesOn
  BY DEF rollback, UseGoesOn, MediaInvariant, ImageOK
<1>6. Luck /\ MayWork(r) /\ r \notin Workers
  BY FaultsGetFewer DEF MayWork, rollback, MediaInvariant
<1> QED BY <1>1, <1>2, <1>3, <1>4, <1>5, <1>6, ComingOnKeeps

-------------------------------------------------------------------------------
(* References *)

LEMMA readAttachKeeps ==
    ASSUME MediaInvariant, NEW r \in Requests, readAttach(r)
    PROVE  MediaInvariant'
<1>1. StepOf(r) /\ (at'[r] \in {"done", "idle"} \/ (at'[r] = "attach" /\ media.status = "COMPLETED"))
  BY GotoIsStep, FinishIsStep DEF readAttach, MediaInvariant
<1>2. MayCome(r)
  BY <1>1 DEF readAttach, Confirming, MayCome, dataVars
<1> QED BY <1>1, <1>2, FaultsGetFewer, LookingKeeps DEF MayWork, readAttach, MediaInvariant

LEMMA readDetachKeeps ==
    ASSUME MediaInvariant, NEW r \in Requests, readDetach(r)
    PROVE  MediaInvariant'
<1>1. [NoSight EXCEPT !.others = (refs # {r.by})] \in Sights
  BY NoSightIsSight, SightsChange
<1>2. StepOf(r) /\ at'[r] \in {"detach", "done", "idle"}
  BY <1>1, GoIsStep, FinishIsStep DEF readDetach, MediaInvariant
<1> QED BY <1>2, FaultsGetFewer, LookingKeeps DEF MayWork, readDetach, MediaInvariant, Confirming, MayCome

(* A change of the references sets the marker, which is not old then.      *)
LEMMA ReferKeeps ==
    ASSUME MediaInvariant, NEW r \in Requests, StepOf(r), at'[r] \in {"done", "idle"}, NoFault,
           NEW to, NEW marker \in {"no", "recent"}, Refer(to, marker), UNCHANGED <<attempt, store, job>>,
           to # {} => media.status = "COMPLETED" /\ ~media.claimed
    PROVE  MediaInvariant'
<1> USE DEF MediaInvariant
<1>1. RowFits' /\ RowGoesOn /\ media'.status = media.status
      /\ (media.status = "COMPLETED" => media'.orphaned = marker)
  BY DEF Refer, RowFits, RowGoesOn, ImageOK, MediaRows
<1>2. SameObjects /\ JobFits' /\ store' \in Stores /\ attempt' \in [Attempts -> AttemptRows]
      /\ used' = TRUE /\ healed' = FALSE /\ refs' = to /\ taken' = taken /\ taken \in BOOLEAN
  BY DEF SameObjects, JobFits, ImageOK, Standing, Refer
<1>3. MayCome(r) /\ MayWork(r) /\ Luck
  BY FaultsGetFewer DEF MayCome, MayWork, Confirming
<1>4. ImageOK' /\ Standing' /\ Claims'
  BY <1>1, <1>2, <1>3, TypesStay, StandingStays, ClaimsStay
<1>5. Markers'
  BY <1>1, <1>2 DEF Markers, RowGoesOn
<1>6. ObjectsKept' /\ UploadsKept' /\ Ends'
  BY <1>1, <1>2, <1>3, ObjectsStay, UploadsStay, EndsStay
<1> QED BY <1>4, <1>5, <1>6

LEMMA ReferencesKeep ==
    ASSUME MediaInvariant, NEW r \in Requests, attach(r) \/ detach(r) \/ cascade(r)
    PROVE  MediaInvariant'
<1>1. StepOf(r) /\ at'[r] \in {"done", "idle"} /\ NoFault
  BY FinishIsStep DEF attach, detach, cascade, MediaInvariant
<1>2. CASE attach(r)
  <2>1. CASE Exists /\ ~media.claimed
    <3>1. media.status = "COMPLETED"
      BY <1>2, <2>1 DEF attach, MediaInvariant, Claims
    <3> QED BY <1>1, <1>2, <2>1, <3>1, ReferKeeps DEF attach
  <2>2. CASE ~(Exists /\ ~media.claimed)
    <3>1. UNCHANGED <<dataVars, useVars>>
      BY <1>2, <2>2 DEF attach, dataVars
    <3> QED BY <1>1, <3>1, FaultsGetFewer, LookingKeeps DEF MayWork, MayCome, Confirming, MediaInvariant
  <2> QED BY <2>1, <2>2
<1>3. CASE detach(r)
  <2>1. refs \ {r.by} # {} => media.status = "COMPLETED" /\ ~media.claimed
    BY DEF MediaInvariant, Markers
  <2> DEFINE marker == IF seen[r].others THEN "no" ELSE "recent"
  <2>2. marker \in {"no", "recent"} /\ Refer(refs \ {r.by}, marker)
    BY <1>3 DEF detach
  <2> QED BY <1>1, <1>3, <2>1, <2>2, ReferKeeps DEF detach
<1>4. CASE cascade(r)
  <2>1. refs # {} /\ media.status = "COMPLETED" /\ ~media.claimed /\ media.orphaned \in {"no", "recent"}
    BY <1>4 DEF cascade, MediaInvariant, Markers, ImageOK, MediaRows
  <2> QED BY <1>1, <1>4, <2>1, ReferKeeps DEF cascade
<1> QED BY <1>2, <1>3, <1>4

-------------------------------------------------------------------------------
(* Attempts *)

LEMMA StartingKeeps ==
    ASSUME MediaInvariant, NEW x \in Requests \cup Workers, NEW a \in FreeAttempts, StartAttempt(a), StepOf(x),
           seen'[x] = [seen[x] EXCEPT !.attempt = a], Exists, taken \/ ~media.claimed, NoFault,
           UNCHANGED <<media, job, useVars>>,
           at'[x] \in {"publish", "staging"},
           x \in Workers => at[x] = (IF at'[x] = "publish" THEN "register" ELSE "preview")
    PROVE  MediaInvariant'
<1> USE DEF MediaInvariant
<1>1. x \in Processes /\ x # Sweeper /\ x # Cleaner /\ a \in Attempts /\ a # 0
  BY DEF FreeAttempts
<1>2. /\ attempt' = [attempt EXCEPT ![a] = attempt'[a]]
      /\ attempt'[a].status = "PENDING" /\ attempt'[a].expiry = "live" /\ attempt'[a] \in AttemptRows
  BY <1>1 DEF StartAttempt, NoAttempt, AttemptRows, ImageOK
<1>3. attempt[a].status = "none" /\ a \notin store.derived /\ a \notin store.flying
  BY DEF FreeAttempts
<1>4. /\ store' \in Stores /\ store'.master = store.master
      /\ store'.derived = store.derived /\ store'.flying = store.flying \cup {a}
  BY <1>1 DEF StartAttempt, ImageOK, Stores
<1>5. \A b \in Attempts : b # a => attempt'[b] = attempt[b]
  BY <1>2 DEF ImageOK
<1>6. MayCome(x) /\ Luck /\ RowGoesOn /\ RowFits' /\ JobFits' /\ media' = media
  BY <1>1, FaultsGetFewer DEF MayCome, Confirming, RowGoesOn, RowFits, JobFits, ImageOK, Standing
<1>7. attempt' \in [Attempts -> AttemptRows] /\ used' \in BOOLEAN /\ healed' \in BOOLEAN /\ taken' \in BOOLEAN
  BY <1>2 DEF ImageOK, useVars
<1>8. ImageOK' /\ Standing' /\ Claims' /\ Markers'
  <2>1. UseGoesOn
    BY DEF UseGoesOn, useVars, ImageOK
  <2> QED BY <1>1, <1>4, <1>6, <1>7, <2>1, TypesStay, StandingStays, ClaimsStay, MarkersStay
<1>9. ShownKept'
  BY <1>3, <1>4, <1>5, <1>6 DEF ObjectsKept, ShownKept, ImageOK, MediaRows
<1>10. \A w \in Workers : WorksWell(w)'
  <2> SUFFICES ASSUME NEW w \in Workers PROVE WorksWell(w)'
    OBVIOUS
  <2>0. WorksWell(w) /\ w \in Processes /\ seen[w] \in Sights /\ seen[w].attempt \in {0} \cup Attempts
    BY DEF ObjectsKept, ImageOK, Sights
  <2>1. CASE w # x
    <3>1. at'[w] = at[w] /\ seen'[w] = seen[w]
      BY <1>1, <2>1, OthersStay
    <3>2. at[w] \in {"staging", "complete"} /\ seen[w].attempt # 0 =>
            seen[w].attempt \in Recorded /\ seen[w].attempt # a
      BY <1>3, <2>0 DEF WorksWell, Recorded
    <3> QED BY <1>4, <1>5, <1>6, <2>0, <3>1, <3>2 DEF WorksWell, HasMaster, Recorded, MayPublish
  <2>2. CASE w = x /\ at'[x] = "publish"
    <3>1. at[w] = "register" /\ seen'[w] = [seen[w] EXCEPT !.attempt = a]
      BY <2>2
    <3>2. seen'[w].staging = seen[w].staging
      BY <2>0, <3>1 DEF Sights
    <3> QED BY <1>4, <1>6, <2>0, <2>2, <3>1, <3>2, SourceStays
  <2>3. CASE w = x /\ at'[x] = "staging"
    <3>1. at[w] = "preview" /\ seen'[w] = [seen[w] EXCEPT !.attempt = a]
      BY <2>3
    <3>2. seen'[w].attempt = a
      BY <2>0, <3>1 DEF Sights
    <3>3. a \in Recorded'
      BY <1>1, <1>2 DEF Recorded
    <3> QED BY <1>4, <1>6, <2>0, <2>3, <3>1, <3>2, <3>3 DEF WorksWell, HasMaster
  <2> QED BY <2>1, <2>2, <2>3
<1>11. CleansWell'
  <2>1. at'[Cleaner] = at[Cleaner] /\ seen'[Cleaner] = seen[Cleaner] /\ seen[Cleaner].attempt \in {0} \cup Attempts
    BY <1>1, OthersStay DEF ImageOK, Sights
  <2> QED BY <1>3, <1>5, <1>6, <2>1 DEF ObjectsKept, CleansWell
<1>12. UploadsKept'
  BY <1>2, <1>3, <1>4, <1>5, <1>6 DEF UploadsKept, Recorded, ImageOK, Stores
<1>13. Ends'
  <2>1. Resting => Resting'
    BY <1>1, RestStays DEF WorkPlaces
  <2>2. plot' = plot /\ age' = age /\ at'[Sweeper] = at[Sweeper]
        /\ (at[Sweeper] \in {"remove", "delete"} => taken) /\ taken' = taken
    BY <1>1, OthersStay DEF StepOf, Claims, useVars
  <2> QED BY <1>6, <2>1, <2>2 DEF Ends
<1> QED BY <1>8, <1>9, <1>10, <1>11, <1>12, <1>13 DEF ObjectsKept

LEMMA PublishingKeeps ==
    ASSUME MediaInvariant, NEW x \in Requests \cup Workers, NEW a \in Attempts, at[x] = "publish", a \in store.derived,
           MayPublish(a), Showable, media.display = 0, StepOf(x), NoFault, UNCHANGED <<store, job, useVars>>,
           attempt' = [attempt EXCEPT ![a].status = "PUBLISHED"],
           media' = [media EXCEPT !.display = a, !.lease = "none"],
           at'[x] \in {"upload", "done"}, seen'[x] = seen[x]
    PROVE  MediaInvariant'
<1> USE DEF MediaInvariant
<1>1. x \in Processes /\ x # Sweeper /\ x # Cleaner /\ a # 0
  OBVIOUS
<1>2. /\ attempt' \in [Attempts -> AttemptRows] /\ attempt'[a].status = "PUBLISHED"
      /\ \A b \in Attempts : b # a => attempt'[b] = attempt[b]
  BY DEF ImageOK, AttemptRows
<1>3. attempt[a].status = "PENDING" /\ a \notin store.flying /\ ~media.claimed
  BY DEF MayPublish, Showable, UploadsKept
<1>4. media \in MediaRows
  BY DEF ImageOK
<1>5. /\ media' \in MediaRows /\ media'.display = a /\ media'.status = media.status /\ media'.started = media.started
      /\ media'.claimed = media.claimed /\ media'.orphaned = media.orphaned /\ media'.preview = media.preview
  BY <1>1, <1>4 DEF MediaRows
<1>6. Luck /\ MayCome(x) /\ RowFits' /\ JobFits' /\ store' \in Stores /\ used' \in BOOLEAN /\ healed' \in BOOLEAN /\ taken' \in BOOLEAN
  BY <1>1, <1>5, FaultsGetFewer DEF MayCome, Confirming, RowFits, JobFits, ImageOK, Standing, useVars
<1>7. ImageOK' /\ Standing'
  BY <1>1, <1>2, <1>6, TypesStay, StandingStays
<1>8. Claims' /\ Markers'
  <2>1. at'[Sweeper] = at[Sweeper] /\ \A r \in Requests : at'[r] = "attach" => at[r] = "attach"
    BY <1>1, OthersStay
  <2> QED BY <1>5, <2>1 DEF Claims, Markers, useVars
<1>9. Recorded' = Recorded
  BY <1>2, <1>3 DEF Recorded
<1>10. ShownKept'
  BY <1>2, <1>3, <1>5 DEF ObjectsKept, ShownKept, MediaRows
<1>11. \A w \in Workers : WorksWell(w)'
  <2> SUFFICES ASSUME NEW w \in Workers PROVE WorksWell(w)'
    OBVIOUS
  <2>0. WorksWell(w) /\ w \in Processes /\ seen[w].attempt \in {0} \cup Attempts
    BY DEF ObjectsKept, ImageOK, Sights
  <2>1. CASE w # x
    <3>1. at'[w] = at[w] /\ seen'[w] = seen[w]
      BY <1>1, <2>1, OthersStay
    <3> QED BY <1>2, <1>5, <1>9, <2>0, <3>1 DEF WorksWell, HasMaster, MayPublish
  <2>2. CASE w = x
    <3>1. at'[w] = "upload" \/ at'[w] = "done"
      BY <2>2
    <3> QED BY <1>5, <2>0, <2>2, <3>1, SourceStays, NothingExpected
  <2> QED BY <2>1, <2>2
<1>12. CleansWell'
  <2>1. at'[Cleaner] = at[Cleaner] /\ seen'[Cleaner] = seen[Cleaner] /\ seen[Cleaner].attempt \in {0} \cup Attempts
    BY <1>1, OthersStay DEF ImageOK, Sights
  <2> QED BY <1>2, <1>3, <1>5, <2>1 DEF ObjectsKept, CleansWell
<1>13. UploadsKept'
  BY <1>2, <1>3, <1>5, <1>9 DEF UploadsKept
<1>14. Ends'
  <2>1. Resting => Resting'
    BY <1>1, RestStays DEF WorkPlaces
  <2>2. plot' = plot /\ age' = age /\ at'[Sweeper] = at[Sweeper] /\ seen'[Sweeper] = seen[Sweeper]
    BY <1>1, OthersStay DEF StepOf
  <2> QED BY <1>5, <1>9, <2>1, <2>2 DEF Ends, useVars
<1> QED BY <1>7, <1>8, <1>10, <1>11, <1>12, <1>13, <1>14 DEF ObjectsKept

(* What follows an error; nothing but the course of the process changes.   *)
LEMMA FailsKeeps ==
    ASSUME MediaInvariant, NEW x \in Requests \cup Workers, at[x] \in WorkPlaces, Fails(x), OneFault \/ NoFault
    PROVE  MediaInvariant'
<1>1. StepOf(x) /\ at'[x] \in {"giveBack", "markFailed", "failed"}
  <2>1. seen[x] \in Sights
    BY DEF MediaInvariant, ImageOK
  <2>2. [seen[x] EXCEPT !.attempt = 0] \in Sights
    BY <2>1, SightsChange
  <2>3. StepOf(x) /\ at'[x] = Failing(x)
    BY <2>2, GoIsStep DEF Fails, MediaInvariant
  <2> QED BY <2>3 DEF Failing
<1>2. MayCome(x)
  BY <1>1 DEF MayCome, Confirming
<1>3. WorksWell(x)'
  BY <1>1, NothingExpected
<1> QED BY <1>1, <1>2, <1>3, FaultsGetFewer, LookingKeeps
        DEF Fails, dataVars, useVars, WorkPlaces, MayWork, MediaInvariant

LEMMA downloadKeeps ==
    ASSUME MediaInvariant, NEW x \in Requests \cup Workers, download(x)
    PROVE  MediaInvariant'
<1>1. StepOf(x) /\ seen'[x] = seen[x] /\ at'[x] \in {"register", "upload", "giveBack", "markFailed", "failed"}
      /\ (at'[x] \in {"register", "upload"} => Source(x))
  <2>1. ImageOK /\ Standing /\ x \in Processes
    BY DEF MediaInvariant
  <2>2. CASE Goto(x, Failing(x))
    BY <2>1, <2>2, GotoIsStep DEF Failing
  <2>3. CASE Source(x) /\ Goto(x, IF plot.animated /\ seen[x].display = 0 THEN "register" ELSE "upload")
    BY <2>1, <2>3, GotoIsStep
  <2> QED BY <2>2, <2>3 DEF download
<1>2. MayCome(x)
  BY <1>1 DEF MayCome, Confirming
<1>3. WorksWell(x)'
  <2>1. CASE at'[x] \in {"register", "upload"}
    BY <1>1, <2>1 DEF WorksWell, HasMaster, Source, download, dataVars
  <2>2. CASE at'[x] \notin {"register", "upload"}
    BY <1>1, <2>2, NothingExpected
  <2> QED BY <2>1, <2>2
<1> QED BY <1>1, <1>2, <1>3, FaultsGetFewer, LookingKeeps DEF download, WorkPlaces, MayWork, MediaInvariant

LEMMA registerDisplayKeeps ==
    ASSUME MediaInvariant, NEW x \in Requests \cup Workers, registerDisplay(x)
    PROVE  MediaInvariant'
<1>1. CASE Fails(x) /\ (OneFault \/ NoFault)
  BY <1>1, FailsKeeps DEF registerDisplay, WorkPlaces
<1>2. CASE Showable /\ NoFault /\ UNCHANGED <<media, job, useVars>>
           /\ \E a \in FreeAttempts : StartAttempt(a) /\ Go(x, "publish", [seen[x] EXCEPT !.attempt = a])
  <2>1. PICK a \in FreeAttempts : StartAttempt(a) /\ Go(x, "publish", [seen[x] EXCEPT !.attempt = a])
    BY <1>2
  <2>2. seen[x] \in Sights /\ a \in {0} \cup Attempts
    BY DEF MediaInvariant, ImageOK, FreeAttempts
  <2>3. [seen[x] EXCEPT !.attempt = a] \in Sights
    BY <2>2, SightsChange
  <2>4. StepOf(x) /\ at'[x] = "publish" /\ seen'[x] = [seen[x] EXCEPT !.attempt = a]
    BY <2>1, <2>3, GoIsStep DEF MediaInvariant
  <2> QED BY <1>2, <2>1, <2>4, StartingKeeps DEF registerDisplay, Showable
<1> QED BY <1>1, <1>2 DEF registerDisplay

LEMMA publishDisplayKeeps ==
    ASSUME MediaInvariant, NEW x \in Requests \cup Workers, publishDisplay(x)
    PROVE  MediaInvariant'
<1> DEFINE a == seen[x].attempt
<1>1. a \in Attempts /\ a \in store.derived /\ at[x] = "publish" /\ NoFault
  BY DEF publishDisplay, MediaInvariant, ImageOK, Stores
<1>2. AfterDisplay(x) \in {"upload", "done"}
  BY DEF AfterDisplay
<1>3. CASE /\ MayPublish(a) /\ Showable /\ media.display = 0
           /\ attempt' = [attempt EXCEPT ![a].status = "PUBLISHED"]
           /\ media' = [media EXCEPT !.display = a, !.lease = "none"]
           /\ Goto(x, AfterDisplay(x)) /\ UNCHANGED <<store, job, useVars>>
  <2>1. StepOf(x) /\ at'[x] \in {"upload", "done"} /\ seen'[x] = seen[x]
    BY <1>2, <1>3, GotoIsStep DEF MediaInvariant
  <2> HIDE DEF a
  <2> QED BY <1>1, <1>3, <2>1, PublishingKeeps
<1>4. CASE Goto(x, AfterDisplay(x)) /\ UNCHANGED <<dataVars, useVars>>
  <2>1. StepOf(x) /\ at'[x] \in {"upload", "done"} /\ seen'[x] = seen[x]
    BY <1>2, <1>4, GotoIsStep DEF MediaInvariant
  <2>2. MayCome(x)
    BY <2>1 DEF MayCome, Confirming
  <2>3. x \in Workers => WorksWell(x)'
    <3>1. CASE at'[x] = "done"
      BY <3>1, NothingExpected
    <3>2. CASE at'[x] = "upload" /\ x \in Workers
      BY <1>1, <1>4, <2>1, <3>2, SourceStays DEF MediaInvariant, ObjectsKept, dataVars
    <3> QED BY <2>1, <3>1, <3>2
  <2> QED BY <1>1, <1>4, <2>1, <2>2, <2>3, FaultsGetFewer, LookingKeeps DEF WorkPlaces, MayWork, MediaInvariant
<1>5. CASE Go(x, Failing(x), [seen[x] EXCEPT !.attempt = 0]) /\ UNCHANGED <<dataVars, useVars>>
  BY <1>1, <1>5, FailsKeeps DEF Fails, dataVars, WorkPlaces
<1> QED BY <1>3, <1>4, <1>5 DEF publishDisplay

LEMMA abandonDisplayKeeps ==
    ASSUME MediaInvariant, NEW x \in Requests \cup Workers, abandonDisplay(x)
    PROVE  MediaInvariant'
  BY FailsKeeps DEF abandonDisplay, WorkPlaces

-------------------------------------------------------------------------------
(* The conversion of historical images *)

LEMMA readHistoricalKeeps ==
    ASSUME MediaInvariant, NEW r \in Requests, readHistorical(r)
    PROVE  MediaInvariant'
<1>1. StepOf(r) /\ (at'[r] \in {"done", "idle"} \/ (at'[r] = "lease" /\ seen'[r].tries < 3))
  <2>1. CASE Finish(r)
    BY <2>1, FinishIsStep DEF MediaInvariant
  <2>2. CASE media.tries < 3 /\ Go(r, "lease", [seen[r] EXCEPT !.tries = media.tries])
    <3>1. seen[r] \in Sights /\ media.tries \in 0..3
      BY DEF MediaInvariant, ImageOK, MediaRows
    <3>2. [seen[r] EXCEPT !.tries = media.tries] \in Sights /\ [seen[r] EXCEPT !.tries = media.tries].tries = media.tries
      BY <3>1 DEF Sights
    <3> QED BY <2>2, <3>2, GoIsStep DEF MediaInvariant
  <2> QED BY <2>1, <2>2 DEF readHistorical
<1>2. MayCome(r)
  BY <1>1 DEF MayCome, Confirming
<1> QED BY <1>1, <1>2, FaultsGetFewer, LookingKeeps DEF MayWork, readHistorical, MediaInvariant

LEMMA leaseHistoricalKeeps ==
    ASSUME MediaInvariant, NEW r \in Requests, leaseHistorical(r)
    PROVE  MediaInvariant'
<1>1. StepOf(r) /\ at'[r] \in {"download", "done", "idle"}
  BY GotoIsStep, FinishIsStep DEF leaseHistorical, MediaInvariant
<1>2. MayCome(r) /\ SameObjects
  BY <1>1 DEF leaseHistorical, MayCome, Confirming, SameObjects
<1>3. RowGoesOn /\ RowFits' /\ media'.orphaned = media.orphaned /\ media'.status = media.status
  <2>1. CASE UNCHANGED media
    BY <2>1 DEF RowGoesOn, RowFits, MediaInvariant, ImageOK
  <2>2. CASE media.tries = seen[r].tries /\ media' = [media EXCEPT !.lease = "running", !.tries = @ + 1]
    <3>1. media \in MediaRows /\ media.tries + 1 \in 0..3
      BY <2>2 DEF leaseHistorical, MediaInvariant, ImageOK, Standing, MediaRows
    <3>2. media' \in MediaRows /\ media'.status = media.status /\ media'.started = media.started
          /\ media'.claimed = media.claimed /\ media'.orphaned = media.orphaned
          /\ media'.preview = media.preview /\ media'.display = media.display
      BY <2>2, <3>1 DEF MediaRows
    <3> QED BY <3>2 DEF RowGoesOn, RowFits, MediaInvariant, ImageOK
  <2> QED BY <2>1, <2>2 DEF leaseHistorical
<1>4. JobFits' /\ store' \in Stores
  BY DEF leaseHistorical, MediaInvariant, ImageOK, Standing, JobFits
<1> QED BY <1>1, <1>2, <1>3, <1>4, FaultsGetFewer, GoingOnKeeps DEF MayWork, leaseHistorical, MediaInvariant

LEMMA giveBackKeeps ==
    ASSUME MediaInvariant, NEW r \in Requests, giveBack(r)
    PROVE  MediaInvariant'
<1>1. StepOf(r) /\ at'[r] \in {"done", "idle"}
  BY FinishIsStep DEF giveBack, MediaInvariant
<1>2. MayCome(r) /\ SameObjects
  BY <1>1 DEF giveBack, MayCome, Confirming, SameObjects
<1>3. RowGoesOn /\ RowFits' /\ media'.orphaned = media.orphaned /\ media'.status = media.status
  BY DEF giveBack, RowGoesOn, RowFits, MediaInvariant, ImageOK, MediaRows
<1>4. JobFits' /\ store' \in Stores
  BY DEF giveBack, MediaInvariant, ImageOK, Standing, JobFits
<1> QED BY <1>1, <1>2, <1>3, <1>4, FaultsGetFewer, GoingOnKeeps DEF MayWork, giveBack, MediaInvariant

-------------------------------------------------------------------------------
(* The queue and the worker *)

(* Nobody moves, as if somebody stayed where he is. *)
LEMMA StayingIsStep ==
    ASSUME MediaInvariant, NEW x \in Processes, UNCHANGED <<plot, age, at, seen>>
    PROVE  StepOf(x) /\ at'[x] = at[x] /\ seen'[x] = seen[x]
  BY DEF MediaInvariant, ImageOK, Standing, StepOf

LEMMA QueueKeeps ==
    ASSUME MediaInvariant, NEW w \in Workers, UNCHANGED <<media, attempt, store, useVars>>, JobFits', Luck,
           Finish(w) \/ UNCHANGED <<plot, age, at, seen>>
    PROVE  MediaInvariant'
<1>1. RowGoesOn /\ SameObjects /\ RowFits' /\ store' \in Stores /\ media' = media
  BY DEF RowGoesOn, SameObjects, RowFits, MediaInvariant, ImageOK
<1>2. CASE Finish(w)
  <2>1. StepOf(w) /\ at'[w] \in {"done", "idle"}
    BY <1>2, FinishIsStep DEF MediaInvariant
  <2>2. MayCome(w) /\ MayWork(w) /\ WorksWell(w)'
    BY <2>1, NothingExpected DEF MayCome, MayWork, WorkPlaces
  <2> QED BY <1>1, <2>1, <2>2, GoingOnKeeps
<1>3. CASE UNCHANGED <<plot, age, at, seen>>
  <2>1. StepOf(w) /\ at'[w] = at[w] /\ seen'[w] = seen[w]
    BY <1>3, StayingIsStep
  <2>2. MayCome(w) /\ MayWork(w)
    BY <2>1 DEF MayCome, MayWork
  <2>3. WorksWell(w)'
    BY <1>1, <2>1, WorkStays DEF MediaInvariant, ObjectsKept
  <2> QED BY <1>1, <2>1, <2>2, <2>3, GoingOnKeeps
<1> QED BY <1>2, <1>3

LEMMA JobStepsKeep ==
    ASSUME MediaInvariant, NEW w \in Workers, loseJob(w) \/ succeedJob(w) \/ failJob(w)
    PROVE  MediaInvariant'
<1>1. JobFits
  BY DEF MediaInvariant, ImageOK, Standing, JobFits
<1>2. Luck
  BY FaultsGetFewer DEF MediaInvariant, loseJob, succeedJob, failJob
<1>3. CASE loseJob(w)
  <2>1. JobFits'
    <3>1. CASE job' = [job EXCEPT !.state = "waiting", !.stalls = 1, !.owner = Nobody]
      <4>1. job \in Jobs /\ job.made \in 0..1
        BY <1>1, <1>3 DEF loseJob, JobFits, Jobs
      <4>2. job' = [state |-> "waiting", made |-> job.made, stalls |-> 1, owner |-> Nobody]
        BY <3>1, <4>1 DEF Jobs
      <4> QED BY <4>1, <4>2 DEF JobFits, Jobs, JobStates
    <3>2. CASE job' = [job EXCEPT !.state = "failed", !.owner = Nobody]
      BY <1>1, <1>3, <3>2 DEF loseJob, JobFits, Jobs, JobStates
    <3> QED BY <1>3, <3>1, <3>2 DEF loseJob
  <2> QED BY <1>2, <1>3, <2>1, QueueKeeps DEF loseJob
<1>4. CASE succeedJob(w)
  <2>1. JobFits'
    BY <1>1, <1>4 DEF succeedJob, JobFits, Jobs, JobStates
  <2> QED BY <1>2, <1>4, <2>1, QueueKeeps DEF succeedJob
<1>5. CASE failJob(w)
  <2>1. JobFits'
    <3>1. CASE job.owner # w
      BY <1>1, <1>5, <3>1 DEF failJob, JobFits
    <3>2. CASE job.owner = w
      <4>1. job \in Jobs /\ job.made \in 0..1
        BY <1>1, <3>2 DEF JobFits, Jobs
      <4>2. CASE job.made + 1 >= 2
        <5>0. job' = [job EXCEPT !.made = job.made + 1, !.owner = Nobody, !.state = "failed"]
          BY <1>5, <3>2, <4>2 DEF failJob
        <5>1. job' = [state |-> "failed", made |-> job.made + 1, stalls |-> job.stalls, owner |-> Nobody]
          BY <4>1, <5>0 DEF Jobs
        <5>2. job.stalls \in 0..1
          BY <4>1 DEF Jobs
        <5> QED BY <4>1, <5>1, <5>2 DEF JobFits, Jobs, JobStates
      <4>3. CASE ~(job.made + 1 >= 2)
        <5>0. job' = [job EXCEPT !.made = job.made + 1, !.owner = Nobody, !.state = "waiting"]
          BY <1>5, <3>2, <4>3 DEF failJob
        <5>1. job' = [state |-> "waiting", made |-> job.made + 1, stalls |-> job.stalls, owner |-> Nobody]
          BY <4>1, <5>0 DEF Jobs
        <5>2. job.stalls \in 0..1 /\ job.made + 1 \in 0..1
          BY <4>1, <4>3 DEF Jobs
        <5> QED BY <5>1, <5>2 DEF JobFits, Jobs, JobStates
      <4> QED BY <4>2, <4>3
    <3> QED BY <3>1, <3>2
  <2> QED BY <1>2, <1>5, <2>1, QueueKeeps DEF failJob
<1> QED BY <1>3, <1>4, <1>5

LEMMA forgetJobKeeps ==
    ASSUME MediaInvariant, forgetJob
    PROVE  MediaInvariant'
<1>1. StepOf(Recovery)
  BY StayingIsStep DEF forgetJob
<1>2. MayCome(Recovery) /\ MayWork(Recovery) /\ RowGoesOn /\ SameObjects
  BY DEF forgetJob, MayCome, MayWork, RowGoesOn, SameObjects
<1>3. RowFits' /\ JobFits' /\ store' \in Stores
  BY DEF forgetJob, MediaInvariant, ImageOK, Standing, RowFits, JobFits, Jobs, JobStates
<1> QED BY <1>1, <1>2, <1>3, FaultsGetFewer, GoingOnKeeps DEF forgetJob, MediaInvariant

LEMMA beginKeeps ==
    ASSUME MediaInvariant, NEW w \in Workers, begin(w)
    PROVE  MediaInvariant'
<1>1. JobFits /\ Luck
  BY FaultsGetFewer DEF MediaInvariant, ImageOK, Standing, JobFits, begin
<1>2. CASE ~Processable
  <2>1. JobFits'
    BY <1>1, <1>2 DEF begin, JobFits, Jobs, JobStates
  <2> QED BY <1>1, <1>2, <2>1, QueueKeeps DEF begin
<1>3. CASE Processable
  <2> DEFINE sight == [NoSight EXCEPT !.made = job.made, !.staging = media.staging, !.display = media.display]
  <2>1. sight \in Sights
    <3>1. job.made \in 0..2 /\ media.staging \in BOOLEAN /\ media.display \in {0} \cup Attempts
      BY DEF MediaInvariant, ImageOK, Jobs, MediaRows
    <3> DEFINE s1 == [NoSight EXCEPT !.made = job.made]
               s2 == [s1 EXCEPT !.staging = media.staging]
               s3 == [s2 EXCEPT !.display = media.display]
    <3>2. s1 \in Sights
      BY <3>1, NoSightIsSight, SightsChange
    <3>3. s2 \in Sights
      <4> HIDE DEF s1
      <4> QED BY <3>1, <3>2, SightsChange
    <3>4. s3 \in Sights
      <4> HIDE DEF s2
      <4> QED BY <3>1, <3>3, SightsChange
    <3>5. sight = s3
      BY DEF NoSight
    <3> QED BY <3>4, <3>5
  <2>2. Go(w, "download", sight)
    BY <1>3 DEF begin
  <2>3. StepOf(w) /\ at'[w] = "download"
    <3> HIDE DEF sight
    <3> QED BY <2>1, <2>2, GoIsStep DEF MediaInvariant
  <2>4. JobFits'
    BY <1>1, <1>3 DEF begin, JobFits, Jobs, JobStates
  <2>5. RowGoesOn /\ SameObjects /\ RowFits' /\ store' \in Stores /\ media' = media
    BY DEF begin, RowGoesOn, SameObjects, RowFits, MediaInvariant, ImageOK
  <2>6. MayCome(w) /\ MayWork(w) /\ WorksWell(w)'
    BY <1>3, <2>3, <2>5, NothingExpected DEF MayCome, MayWork
  <2> QED BY <1>1, <2>3, <2>4, <2>5, <2>6, GoingOnKeeps DEF begin
<1> QED BY <1>2, <1>3

LEMMA uploadKeeps ==
    ASSUME MediaInvariant, NEW w \in Workers, upload(w)
    PROVE  MediaInvariant'
<1>1. CASE OneFault /\ Fails(w)
  BY <1>1, FailsKeeps DEF upload, WorkPlaces
<1>2. CASE /\ NoFault
           /\ store' = IF seen[w].staging THEN [store EXCEPT !.master = TRUE] ELSE store
           /\ Go(w, IF plot.animated THEN "preview" ELSE "complete", [seen[w] EXCEPT !.attempt = 0])
           /\ UNCHANGED <<media, attempt, job, useVars>>
  <2>1. [seen[w] EXCEPT !.attempt = 0] \in Sights /\ [seen[w] EXCEPT !.attempt = 0].attempt = 0
    <3>1. seen[w] \in Sights
      BY DEF MediaInvariant, ImageOK
    <3> QED BY <3>1 DEF Sights
  <2>2. StepOf(w) /\ at'[w] \in {"preview", "complete"} /\ seen'[w].attempt = 0
    BY <1>2, <2>1, GoIsStep DEF MediaInvariant
  <2>3. taken \/ ~media.claimed
    BY DEF upload, MediaInvariant, Ends, Resting, WorkPlaces
  <2>4. /\ store' \in Stores /\ store'.derived = store.derived /\ store'.flying = store.flying
        /\ store'.staging = store.staging /\ (seen[w].staging => store'.master)
        /\ (~seen[w].staging => store'.master = store.master) /\ (store'.master # store.master => store'.master)
    BY <1>2 DEF MediaInvariant, ImageOK, Stores
  <2>5. media.claimed \/ store'.master
    BY <2>4 DEF upload, MediaInvariant, ObjectsKept, WorksWell, HasMaster
  <2>6. RowGoesOn /\ SameObjects /\ RowFits' /\ JobFits' /\ media' = media
    BY <1>2, <2>3, <2>4 DEF RowGoesOn, SameObjects, RowFits, JobFits, MediaInvariant, ImageOK, Standing
  <2>7. WorksWell(w)' /\ MayCome(w) /\ MayWork(w)
    BY <2>2, <2>5, <2>6 DEF WorksWell, MayCome, MayWork, upload, WorkPlaces
  <2> QED BY <1>2, <2>2, <2>4, <2>6, <2>7, FaultsGetFewer, GoingOnKeeps DEF MediaInvariant
<1> QED BY <1>1, <1>2 DEF upload

LEMMA stagePreviewsKeeps ==
    ASSUME MediaInvariant, NEW w \in Workers, stagePreviews(w)
    PROVE  MediaInvariant'
<1>1. (taken \/ ~media.claimed) /\ at[w] = "preview" /\ WorksWell(w)
  BY DEF stagePreviews, MediaInvariant, Ends, Resting, WorkPlaces, ObjectsKept
<1>2. CASE Goto(w, "complete") /\ UNCHANGED <<dataVars, useVars>>
  <2>1. StepOf(w) /\ at'[w] = "complete" /\ seen'[w] = seen[w]
    BY <1>2, GotoIsStep DEF MediaInvariant
  <2>2. WorksWell(w)' /\ MayCome(w) /\ MayWork(w)
    BY <1>1, <1>2, <2>1 DEF WorksWell, HasMaster, MayCome, MayWork, WorkPlaces, dataVars
  <2> QED BY <1>2, <2>1, <2>2, FaultsGetFewer, LookingKeeps DEF stagePreviews, MediaInvariant
<1>3. CASE Exists /\ UNCHANGED <<media, job, useVars>>
           /\ \E a \in FreeAttempts : StartAttempt(a) /\ Go(w, "staging", [seen[w] EXCEPT !.attempt = a])
  <2>1. PICK a \in FreeAttempts : StartAttempt(a) /\ Go(w, "staging", [seen[w] EXCEPT !.attempt = a])
    BY <1>3
  <2>2. seen[w] \in Sights /\ a \in {0} \cup Attempts
    BY DEF MediaInvariant, ImageOK, FreeAttempts
  <2>3. [seen[w] EXCEPT !.attempt = a] \in Sights
    BY <2>2, SightsChange
  <2>4. StepOf(w) /\ at'[w] = "staging" /\ seen'[w] = [seen[w] EXCEPT !.attempt = a]
    BY <2>1, <2>3, GoIsStep DEF MediaInvariant
  <2> QED BY <1>1, <1>3, <2>1, <2>4, StartingKeeps DEF stagePreviews
<1> QED BY <1>2, <1>3 DEF stagePreviews

LEMMA endPreviewsKeeps ==
    ASSUME MediaInvariant, NEW w \in Workers, endPreviews(w)
    PROVE  MediaInvariant'
<1>1. at[w] = "staging" /\ WorksWell(w) /\ seen[w] \in Sights
  BY DEF endPreviews, MediaInvariant, ObjectsKept, ImageOK
<1>2. [seen[w] EXCEPT !.attempt = 0] \in Sights /\ [seen[w] EXCEPT !.attempt = 0].attempt = 0
  BY <1>1 DEF Sights
<1>3. StepOf(w) /\ at'[w] = "complete"
      /\ (seen'[w].attempt = 0 \/ (seen'[w] = seen[w] /\ seen[w].attempt \in store.derived))
  <2>1. CASE Go(w, "complete", [seen[w] EXCEPT !.attempt = 0])
    BY <1>2, <2>1, GoIsStep DEF MediaInvariant
  <2>2. CASE seen[w].attempt \in store.derived /\ Goto(w, "complete")
    BY <2>2, GotoIsStep DEF MediaInvariant
  <2> QED BY <2>1, <2>2 DEF endPreviews
<1>4. UNCHANGED <<media, attempt, store>>
  BY DEF endPreviews, dataVars
<1>5. WorksWell(w)'
  BY <1>1, <1>3, <1>4 DEF WorksWell, HasMaster, Recorded
<1>6. MayCome(w) /\ MayWork(w)
  BY <1>1, <1>3 DEF MayCome, MayWork, WorkPlaces
<1> QED BY <1>3, <1>5, <1>6, FaultsGetFewer, LookingKeeps DEF endPreviews, MediaInvariant

(* The image is completed; it is not claimed, and shows what there is.     *)
LEMMA completingKeeps ==
    ASSUME MediaInvariant, NEW w \in Workers, completeMediaWithPreviews(w), Processable
    PROVE  MediaInvariant'
<1> USE DEF MediaInvariant
<1> DEFINE a == seen[w].attempt
           publishes == a # 0 /\ MayPublish(a)
           shown == IF publishes THEN a ELSE 0
<1>1. w \in Processes /\ w # Sweeper /\ w # Cleaner /\ at[w] = "complete" /\ WorksWell(w)
      /\ media \in MediaRows /\ a \in {0} \cup Attempts /\ seen[w] \in Sights
  BY DEF completeMediaWithPreviews, ObjectsKept, ImageOK, Sights
<1>2. media.status = "PROCESSING" /\ ~media.claimed /\ ~Referenced
  BY DEF Processable, Markers
<1>3. store.master /\ (publishes => a \in store.derived /\ a \notin store.flying)
  BY <1>1, <1>2 DEF WorksWell, HasMaster, UploadsKept, MayPublish
<1>4. media' = [media EXCEPT !.status = "COMPLETED", !.started = "none", !.orphaned = "recent", !.preview = shown]
  BY DEF completeMediaWithPreviews
<1>5. /\ media' \in MediaRows /\ media'.status = "COMPLETED" /\ media'.started = "none" /\ media'.orphaned = "recent"
      /\ media'.preview = shown /\ media'.display = media.display /\ media'.claimed = media.claimed
  <2>1. shown \in {0} \cup Attempts
    BY <1>1
  <2> HIDE DEF shown
  <2> QED BY <1>1, <1>4, <2>1 DEF MediaRows
<1>6. /\ attempt' \in [Attempts -> AttemptRows]
      /\ \A b \in Attempts : b # a \/ ~publishes => attempt'[b] = attempt[b]
      /\ publishes => attempt[a].status = "PENDING" /\ attempt'[a].status = "PUBLISHED"
  BY <1>1 DEF completeMediaWithPreviews, ImageOK, AttemptRows, MayPublish
<1>7. UNCHANGED <<store, job, refs, healed, taken>> /\ used' = TRUE /\ NoFault
  BY DEF completeMediaWithPreviews
<1>8. StepOf(w) /\ at'[w] \in {"drop", "succeeded"}
  <2>1. [seen[w] EXCEPT !.good = TRUE] \in Sights
    BY <1>1, SightsChange
  <2> QED BY <1>1, <2>1, GoIsStep DEF completeMediaWithPreviews
<1>9. MayCome(w) /\ Luck /\ RowFits' /\ JobFits' /\ store' \in Stores /\ used' \in BOOLEAN /\ healed' \in BOOLEAN /\ taken' \in BOOLEAN
  BY <1>1, <1>5, <1>7, FaultsGetFewer DEF MayCome, RowFits, JobFits, ImageOK, Standing
<1>10. ImageOK' /\ Standing'
  BY <1>1, <1>6, <1>8, <1>9, TypesStay, StandingStays
<1>11. at'[Sweeper] = at[Sweeper] /\ seen'[Sweeper] = seen[Sweeper] /\ plot' = plot /\ age' = age
  BY <1>1, <1>8, OthersStay DEF StepOf
<1>12. Claims'
  BY <1>2, <1>5, <1>11 DEF Claims
<1>13. Markers'
  BY <1>2, <1>5, <1>7, <1>11 DEF Markers
<1>14. Recorded' = Recorded
  BY <1>6 DEF Recorded
<1>15. ShownKept'
  BY <1>1, <1>2, <1>3, <1>5, <1>6, <1>7 DEF ObjectsKept, ShownKept, MediaRows
<1>16. \A v \in Workers : WorksWell(v)'
  <2> SUFFICES ASSUME NEW v \in Workers PROVE WorksWell(v)'
    OBVIOUS
  <2>1. CASE v = w
    BY <1>8, <2>1, NothingExpected
  <2>2. CASE v # w
    <3>1. at'[v] = at[v] /\ seen'[v] = seen[v] /\ WorksWell(v) /\ seen[v].attempt \in {0} \cup Attempts
      BY <1>1, <1>8, <2>2, OthersStay DEF ObjectsKept, ImageOK, Sights
    <3> DEFINE b == seen[v].attempt
    <3>2. b # 0 /\ attempt'[b].status = "PENDING" => attempt'[b] = attempt[b]
      BY <1>6, <3>1
    <3> QED BY <1>5, <1>7, <1>14, <1>2, <3>1, <3>2 DEF WorksWell, HasMaster, MayPublish
  <2> QED BY <2>1, <2>2
<1>17. CleansWell'
  <2>1. at'[Cleaner] = at[Cleaner] /\ seen'[Cleaner] = seen[Cleaner] /\ seen[Cleaner].attempt \in {0} \cup Attempts
    BY <1>1, <1>8, OthersStay DEF ImageOK, Sights
  <2> QED BY <1>2, <1>6, <2>1 DEF ObjectsKept, CleansWell
<1>18. UploadsKept'
  BY <1>2, <1>3, <1>5, <1>6, <1>7, <1>14 DEF UploadsKept, ImageOK, Stores
<1>19. Ends'
  <2>1. age # "week"
    BY <1>1, <1>2 DEF Ends
  <2> QED BY <1>2, <1>5, <1>7, <1>11, <2>1 DEF Ends, Claims
<1> QED BY <1>10, <1>12, <1>13, <1>15, <1>16, <1>17, <1>18, <1>19 DEF ObjectsKept

LEMMA completeMediaWithPreviewsKeeps ==
    ASSUME MediaInvariant, NEW w \in Workers, completeMediaWithPreviews(w)
    PROVE  MediaInvariant'
<1>1. CASE Processable
  BY <1>1, completingKeeps
<1>2. CASE ~Processable
  <2>1. Goto(w, "succeeded") /\ NoFault /\ UNCHANGED <<dataVars, useVars>>
    BY <1>2 DEF completeMediaWithPreviews, dataVars, useVars
  <2>2. StepOf(w) /\ at'[w] = "succeeded"
    BY <2>1, GotoIsStep DEF MediaInvariant
  <2>3. WorksWell(w)' /\ MayCome(w) /\ MayWork(w)
    BY <2>2, NothingExpected DEF MayCome, MayWork, WorkPlaces
  <2> QED BY <2>1, <2>2, <2>3, FaultsGetFewer, LookingKeeps DEF MediaInvariant
<1> QED BY <1>1, <1>2

LEMMA WorkerStepsKeep ==
    ASSUME MediaInvariant, NEW w \in Workers, WorkerSteps(w) \/ loseJob(w)
    PROVE  MediaInvariant'
<1>1. EndOf(w) \in {"done", "idle", "succeeded", "failed"}
  BY DEF EndOf
<1> QED BY <1>1, beginKeeps, downloadKeeps, registerDisplayKeeps, publishDisplayKeeps, abandonDisplayKeeps, uploadKeeps,
           stagePreviewsKeeps, endPreviewsKeeps, completeMediaWithPreviewsKeeps, markFailedKeeps, removeObjectKeeps,
           forgetKeyKeeps, JobStepsKeep DEF WorkerSteps

-------------------------------------------------------------------------------
(* Time, and uploads that arrive *)

(* Nobody moves: everybody keeps his place and what he knows.              *)
StandsStill == UNCHANGED <<plot, at, seen>> /\ Luck /\ JobFits'

LEMMA WaitingKeeps ==
    ASSUME MediaInvariant, StandsStill
    PROVE  Standing'
  BY DEF MediaInvariant, Standing, StandsStill, JobFits

LEMMA RowAgesKeeps ==
    ASSUME MediaInvariant, processTooLong \/ lapse
    PROVE  MediaInvariant'
<1>1. StepOf(Recovery) /\ UNCHANGED <<attempt, store, job, useVars, faults>>
  BY StayingIsStep DEF processTooLong, lapse
<1>2. media \in MediaRows /\ (\/ media.started = "fresh" /\ media' = [media EXCEPT !.started = "stale"]
                              \/ media' = [media EXCEPT !.lease = "lapsed"])
  BY DEF processTooLong, lapse, MediaInvariant, ImageOK
<1>3. /\ media' \in MediaRows /\ media'.status = media.status /\ media'.orphaned = media.orphaned
      /\ media'.claimed = media.claimed /\ media'.preview = media.preview /\ media'.display = media.display
      /\ (media'.started # "none" <=> media.started # "none")
  BY <1>2 DEF MediaRows
<1>4. RowGoesOn /\ SameObjects /\ RowFits' /\ JobFits' /\ store' \in Stores /\ Luck
  BY <1>1, <1>3 DEF RowGoesOn, SameObjects, RowFits, JobFits, MediaInvariant, ImageOK, Standing, Luck
<1>5. MayCome(Recovery) /\ MayWork(Recovery)
  BY DEF MayCome, MayWork
<1> QED BY <1>1, <1>3, <1>4, <1>5, GoingOnKeeps

(* An upload that arrives has a row, unless the image is gone.             *)
LEMMA landKeeps ==
    ASSUME MediaInvariant, NEW a \in Attempts, land(a)
    PROVE  MediaInvariant'
<1> USE DEF MediaInvariant
<1>1. (taken \/ (~media.claimed /\ Exists)) /\ (Exists => a \in Recorded)
  BY DEF land, Ends, Claims, UploadsKept, Recorded
<1>2. /\ store' \in Stores /\ store'.master = store.master
      /\ store'.derived = store.derived \cup {a} /\ store'.flying = store.flying \ {a}
  BY DEF land, ImageOK, Stores
<1>3. StandsStill /\ UNCHANGED <<media, attempt, job, age, useVars>>
  BY DEF land, StandsStill, Luck, JobFits, ImageOK, Standing
<1>4. ImageOK' /\ Standing' /\ Claims' /\ Markers'
  BY <1>2, <1>3, WaitingKeeps DEF StandsStill, Luck, ImageOK, Claims, Markers, useVars
<1>5. ObjectsKept'
  BY <1>2, <1>3 DEF ObjectsKept, ShownKept, WorksWell, HasMaster, Recorded, MayPublish, CleansWell, StandsStill
<1>6. UploadsKept'
  BY <1>1, <1>2, <1>3 DEF UploadsKept, Recorded
<1>7. Ends'
  <2>1. taken \/ (at[Sweeper] # "delete" /\ at[Sweeper] # "remove")
    BY <1>1 DEF Claims
  <2> QED BY <1>1, <1>2, <1>3, <2>1 DEF Ends, Resting, StandsStill, useVars, Recorded
<1> QED BY <1>4, <1>5, <1>6, <1>7

LEMMA loseKeeps ==
    ASSUME MediaInvariant, NEW a \in Attempts, lose(a)
    PROVE  MediaInvariant'
<1> USE DEF MediaInvariant
<1>2. /\ store' \in Stores /\ store'.master = store.master
      /\ store'.derived = store.derived /\ store'.flying = store.flying \ {a}
  BY DEF lose, ImageOK, Stores
<1>3. StandsStill /\ UNCHANGED <<media, attempt, job, age, useVars>>
  BY FaultsGetFewer DEF lose, StandsStill, JobFits, ImageOK, Standing
<1>4. ImageOK' /\ Standing' /\ Claims' /\ Markers'
  BY <1>2, <1>3, WaitingKeeps DEF StandsStill, Luck, ImageOK, Claims, Markers, useVars
<1>5. ObjectsKept'
  BY <1>2, <1>3 DEF ObjectsKept, ShownKept, WorksWell, HasMaster, Recorded, MayPublish, CleansWell, StandsStill
<1>6. UploadsKept'
  BY <1>2, <1>3 DEF UploadsKept, Recorded
<1>7. Ends'
  BY <1>2, <1>3 DEF Ends, Resting, Recorded, StandsStill, useVars
<1> QED BY <1>4, <1>5, <1>6, <1>7

(* Attempts whose time goes on. *)
Later ==
    /\ attempt' \in [Attempts -> AttemptRows]
    /\ \A b \in Attempts :
         /\ attempt'[b].status = attempt[b].status
         /\ attempt'[b].expiry = "live" => attempt[b].expiry = "live"

LEMMA expireKeeps ==
    ASSUME MediaInvariant, NEW a \in Attempts, expire(a)
    PROVE  MediaInvariant'
<1> USE DEF MediaInvariant
<1>1. Later /\ \A b \in Attempts : attempt'[b].expiry = "settled" => attempt[b].expiry = "settled"
  BY DEF expire, Later, ImageOK, AttemptRows
<1>2. Recorded' = Recorded
  BY <1>1 DEF Later, Recorded
<1>3. StandsStill /\ UNCHANGED <<media, store, job, age, useVars>>
  BY DEF expire, StandsStill, Luck, JobFits, ImageOK, Standing
<1>4. ImageOK' /\ Standing' /\ Claims' /\ Markers'
  BY <1>1, <1>3, WaitingKeeps DEF StandsStill, Later, Luck, ImageOK, Claims, Markers, useVars
<1>5. ShownKept'
  <2>1. \A b \in {media.preview, media.display} \ {0} : b \in Attempts
    BY DEF ImageOK, MediaRows
  <2>2. ShownKept /\ media' = media /\ store' = store
    BY <1>3 DEF ObjectsKept
  <2>3. \A b \in Attempts : attempt'[b].status = attempt[b].status
    BY <1>1 DEF Later
  <2> USE <2>1, <2>2, <2>3
  <2> HIDE DEF MediaInvariant
  <2> QED BY DEF ShownKept
<1>6. \A w \in Workers : WorksWell(w)'
  <2> SUFFICES ASSUME NEW w \in Workers PROVE WorksWell(w)'
    OBVIOUS
  <2>1. WorksWell(w) /\ seen[w].attempt \in {0} \cup Attempts
    BY DEF ObjectsKept, ImageOK, Sights
  <2> QED BY <1>1, <1>2, <1>3, <2>1 DEF WorksWell, HasMaster, MayPublish, Later, StandsStill
<1>7. CleansWell'
  <2>1. seen[Cleaner].attempt \in {0} \cup Attempts
    BY DEF ImageOK, Sights
  <2> QED BY <1>1, <1>3, <2>1 DEF ObjectsKept, CleansWell, Later, StandsStill
<1>8. UploadsKept'
  BY <1>1, <1>2, <1>3 DEF UploadsKept, Later, ImageOK, Stores
<1>9. Ends'
  BY <1>2, <1>3 DEF Ends, Resting, StandsStill, useVars
<1> QED BY <1>4, <1>5, <1>6, <1>7, <1>8, <1>9 DEF ObjectsKept

(* What a quiet time means: nobody is at work, the cleaner and the daily   *)
(* run have nothing under way.                                             *)
LEMMA QuietIsIdle ==
    ASSUME Quiet
    PROVE  Resting /\ at[Cleaner] # "clean" /\ at[Sweeper] \in {"new", "idle"}
           /\ \A r \in Requests : at[r] \in {"new", "done"}
<1>1. \A x \in Processes : at[x] \in {"new", "done", "idle"}
  BY DEF Quiet, Rest
<1> QED BY <1>1 DEF Quiet, Rest, Resting, WorkPlaces

LEMMA dayPassesKeeps ==
    ASSUME MediaInvariant, dayPasses
    PROVE  MediaInvariant'
<1> USE DEF MediaInvariant
<1>1. job' \in Jobs /\ JobFits'
  BY DEF dayPasses, WithoutJob, JobFits, ImageOK, Standing, Jobs, JobStates
<1>2. StandsStill /\ UNCHANGED <<media, attempt, store, useVars>> /\ age' = "day"
  BY <1>1 DEF dayPasses, StandsStill, Luck, ImageOK
<1>3. ImageOK' /\ Standing' /\ Claims' /\ Markers'
  BY <1>1, <1>2, WaitingKeeps DEF StandsStill, JobFits, Luck, ImageOK, Claims, Markers, useVars
<1>4. ObjectsKept' /\ UploadsKept'
  BY <1>2 DEF ObjectsKept, ShownKept, WorksWell, HasMaster, Recorded, MayPublish, CleansWell, UploadsKept, StandsStill
<1>5. Ends'
  BY <1>2 DEF Ends, Resting, Recorded, StandsStill, useVars
<1> QED BY <1>3, <1>4, <1>5

(* In the week the daily run has looked at the marker: what is referred to *)
(* does not get old as an orphan.                                          *)
LEMMA weekPassesKeeps ==
    ASSUME MediaInvariant, weekPasses
    PROVE  MediaInvariant'
<1> USE DEF MediaInvariant
<1>1. Resting /\ at[Cleaner] # "clean" /\ at[Sweeper] \in {"new", "idle"} /\ store.flying = {} /\ Exists
  BY QuietIsIdle DEF weekPasses, Quiet
<1>2. job' \in Jobs /\ JobFits'
  BY DEF weekPasses, WithoutJob, JobFits, ImageOK, Standing, Jobs, JobStates
<1>3. StandsStill /\ UNCHANGED <<store, refs, healed, taken>> /\ age' = "week" /\ used' = Referenced
  BY <1>2 DEF weekPasses, StandsStill, Luck, ImageOK
<1>4. media \in MediaRows /\ media' = [media EXCEPT !.orphaned = IF @ = "recent" THEN "old" ELSE @]
  BY DEF weekPasses, ImageOK
<1>5. /\ media' \in MediaRows /\ media'.status = media.status /\ media'.started = media.started
      /\ media'.claimed = media.claimed /\ media'.preview = media.preview /\ media'.display = media.display
      /\ (media'.orphaned = "no" <=> media.orphaned = "no")
  BY <1>4 DEF MediaRows
<1>6. Later
  <2>1. attempt' = [b \in Attempts |-> Settle(attempt[b])]
    BY DEF weekPasses
  <2>2. ASSUME NEW b \in Attempts
        PROVE  /\ Settle(attempt[b]) \in AttemptRows /\ Settle(attempt[b]).status = attempt[b].status
               /\ Settle(attempt[b]).expiry = "live" => attempt[b].expiry = "live"
    <3>1. attempt[b] \in AttemptRows
      BY DEF ImageOK
    <3> QED BY <3>1 DEF Settle, AttemptRows
  <2> QED BY <2>1, <2>2 DEF Later
<1>7. Recorded' = Recorded
  BY <1>6 DEF Later, Recorded
<1>8. Referenced => media.orphaned = "no"
  BY <1>1 DEF Markers, weekPasses
<1>9. ImageOK' /\ Standing' /\ Claims'
  BY <1>1, <1>2, <1>3, <1>5, <1>6, WaitingKeeps DEF StandsStill, JobFits, Later, Luck, ImageOK, Claims
<1>10. Markers'
  BY <1>1, <1>3, <1>5, <1>8 DEF Markers, StandsStill
<1>11. ObjectsKept'
  <2>1. ShownKept'
    BY <1>3, <1>5, <1>6 DEF ObjectsKept, ShownKept, Later, MediaRows
  <2>2. \A w \in Workers : WorksWell(w)'
    <3>1. \A w \in Workers : at'[w] \notin {"register", "publish", "upload", "preview", "staging", "complete"}
      BY <1>1, <1>3 DEF Resting, WorkPlaces, StandsStill
    <3> QED BY <3>1, NothingExpected
  <2> QED BY <1>1, <1>3, <2>1, <2>2 DEF ObjectsKept, CleansWell, StandsStill
<1>12. UploadsKept'
  BY <1>1, <1>3, <1>5, <1>7 DEF UploadsKept
<1>13. Ends'
  <2>1. media.claimed \/ media.status \in {"COMPLETED", "FAILED"}
    BY <1>1, <1>4 DEF weekPasses, Quiet, MediaRows
  <2> QED BY <1>1, <1>3, <1>5, <1>7, <2>1 DEF Ends, Resting, StandsStill, useVars
<1> QED BY <1>9, <1>10, <1>11, <1>12, <1>13

-------------------------------------------------------------------------------
(* The cleaner of attempts *)

(* Attempts of which some become, or stay, ones that the cleaner has.      *)
LEMMA claimAttemptKeeps ==
    ASSUME MediaInvariant, claimAttempt
    PROVE  MediaInvariant'
<1> USE DEF MediaInvariant
<1>1. PICK a \in Attempts :
        /\ attempt[a].status \in {"PENDING", "CLEANING"}
        /\ attempt' = [attempt EXCEPT ![a].status = "CLEANING"]
        /\ Go(Cleaner, "clean", [NoSight EXCEPT !.attempt = a])
  BY DEF claimAttempt
<1>2. /\ attempt' \in [Attempts -> AttemptRows] /\ attempt'[a].status = "CLEANING"
      /\ \A b \in Attempts : b # a => attempt'[b] = attempt[b]
      /\ \A b \in Attempts : attempt'[b].expiry = attempt[b].expiry
  BY <1>1 DEF ImageOK, AttemptRows
<1>3. StepOf(Cleaner) /\ at'[Cleaner] = "clean" /\ seen'[Cleaner].attempt = a
  <2>1. [NoSight EXCEPT !.attempt = a] \in Sights /\ [NoSight EXCEPT !.attempt = a].attempt = a
    BY NoSightIsSight, SightsChange DEF NoSight
  <2> QED BY <1>1, <2>1, GoIsStep
<1>4. Luck /\ UNCHANGED <<media, store, job, useVars>> /\ MayCome(Cleaner) /\ Exists
  BY FaultsGetFewer DEF claimAttempt, MayCome
<1>5. RowFits' /\ JobFits' /\ store' \in Stores /\ used' \in BOOLEAN /\ healed' \in BOOLEAN /\ taken' \in BOOLEAN
      /\ RowGoesOn /\ SameObjects
  BY <1>4 DEF RowFits, JobFits, ImageOK, Standing, useVars, RowGoesOn, SameObjects
<1>6. ImageOK' /\ Standing' /\ Claims' /\ Markers'
  <2>1. UseGoesOn
    BY <1>4 DEF UseGoesOn, useVars, ImageOK
  <2> QED BY <1>2, <1>3, <1>4, <1>5, <2>1, TypesStay, StandingStays, ClaimsStay, MarkersStay
<1>7. Recorded' = Recorded
  BY <1>1, <1>2 DEF Recorded
<1>8. ShownKept'
  <2>1. media.preview \in {0} \cup Attempts /\ media.display \in {0} \cup Attempts
    BY DEF ImageOK, MediaRows
  <2> QED BY <1>1, <1>2, <1>4, <2>1 DEF ObjectsKept, ShownKept
<1>9. \A w \in Workers : WorksWell(w)'
  <2> SUFFICES ASSUME NEW w \in Workers PROVE WorksWell(w)'
    OBVIOUS
  <2>0. at'[w] = at[w] /\ seen'[w] = seen[w]
    BY <1>3, OthersStay
  <2>1. WorksWell(w) /\ seen[w].attempt \in {0} \cup Attempts /\ at'[w] = at[w] /\ seen'[w] = seen[w]
    BY <2>0 DEF ObjectsKept, ImageOK, Sights
  <2> DEFINE b == seen[w].attempt
  <2>2. b # 0 /\ attempt'[b].status = "PENDING" => attempt'[b] = attempt[b]
    BY <1>2, <2>1
  <2> QED BY <1>4, <1>7, <2>1, <2>2 DEF WorksWell, HasMaster, MayPublish
<1>10. CleansWell'
  BY <1>2, <1>3 DEF CleansWell
<1>11. UploadsKept'
  BY <1>2, <1>4, <1>7 DEF UploadsKept, ImageOK, Stores
<1>12. Ends'
  <2>1. Resting => Resting'
    BY <1>3, RestStays
  <2>2. plot' = plot /\ age' = age /\ at'[Sweeper] = at[Sweeper] /\ seen'[Sweeper] = seen[Sweeper]
    BY <1>3, OthersStay DEF StepOf
  <2> QED BY <1>4, <1>7, <2>1, <2>2 DEF Ends, useVars
<1> QED BY <1>6, <1>8, <1>9, <1>10, <1>11, <1>12 DEF ObjectsKept

(* What the cleaner removes is shown nowhere: it has it from the attempts  *)
(* that cannot be published.                                               *)
LEMMA cleanAttemptKeeps ==
    ASSUME MediaInvariant, cleanAttempt
    PROVE  MediaInvariant'
<1> USE DEF MediaInvariant
<1> DEFINE a == seen[Cleaner].attempt
<1>1. a \in Attempts /\ (Exists => attempt[a].status = "CLEANING")
  BY DEF cleanAttempt, ObjectsKept, CleansWell, ImageOK, Sights
<1>2. /\ attempt' \in [Attempts -> AttemptRows]
      /\ \A b \in Attempts : attempt'[b].status = attempt[b].status /\ attempt'[b].expiry = attempt[b].expiry
  BY <1>1 DEF cleanAttempt, ImageOK, AttemptRows
<1>3. /\ store' \in Stores /\ store'.master = store.master /\ store'.flying = store.flying
      /\ store'.derived \subseteq store.derived /\ store.derived \subseteq store'.derived \cup {a}
  BY DEF cleanAttempt, ImageOK, Stores
<1>4. StepOf(Cleaner) /\ at'[Cleaner] \in {"done", "idle"} /\ Luck /\ UNCHANGED <<media, job, useVars>>
      /\ MayCome(Cleaner)
  BY FinishIsStep, FaultsGetFewer DEF cleanAttempt, MayCome
<1>5. RowFits' /\ JobFits' /\ used' \in BOOLEAN /\ healed' \in BOOLEAN /\ taken' \in BOOLEAN /\ RowGoesOn
  BY <1>4 DEF RowFits, JobFits, ImageOK, Standing, useVars, RowGoesOn
<1>6. ImageOK' /\ Standing' /\ Claims' /\ Markers'
  <2>1. UseGoesOn
    BY <1>4 DEF UseGoesOn, useVars, ImageOK
  <2> QED BY <1>2, <1>3, <1>4, <1>5, <2>1, TypesStay, StandingStays, ClaimsStay, MarkersStay
<1>7. Recorded' = Recorded
  BY <1>2 DEF Recorded
<1>8. ShownKept'
  <2>1. media.preview \in {0} \cup Attempts /\ media.display \in {0} \cup Attempts
    BY DEF ImageOK, MediaRows
  <2>2. ~media.claimed => attempt[a].status = "CLEANING"
    BY <1>1 DEF Claims
  <2>3. \A b \in Attempts : ~media.claimed /\ b \in store.derived /\ attempt[b].status = "PUBLISHED" =>
          b \in store'.derived /\ attempt'[b].status = "PUBLISHED"
    BY <1>1, <1>2, <1>3, <2>2
  <2>4. \A b \in {media.preview, media.display} \ {0} : b \in Attempts
    BY <2>1
  <2>5. ShownKept /\ media' = media /\ store'.master = store.master
    BY <1>3, <1>4 DEF ObjectsKept
  <2> USE <2>3, <2>4, <2>5
  <2> HIDE DEF MediaInvariant
  <2> QED BY DEF ShownKept
<1>9. \A w \in Workers : WorksWell(w)'
  <2> SUFFICES ASSUME NEW w \in Workers PROVE WorksWell(w)'
    OBVIOUS
  <2>0. at'[w] = at[w] /\ seen'[w] = seen[w]
    BY <1>4, OthersStay
  <2>1. WorksWell(w) /\ seen[w].attempt \in {0} \cup Attempts /\ at'[w] = at[w] /\ seen'[w] = seen[w]
    BY <2>0 DEF ObjectsKept, ImageOK, Sights
  <2> DEFINE b == seen[w].attempt
  <2>2. b # 0 => attempt'[b].status = attempt[b].status /\ attempt'[b].expiry = attempt[b].expiry
    BY <1>2, <2>1
  <2>3. ~media.claimed /\ b # 0 /\ attempt[b].status = "PENDING" => (b \in store'.derived <=> b \in store.derived)
    BY <1>1, <1>3, <2>1 DEF Claims
  <2> QED BY <1>3, <1>4, <1>7, <2>1, <2>2, <2>3 DEF WorksWell, HasMaster, MayPublish
<1>10. CleansWell'
  BY <1>4 DEF CleansWell
<1>11. UploadsKept'
  BY <1>2, <1>3, <1>4, <1>7 DEF UploadsKept, ImageOK, Stores
<1>12. Ends'
  <2>1. Resting => Resting'
    BY <1>4, RestStays
  <2>2. plot' = plot /\ age' = age /\ at'[Sweeper] = at[Sweeper] /\ seen'[Sweeper] = seen[Sweeper]
    BY <1>4, OthersStay DEF StepOf
  <2> QED BY <1>3, <1>4, <1>7, <2>1, <2>2 DEF Ends, useVars
<1> QED BY <1>6, <1>8, <1>9, <1>10, <1>11, <1>12 DEF ObjectsKept

-------------------------------------------------------------------------------
(* The daily run *)

(* Where the daily run may come to while the row keeps its status.         *)
SweepsWell ==
    /\ at'[Sweeper] \in {"collect", "remove", "delete"} => media.claimed
    /\ at'[Sweeper] \in {"mark", "unmark"} => media.status = "COMPLETED"
    /\ healed' /\ Referenced /\ media'.orphaned # "no" => at'[Sweeper] = "unmark"
    /\ healed' /\ at'[Sweeper] = "mark" => ~Referenced
    /\ at'[Sweeper] = "remove" => seen'[Sweeper].keys = Recorded
    /\ at'[Sweeper] # "delete"

LEMMA SweepingKeeps ==
    ASSUME MediaInvariant, StepOf(Sweeper), Sweeper \in plot.active, Luck, SweepsWell, SameObjects, store' \in Stores,
           RowGoesOn, media'.status = media.status, RowFits', healed' \in BOOLEAN,
           UNCHANGED <<attempt, job, refs, used, taken>>
    PROVE  MediaInvariant'
<1> USE DEF MediaInvariant
<1>1. MayCome(Sweeper) /\ JobFits' /\ attempt' \in [Attempts -> AttemptRows] /\ used' \in BOOLEAN /\ taken' \in BOOLEAN
  BY DEF MayCome, JobFits, ImageOK, Standing
<1>2. ImageOK' /\ Standing'
  BY <1>1, TypesStay, StandingStays
<1>3. plot' = plot /\ age' = age /\ \A y \in Processes : y # Sweeper => at'[y] = at[y] /\ seen'[y] = seen[y]
  BY OthersStay DEF StepOf
<1>4. Claims'
  BY <1>3 DEF Claims, RowGoesOn, SweepsWell
<1>5. Markers'
  BY <1>3 DEF Markers, RowGoesOn, SweepsWell
<1>6. ObjectsKept' /\ UploadsKept'
  BY ObjectsStay, UploadsStay
<1>7. Ends'
  <2>1. Resting => Resting'
    BY RestStays
  <2>2. Recorded' = Recorded
    BY DEF Recorded
  <2>4. media'.claimed = media.claimed /\ (media'.orphaned = "old" => media.orphaned = "old")
        /\ store'.derived = store.derived /\ store'.flying = store.flying
        /\ (media.claimed => taken \/ store'.master = store.master)
    BY DEF RowGoesOn, SameObjects
  <2>5. ~Exists => taken \/ (~store'.master /\ store'.derived = {})
    BY <2>4 DEF Ends, Claims
  <2> QED BY <1>3, <2>1, <2>2, <2>4, <2>5 DEF Ends, SweepsWell
<1> QED BY <1>2, <1>4, <1>5, <1>6, <1>7

LEMMA SweeperLooksKeeps ==
    ASSUME MediaInvariant, sweepStaging \/ findMarked \/ findUnmarked \/ findStaleMedia \/ collectKeys
    PROVE  MediaInvariant'
<1>1. Sweeper \in plot.active /\ NoFault /\ UNCHANGED <<dataVars, refs, used, taken>> /\ (healed' = healed \/ healed' = TRUE)
  BY DEF sweepStaging, findMarked, findUnmarked, findStaleMedia, collectKeys, useVars, Wakes, MediaInvariant, Standing
<1>2. Luck /\ SameObjects /\ RowGoesOn /\ RowFits' /\ store' \in Stores /\ healed' \in BOOLEAN /\ media' = media
  BY <1>1, FaultsGetFewer DEF MediaInvariant, dataVars, SameObjects, RowGoesOn, RowFits, ImageOK
<1>3. StepOf(Sweeper) /\ SweepsWell
  <2>1. CASE sweepStaging
    <3>1. StepOf(Sweeper) /\ at'[Sweeper] \in {"drop", "heal"} /\ at[Sweeper] = "idle" /\ healed' = healed
      BY <2>1, GotoIsStep DEF sweepStaging, Wakes, MediaInvariant, useVars
    <3> QED BY <1>2, <3>1 DEF SweepsWell, MediaInvariant, Markers
  <2>2. CASE findMarked
    <3>1. StepOf(Sweeper) /\ (\/ at'[Sweeper] = "unmark" /\ media.status = "COMPLETED"
                              \/ at'[Sweeper] = "heal2" /\ (Referenced => media.orphaned = "no"))
      BY <2>2, GotoIsStep DEF findMarked, MediaInvariant, Markers
    <3> QED BY <1>2, <3>1 DEF SweepsWell
  <2>3. CASE findUnmarked
    <3>1. StepOf(Sweeper) /\ at[Sweeper] = "heal2" /\ healed' = healed
          /\ (at'[Sweeper] = "find" \/ (at'[Sweeper] = "mark" /\ media.status = "COMPLETED" /\ ~Referenced))
      BY <2>3, GotoIsStep DEF findUnmarked, MediaInvariant, useVars
    <3> QED BY <1>2, <3>1 DEF SweepsWell, MediaInvariant, Markers
  <2>4. CASE findStaleMedia
    <3>1. StepOf(Sweeper) /\ at[Sweeper] = "find" /\ healed' = healed /\ at'[Sweeper] \in {"claim", "idle"}
      BY <2>4, GotoIsStep DEF findStaleMedia, MediaInvariant, useVars
    <3> QED BY <1>2, <3>1 DEF SweepsWell, MediaInvariant, Markers
  <2>5. CASE collectKeys
    <3> DEFINE s1 == [NoSight EXCEPT !.keys = Recorded]
               s2 == [s1 EXCEPT !.staging = media.staging]
    <3>1. Recorded \in SUBSET Attempts /\ media.staging \in BOOLEAN
      BY DEF Recorded, MediaInvariant, ImageOK, MediaRows
    <3>2. s1 \in Sights
      BY <3>1, NoSightIsSight, SightsChange
    <3>3. s2 \in Sights
      <4> HIDE DEF s1
      <4> QED BY <3>1, <3>2, SightsChange
    <3>4. s2.keys = Recorded
      BY DEF NoSight
    <3>5. Go(Sweeper, "remove", s2) /\ at[Sweeper] = "collect" /\ healed' = healed
      BY <2>5 DEF collectKeys, NoSight, useVars
    <3>6. StepOf(Sweeper) /\ at'[Sweeper] = "remove" /\ seen'[Sweeper].keys = Recorded
      <4> HIDE DEF s2
      <4> QED BY <3>3, <3>4, <3>5, GoIsStep DEF MediaInvariant
    <3> QED BY <1>2, <3>5, <3>6 DEF SweepsWell, MediaInvariant, Markers, Claims
  <2> QED BY <2>1, <2>2, <2>3, <2>4, <2>5
<1> QED BY <1>1, <1>2, <1>3, SweepingKeeps DEF dataVars

LEMMA SweeperMarksKeeps ==
    ASSUME MediaInvariant, unmark \/ mark \/ forgetKey(Sweeper, "heal")
    PROVE  MediaInvariant'
<1>1. Sweeper \in plot.active /\ Luck /\ UNCHANGED <<attempt, store, job, useVars>> /\ media \in MediaRows
  BY FaultsGetFewer DEF unmark, mark, forgetKey, MediaInvariant, Standing, ImageOK
<1>2. StepOf(Sweeper) /\ at[Sweeper] \in {"unmark", "mark", "forget"} /\ at'[Sweeper] \in {"heal", "heal2"}
  BY GotoIsStep DEF unmark, mark, forgetKey, MediaInvariant
<1>3. /\ media' \in MediaRows /\ media'.status = media.status /\ media'.started = media.started
      /\ media'.claimed = media.claimed /\ media'.preview = media.preview /\ media'.display = media.display
      /\ media'.orphaned = media.orphaned \/ media'.orphaned = "no"
         \/ (media'.orphaned = "recent" /\ at[Sweeper] = "mark" /\ media.status = "COMPLETED")
  <2>1. CASE UNCHANGED media
    BY <1>1, <2>1
  <2>2. CASE media' = [media EXCEPT !.orphaned = "no"] \/ media' = [media EXCEPT !.staging = FALSE]
    BY <1>1, <2>2 DEF MediaRows
  <2>3. CASE media' = [media EXCEPT !.orphaned = "recent"] /\ at[Sweeper] = "mark"
    BY <1>1, <2>3 DEF MediaRows, MediaInvariant, Claims
  <2> QED BY <2>1, <2>2, <2>3 DEF unmark, mark, forgetKey
<1>4. SameObjects /\ RowGoesOn /\ RowFits' /\ store' \in Stores /\ healed' \in BOOLEAN
  BY <1>1, <1>3 DEF SameObjects, RowGoesOn, RowFits, MediaInvariant, ImageOK, useVars
<1>5. healed /\ Referenced => media'.orphaned = "no"
  <2>1. CASE at[Sweeper] = "unmark"
    <3>1. unmark /\ media.status = "COMPLETED"
      BY <2>1 DEF mark, forgetKey, MediaInvariant, Claims
    <3> QED BY <1>1, <3>1 DEF unmark, MediaRows
  <2>2. CASE at[Sweeper] = "mark"
    BY <2>2 DEF MediaInvariant, Markers
  <2>3. CASE at[Sweeper] = "forget"
    BY <1>3, <2>3 DEF MediaInvariant, Markers
  <2> QED BY <1>2, <2>1, <2>2, <2>3
<1>6. SweepsWell
  BY <1>1, <1>2, <1>5 DEF SweepsWell, useVars
<1> QED BY <1>1, <1>2, <1>3, <1>4, <1>6, SweepingKeeps DEF useVars

LEMMA SweeperDropsKeeps ==
    ASSUME MediaInvariant, removeObject(Sweeper, "heal")
    PROVE  MediaInvariant'
<1>1. Sweeper \in plot.active /\ Luck /\ UNCHANGED <<media, attempt, job, useVars>>
  BY FaultsGetFewer DEF removeObject, MediaInvariant, Standing
<1>2. StepOf(Sweeper) /\ at[Sweeper] = "drop" /\ at'[Sweeper] \in {"heal", "forget"}
  BY GotoIsStep DEF removeObject, MediaInvariant
<1>3. SameObjects /\ store' \in Stores
  BY DEF removeObject, SameObjects, MediaInvariant, ImageOK, Stores
<1>4. RowGoesOn /\ RowFits' /\ healed' \in BOOLEAN
  BY <1>1 DEF RowGoesOn, RowFits, MediaInvariant, ImageOK, useVars
<1>5. SweepsWell
  BY <1>1, <1>2 DEF SweepsWell, MediaInvariant, Markers, useVars
<1> QED BY <1>1, <1>2, <1>3, <1>4, <1>5, SweepingKeeps DEF useVars

(* The reclamation finds an image of which no upload is on its way, and    *)
(* that nobody works on, unless it was taken back from him.                *)
LEMMA ClaimingFindsRest ==
    ASSUME MediaInvariant, Eligible, Sweeper \in plot.active
    PROVE  (taken \/ (Resting /\ store.flying = {})) /\ media.status # "PROCESSING"
<1>1. taken \/ Resting
  BY DEF MediaInvariant, Ends, Eligible
<1>2. media.status # "PROCESSING"
  BY DEF MediaInvariant, Claims, Eligible
<1>3. CASE Exists
  <2>1. ASSUME NEW a \in store.flying PROVE FALSE
    <3>1. a \in Attempts /\ Unsettled(a)
      BY <1>3, <2>1 DEF MediaInvariant, UploadsKept, ImageOK, Stores, Unsettled
    <3> QED BY <3>1 DEF Eligible, Protected
  <2> QED BY <1>1, <1>2, <2>1
<1>4. CASE ~Exists
  BY <1>1, <1>2, <1>4 DEF MediaInvariant, Claims, Ends
<1> QED BY <1>3, <1>4

LEMMA claimUnreferencedKeeps ==
    ASSUME MediaInvariant, claimUnreferenced
    PROVE  MediaInvariant'
<1> USE DEF MediaInvariant
<1>1. Sweeper \in plot.active /\ Luck /\ UNCHANGED <<attempt, store, job, useVars>>
      /\ media \in MediaRows /\ at[Sweeper] = "claim"
  BY FaultsGetFewer DEF claimUnreferenced, Standing, ImageOK
<1>2. CASE UNCHANGED media /\ Goto(Sweeper, "idle")
  <2>1. StepOf(Sweeper) /\ at'[Sweeper] = "idle"
    BY <1>2, GotoIsStep
  <2>2. SweepsWell
    BY <1>1, <1>2, <2>1 DEF SweepsWell, Markers, useVars
  <2>3. RowGoesOn /\ RowFits' /\ SameObjects /\ store' \in Stores /\ healed' \in BOOLEAN /\ media' = media
    BY <1>1, <1>2 DEF RowGoesOn, RowFits, SameObjects, ImageOK, useVars
  <2> QED BY <1>1, <2>1, <2>2, <2>3, SweepingKeeps DEF useVars
<1>3. CASE /\ Exists /\ Eligible /\ ~Referenced
           /\ media' = [media EXCEPT !.claimed = TRUE] /\ Goto(Sweeper, "collect")
  <2>1. StepOf(Sweeper) /\ at'[Sweeper] = "collect"
    BY <1>3, GotoIsStep
  <2>2. (taken \/ (Resting /\ store.flying = {})) /\ media.status # "PROCESSING"
    BY <1>1, <1>3, ClaimingFindsRest
  <2>3. /\ media' \in MediaRows /\ media'.status = media.status /\ media'.started = media.started
        /\ media'.claimed /\ media'.orphaned = media.orphaned
    BY <1>1, <1>3 DEF MediaRows
  <2>4. MayCome(Sweeper) /\ RowFits' /\ JobFits' /\ store' \in Stores /\ attempt' \in [Attempts -> AttemptRows]
        /\ used' \in BOOLEAN /\ healed' \in BOOLEAN /\ taken' \in BOOLEAN
    BY <1>1, <2>3 DEF MayCome, RowFits, JobFits, ImageOK, Standing, useVars
  <2>5. ImageOK' /\ Standing'
    BY <1>1, <2>1, <2>4, TypesStay, StandingStays
  <2>6. plot' = plot /\ age' = age /\ \A y \in Processes : y # Sweeper => at'[y] = at[y] /\ seen'[y] = seen[y]
    BY <2>1, OthersStay DEF StepOf
  <2>7. Claims' /\ Markers'
    BY <1>1, <1>3, <2>1, <2>2, <2>3, <2>6 DEF Claims, Markers, useVars
  <2>8. Resting => Resting'
    BY <2>6 DEF Resting
  <2>9. ObjectsKept'
    <3>1. \A w \in Workers : WorksWell(w)'
      <4>1. \A w \in Workers : at'[w] = at[w] /\ seen'[w] = seen[w]
        BY <2>6
      <4> QED BY <1>1, <1>3, <2>3, <4>1 DEF ObjectsKept, WorksWell, HasMaster, Recorded
    <3>2. CleansWell'
      BY <1>1, <1>3, <2>3, <2>6 DEF ObjectsKept, CleansWell
    <3> QED BY <2>3, <3>1, <3>2 DEF ObjectsKept, ShownKept
  <2>10. UploadsKept'
    BY <1>1, <1>3, <2>2, <2>3 DEF UploadsKept, Recorded
  <2>11. Ends'
    <3> QED BY <1>1, <1>3, <2>1, <2>2, <2>3, <2>6, <2>8 DEF Ends, useVars
  <2> QED BY <2>5, <2>7, <2>9, <2>10, <2>11
<1> QED BY <1>2, <1>3 DEF claimUnreferenced

(* What a claimed image keeps is removed: the objects of all its attempts, *)
(* since none is entered any more, but by one from whom it was taken back. *)
LEMMA removeManyKeeps ==
    ASSUME MediaInvariant, removeMany
    PROVE  MediaInvariant'
<1> USE DEF MediaInvariant
<1>1. Sweeper \in plot.active /\ media.claimed /\ ~Referenced
      /\ (taken \/ (seen[Sweeper].keys = Recorded /\ Resting /\ store.flying = {}))
  BY DEF removeMany, Standing, Claims, Ends, Markers
<1>2. /\ StepOf(Sweeper) /\ Luck /\ UNCHANGED <<media, attempt, job, useVars>>
      /\ at'[Sweeper] \in {"delete", "idle"}
  BY GotoIsStep, FaultsGetFewer DEF removeMany
<1>3. /\ store' \in Stores /\ store'.derived \subseteq store.derived /\ store'.flying = store.flying
      /\ store'.master => store.master
      /\ at'[Sweeper] = "delete" => ~store'.master /\ store'.derived = store.derived \ seen[Sweeper].keys
  <2>1. store \in Stores
    BY DEF ImageOK
  <2>2. CASE Goto(Sweeper, "delete")
            /\ store' = [store EXCEPT !.master = FALSE, !.derived = @ \ seen[Sweeper].keys,
                                      !.staging = IF seen[Sweeper].staging THEN "none" ELSE @]
    <3> DEFINE left == IF seen[Sweeper].staging THEN "none" ELSE store.staging
    <3>1. store' = [staging |-> left, master |-> FALSE, derived |-> store.derived \ seen[Sweeper].keys,
                   flying |-> store.flying]
      BY <2>1, <2>2 DEF Stores
    <3>2. left \in {"none", "good", "bad"} /\ store.flying \in SUBSET Attempts /\ store.derived \in SUBSET Attempts
      BY <2>1 DEF Stores
    <3> HIDE DEF left
    <3> QED BY <3>1, <3>2 DEF Stores
  <2>3. CASE /\ Goto(Sweeper, "idle")
             /\ \/ store' = [store EXCEPT !.master = FALSE]
                \/ store' = [store EXCEPT !.derived = @ \ seen[Sweeper].keys]
    <3>1. at'[Sweeper] = "idle"
      BY <2>3, GotoIsStep
    <3>2. CASE store' = [store EXCEPT !.master = FALSE]
      BY <2>1, <3>1, <3>2 DEF Stores
    <3>3. CASE store' = [store EXCEPT !.derived = store.derived \ seen[Sweeper].keys]
      BY <2>1, <3>1, <3>3 DEF Stores
    <3> QED BY <2>3, <3>2, <3>3
  <2> QED BY <2>2, <2>3 DEF removeMany
<1>4. MayCome(Sweeper) /\ RowFits' /\ JobFits' /\ attempt' \in [Attempts -> AttemptRows]
      /\ used' \in BOOLEAN /\ healed' \in BOOLEAN /\ taken' \in BOOLEAN
  BY <1>1, <1>2 DEF MayCome, RowFits, JobFits, ImageOK, Standing, useVars
<1>5. ImageOK' /\ Standing'
  BY <1>2, <1>3, <1>4, TypesStay, StandingStays
<1>6. plot' = plot /\ age' = age /\ \A y \in Processes : y # Sweeper => at'[y] = at[y] /\ seen'[y] = seen[y]
  BY <1>2, OthersStay DEF StepOf
<1>7. Claims' /\ Markers'
  BY <1>1, <1>2, <1>6 DEF Claims, Markers, useVars
<1>8. (Resting => Resting') /\ Recorded' = Recorded
  BY <1>2, <1>6 DEF Resting, Recorded
<1>9. ObjectsKept'
  <2>1. \A w \in Workers : WorksWell(w)'
    <3>1. \A w \in Workers : at'[w] = at[w] /\ seen'[w] = seen[w]
      BY <1>6
    <3> QED BY <1>1, <1>2, <1>8, <3>1 DEF ObjectsKept, WorksWell, HasMaster
  <2> QED BY <1>1, <1>2, <1>6, <2>1 DEF ObjectsKept, ShownKept, CleansWell
<1>10. UploadsKept'
  BY <1>1, <1>2, <1>3, <1>8 DEF UploadsKept
<1>11. Ends'
  <2>1. store.derived \subseteq Attempts
    BY DEF ImageOK, Stores
  <2>2. at'[Sweeper] = "delete" \/ ~Exists => taken \/ (~store'.master /\ store'.derived = {})
    BY <1>1, <1>3, <2>1 DEF Ends, UploadsKept
  <2> QED BY <1>1, <1>2, <1>3, <1>6, <1>8, <2>2 DEF Ends, useVars
<1> QED BY <1>5, <1>7, <1>9, <1>10, <1>11

LEMMA deleteManyKeeps ==
    ASSUME MediaInvariant, deleteMany
    PROVE  MediaInvariant'
<1> USE DEF MediaInvariant
<1>1. Sweeper \in plot.active /\ media.claimed /\ ~Referenced
      /\ (taken \/ (Resting /\ store.flying = {} /\ ~store.master /\ store.derived = {}))
      /\ media.status # "PROCESSING" /\ media \in MediaRows
  BY DEF deleteMany, Standing, Claims, Ends, Markers, ImageOK
<1>2. /\ StepOf(Sweeper) /\ Luck /\ UNCHANGED <<store, job, useVars>> /\ at'[Sweeper] \in {"done", "idle"}
      /\ attempt' = [a \in Attempts |-> NoAttempt]
  BY FinishIsStep, FaultsGetFewer DEF deleteMany
<1>3. /\ media' \in MediaRows /\ media'.status = "GONE" /\ media'.started = media.started
      /\ media'.claimed /\ media'.orphaned = media.orphaned
  BY <1>1 DEF deleteMany, MediaRows
<1>4. attempt' \in [Attempts -> AttemptRows]
  BY <1>2 DEF NoAttempt, AttemptRows
<1>5. MayCome(Sweeper) /\ RowFits' /\ JobFits' /\ store' \in Stores /\ used' \in BOOLEAN /\ healed' \in BOOLEAN /\ taken' \in BOOLEAN
  BY <1>1, <1>2, <1>3 DEF MayCome, RowFits, JobFits, ImageOK, Standing, useVars
<1>6. ImageOK' /\ Standing'
  BY <1>2, <1>4, <1>5, TypesStay, StandingStays
<1>7. plot' = plot /\ age' = age /\ \A y \in Processes : y # Sweeper => at'[y] = at[y] /\ seen'[y] = seen[y]
  BY <1>2, OthersStay DEF StepOf
<1>8. Claims' /\ Markers'
  BY <1>1, <1>2, <1>3, <1>7 DEF Claims, Markers, useVars
<1>9. Resting => Resting'
  BY <1>7 DEF Resting
<1>10. ObjectsKept'
  <2>1. \A w \in Workers : WorksWell(w)'
    <3>1. \A w \in Workers : at'[w] = at[w] /\ seen'[w] = seen[w]
      BY <1>7
    <3> QED BY <1>3, <3>1 DEF ObjectsKept, WorksWell
  <2> QED BY <1>3, <1>7, <2>1 DEF ObjectsKept, ShownKept, CleansWell
<1>11. UploadsKept'
  BY <1>1, <1>2, <1>3 DEF UploadsKept
<1>12. Ends'
  <2> QED BY <1>1, <1>2, <1>3, <1>7, <1>9 DEF Ends, useVars
<1> QED BY <1>6, <1>8, <1>10, <1>11, <1>12

-------------------------------------------------------------------------------
(* The invariant holds *)

LEMMA StoriesBegin ==
    ASSUME ImageInit
    PROVE  MediaInvariant
<1>1. plot \in Plots /\ BeginsWell(plot)
  BY StoriesAssumption DEF ImageInit
<1>2. /\ media \in MediaRows /\ media.status # "GONE" /\ ~media.claimed
      /\ (media.status = "PROCESSING" <=> media.started # "none")
      /\ (media.orphaned # "no" => media.orphaned = "recent" /\ media.status = "COMPLETED")
      /\ (media.status = "COMPLETED" => store.master)
      /\ (refs # {} => media.status = "COMPLETED")
  BY <1>1 DEF ImageInit, BeginsWell
<1>3. /\ age \in {"young", "day", "week"} /\ (age = "week" => media.status \in {"COMPLETED", "FAILED"})
      /\ attempt \in [Attempts -> AttemptRows] /\ store \in Stores /\ faults \in Nat
      /\ job \in Jobs /\ job.state # "active" /\ job.owner = Nobody /\ (job.state = "waiting" => job.made <= 1)
      /\ used = TRUE /\ healed = FALSE /\ taken = FALSE
  BY <1>1 DEF ImageInit, BeginsWell
<1>4. /\ at = [x \in Processes |-> IF x \in Requests THEN "new" ELSE "idle"]
      /\ seen = [x \in Processes |-> NoSight]
  BY DEF ImageInit
<1>5. /\ \A x \in Processes : at[x] \in {"new", "idle"} /\ seen[x] \in Sights
      /\ \A r \in Requests : at[r] = "new"
      /\ at[Sweeper] = "idle"
      /\ at[Cleaner] # "clean"
  BY <1>4, NoSightIsSight
<1>6. Resting
  BY <1>5 DEF Resting, WorkPlaces
<1>7. ImageOK
  BY <1>2, <1>3, <1>4, NoSightIsSight DEF ImageOK
<1>8. Standing /\ Claims /\ Markers
  BY <1>1, <1>2, <1>3, <1>4, <1>5 DEF Standing, Claims, Markers
<1>9. ObjectsKept
  <2>1. \A w \in Workers : WorksWell(w)
    BY <1>5 DEF WorksWell, HasMaster
  <2>2. ShownKept
    BY <1>1, <1>2 DEF ImageInit, BeginsWell, ShownKept
  <2> QED BY <1>5, <2>1, <2>2 DEF ObjectsKept, CleansWell
<1>10. UploadsKept
  <2>1. store.derived \subseteq Attempts
    BY <1>3 DEF Stores
  <2> QED BY <1>1, <2>1 DEF ImageInit, BeginsWell, UploadsKept, Recorded
<1>11. Ends
  BY <1>2, <1>3, <1>5, <1>6 DEF Ends
<1> QED BY <1>7, <1>8, <1>9, <1>10, <1>11 DEF MediaInvariant

LEMMA RequestStepsKeep ==
    ASSUME MediaInvariant, NEW r \in Requests, put(r) \/ ConfirmSteps(r) \/ ReferenceSteps(r) \/ BackfillSteps(r)
    PROVE  MediaInvariant'
<1>1. CASE put(r) \/ ConfirmSteps(r)
  BY <1>1, putKeeps, readConfirmKeeps, headKeeps, invalidateKeeps, promoteKeeps, enqueueKeeps, rollbackKeeps,
     removeObjectKeeps, forgetKeyKeeps DEF ConfirmSteps
<1>2. CASE ReferenceSteps(r)
  BY <1>2, readAttachKeeps, readDetachKeeps, ReferencesKeep DEF ReferenceSteps
<1>3. CASE BackfillSteps(r)
  BY <1>3, readHistoricalKeeps, leaseHistoricalKeeps, downloadKeeps, registerDisplayKeeps, publishDisplayKeeps,
     abandonDisplayKeeps, giveBackKeeps DEF BackfillSteps
<1> QED BY <1>1, <1>2, <1>3

LEMMA TimersKeep ==
    ASSUME MediaInvariant, RecoverySteps \/ SweeperSteps \/ CleanerSteps
    PROVE  MediaInvariant'
<1>1. CASE RecoverySteps
  BY <1>1, RecoveryLooksKeeps, requeueKeeps, stampKeeps, markFailedKeeps, removeObjectKeeps, forgetKeyKeeps
     DEF RecoverySteps
<1>2. CASE SweeperSteps
  BY <1>2, SweeperLooksKeeps, SweeperMarksKeeps, SweeperDropsKeeps, claimUnreferencedKeeps, removeManyKeeps,
     deleteManyKeeps DEF SweeperSteps
<1>3. CASE CleanerSteps
  BY <1>3, claimAttemptKeeps, cleanAttemptKeeps DEF CleanerSteps
<1> QED BY <1>1, <1>2, <1>3

LEMMA StepsKeep ==
    ASSUME MediaInvariant, ImageNext
    PROVE  MediaInvariant'
<1>1. CASE \E r \in Requests : put(r) \/ ConfirmSteps(r) \/ ReferenceSteps(r) \/ BackfillSteps(r)
  BY <1>1, RequestStepsKeep
<1>2. CASE (\E w \in Workers : WorkerSteps(w) \/ loseJob(w)) \/ forgetJob
  BY <1>2, WorkerStepsKeep, forgetJobKeeps
<1>3. CASE RecoverySteps \/ SweeperSteps \/ CleanerSteps
  BY <1>3, TimersKeep
<1>4. CASE \E a \in Attempts : land(a) \/ lose(a) \/ expire(a)
  BY <1>4, landKeeps, loseKeeps, expireKeeps
<1>5. CASE processTooLong \/ lapse \/ dayPasses \/ weekPasses
  BY <1>5, RowAgesKeeps, dayPassesKeeps, weekPassesKeeps
<1> QED BY <1>1, <1>2, <1>3, <1>4, <1>5 DEF ImageNext

THEOREM MediaHolds == ImageSpec => []MediaInvariant
<1>1. ASSUME MediaInvariant, UNCHANGED imageVars PROVE MediaInvariant'
  BY <1>1 DEF imageVars, dataVars, useVars, MediaInvariant, ImageOK, Standing, Claims, Markers, ObjectsKept, ShownKept,
     WorksWell, HasMaster, CleansWell, Recorded, MayPublish, UploadsKept, Ends, Resting
<1>2. ASSUME MediaInvariant, [ImageNext]_imageVars PROVE MediaInvariant'
  BY <1>1, <1>2, StepsKeep
<1> QED BY StoriesBegin, <1>2, PTL DEF ImageSpec

(* What refers to an image finds it complete, with its master, and not     *)
(* claimed by the reclamation; what the row of a completed image shows is  *)
(* in the storage; and an image that is gone leaves no object and no       *)
(* upload behind, unless a confirmation that the queue failed took it back *)
(* from a worker at work (ImageHolds), whatever fails, comes late or comes *)
(* twice.                                                                  *)
THEOREM ImagesAreWhole == ImageSpec => []ImageHolds
<1>1. ASSUME MediaInvariant PROVE ImageHolds
  BY <1>1 DEF MediaInvariant, ImageHolds, ReferencedStays, ShownIsStored, GoneLeavesNothing,
     Claims, Markers, ObjectsKept, ShownKept, Ends
<1> QED BY <1>1, MediaHolds, PTL

-------------------------------------------------------------------------------
(* The grace of seven days *)

(* Only the reclamation claims an image. *)
LEMMA OnlyTheSweeperClaims ==
    ASSUME ImageOK, ImageNext
    PROVE  media'.claimed = media.claimed \/ (claimUnreferenced /\ Eligible)
<1>1. media \in MediaRows
  BY DEF ImageOK
<1>2. CASE \E r \in Requests : put(r) \/ ConfirmSteps(r)
  <2>1. PICK r \in Requests : put(r) \/ ConfirmSteps(r)
    BY <1>2
  <2>2. \/ UNCHANGED media
        \/ media' = [media EXCEPT !.status = "FAILED"]
        \/ media' = [media EXCEPT !.status = "PROCESSING", !.started = "fresh"]
        \/ media' = [media EXCEPT !.status = "UPLOADING", !.started = "none"]
        \/ media' = [media EXCEPT !.staging = FALSE]
    BY <2>1 DEF put, ConfirmSteps, readConfirm, head, invalidate, promote, enqueueProcessing, rollback, removeObject,
       forgetKey, dataVars
  <2> QED BY <1>1, <2>2 DEF MediaRows
<1>3. CASE \E r \in Requests : ReferenceSteps(r)
  BY <1>1, <1>3 DEF ReferenceSteps, readAttach, attach, readDetach, detach, cascade, Refer, dataVars, MediaRows
<1>4. CASE \E r \in Requests : BackfillSteps(r)
  <2>1. PICK r \in Requests : BackfillSteps(r)
    BY <1>4
  <2>2. CASE readHistorical(r) \/ leaseHistorical(r) \/ giveBack(r)
    BY <1>1, <2>2 DEF readHistorical, leaseHistorical, giveBack, dataVars, MediaRows
  <2>3. CASE publishDisplay(r)
    BY <1>1, <2>3 DEF publishDisplay, dataVars, MediaRows
  <2>4. CASE download(r) \/ registerDisplay(r) \/ abandonDisplay(r)
    BY <2>4 DEF download, registerDisplay, abandonDisplay, Fails, dataVars
  <2> QED BY <2>1, <2>2, <2>3, <2>4 DEF BackfillSteps
<1>5. CASE (\E w \in Workers : WorkerSteps(w) \/ loseJob(w)) \/ forgetJob
  <2>1. CASE forgetJob
    BY <2>1 DEF forgetJob
  <2>2. CASE \E w \in Workers : WorkerSteps(w) \/ loseJob(w)
    <3>1. PICK w \in Workers : WorkerSteps(w) \/ loseJob(w)
      BY <2>2
    <3>2. CASE completeMediaWithPreviews(w)
      <4> DEFINE publishes == seen[w].attempt # 0 /\ MayPublish(seen[w].attempt)
                 shown == IF publishes THEN seen[w].attempt ELSE 0
      <4>1. \/ UNCHANGED media
            \/ media' = [media EXCEPT !.status = "COMPLETED", !.started = "none", !.orphaned = "recent", !.preview = shown]
        BY <3>2 DEF completeMediaWithPreviews
      <4> HIDE DEF shown
      <4> QED BY <1>1, <4>1 DEF MediaRows
    <3>3. CASE publishDisplay(w)
      BY <1>1, <3>3 DEF publishDisplay, dataVars, MediaRows
    <3>6. CASE download(w) \/ registerDisplay(w) \/ abandonDisplay(w)
      BY <3>6 DEF download, registerDisplay, abandonDisplay, Fails, dataVars
    <3>4. CASE begin(w) \/ upload(w) \/ stagePreviews(w) \/ endPreviews(w) \/ succeedJob(w) \/ failJob(w) \/ loseJob(w)
      BY <3>4 DEF begin, upload, stagePreviews, endPreviews, succeedJob, failJob, loseJob, Fails, dataVars
    <3>5. CASE markFailed(w, "failed") \/ removeObject(w, EndOf(w)) \/ forgetKey(w, EndOf(w))
      BY <1>1, <3>5 DEF markFailed, removeObject, forgetKey, MediaRows
    <3> QED BY <3>1, <3>2, <3>3, <3>4, <3>5, <3>6 DEF WorkerSteps
  <2> QED BY <1>5, <2>1, <2>2
<1>6. CASE RecoverySteps \/ CleanerSteps
  BY <1>1, <1>6 DEF RecoverySteps, findStale, reconcileOne, requeue, stamp, markFailed, removeObject, forgetKey,
     CleanerSteps, claimAttempt, cleanAttempt, dataVars, MediaRows
<1>7. CASE SweeperSteps
  <2>1. CASE claimUnreferenced
    BY <1>1, <2>1 DEF claimUnreferenced
  <2>2. CASE removeObject(Sweeper, "heal") \/ forgetKey(Sweeper, "heal") \/ deleteMany \/ removeMany
    BY <1>1, <2>2 DEF removeObject, forgetKey, deleteMany, removeMany, MediaRows
  <2>3. CASE findMarked \/ unmark \/ findUnmarked \/ mark
    BY <1>1, <2>3 DEF findMarked, unmark, findUnmarked, mark, dataVars, MediaRows
  <2>4. CASE sweepStaging \/ findStaleMedia \/ collectKeys
    BY <2>4 DEF sweepStaging, findStaleMedia, collectKeys, dataVars
  <2> QED BY <1>7, <2>1, <2>2, <2>3, <2>4 DEF SweeperSteps
<1>8. CASE (\E a \in Attempts : land(a) \/ lose(a) \/ expire(a)) \/ processTooLong \/ lapse \/ dayPasses \/ weekPasses
  BY <1>1, <1>8 DEF land, lose, expire, processTooLong, lapse, dayPasses, weekPasses, MediaRows
<1> QED BY <1>2, <1>3, <1>4, <1>5, <1>6, <1>7, <1>8 DEF ImageNext

(* A completed image is claimed only when nothing has referred to it for a *)
(* week (GraceHolds), though its marker may have been wrong in between.    *)
THEOREM OrphansHaveAWeek == ImageSpec => GraceHolds
<1>1. ASSUME MediaInvariant, [ImageNext]_imageVars, ~media.claimed, media'.claimed, media.status = "COMPLETED"
      PROVE  ~used
  <2>1. media' # media
    BY <1>1
  <2>2. ImageNext
    BY <1>1, <2>1 DEF imageVars, dataVars
  <2>3. Eligible
    BY <1>1, <2>2, OnlyTheSweeperClaims DEF MediaInvariant
  <2>4. media.orphaned = "old"
    BY <1>1, <2>3 DEF Eligible
  <2> QED BY <1>1, <2>4 DEF MediaInvariant, Markers
<1> QED BY <1>1, MediaHolds, PTL DEF ImageSpec, GraceHolds
===============================================================================
