--------------------------- MODULE DeliveryContract ---------------------------
(***************************************************************************)
(* What the transactional outbox promises to the business code that writes *)
(* an event into it: an event that was committed is owed to every listener *)
(* of its type until all of them have carried it out, and only then may it *)
(* be settled.  Nothing is said about how often a listener carries an      *)
(* event out: delivery is at least once.                                   *)
(***************************************************************************)
CONSTANTS
    Events,       \* the event keys the business transactions use
    ListenersOf   \* ListenersOf[e]: the listeners registered for e's type

VARIABLES
    owed,         \* events committed and not yet settled
    settled,      \* events the outbox has acknowledged
    carried       \* pairs <<e, l>>: listener l has completed e at least once

cvars == <<owed, settled, carried>>

Init ==
    /\ owed = {}
    /\ settled = {}
    /\ carried = {}

(* A business transaction commits an event. *)
Owe(e) ==
    /\ e \notin owed \cup settled
    /\ owed' = owed \cup {e}
    /\ UNCHANGED <<settled, carried>>

(* A listener completes an event that was committed. *)
Carry(e, l) ==
    /\ e \in owed \cup settled
    /\ l \in ListenersOf[e]
    /\ carried' = carried \cup {<<e, l>>}
    /\ UNCHANGED <<owed, settled>>

(* An event is settled only when every listener has completed it. *)
Settle(e) ==
    /\ e \in owed
    /\ ListenersOf[e] # {}
    /\ \A l \in ListenersOf[e] : <<e, l>> \in carried
    /\ owed' = owed \ {e}
    /\ settled' = settled \cup {e}
    /\ UNCHANGED carried

Next == \E e \in Events : Owe(e) \/ Settle(e) \/ \E l \in ListenersOf[e] : Carry(e, l)

Spec == Init /\ [][Next]_cvars
===============================================================================
