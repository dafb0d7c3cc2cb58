------------------------------- MODULE MCOutbox -------------------------------
(***************************************************************************)
(* Instances of the outbox for TLC.  e1 has two listeners, e2 one, and      *)
(* "bad" is an event whose payload is rejected each time it is delivered.  *)
(***************************************************************************)
EXTENDS Outbox

CONSTANTS e1, e2, bad, l1, l2, d1, d2

MCListenersOf == [e \in Events |-> IF e = e1 THEN {l1, l2} ELSE {l1}]

Cast(dispatchers, events) == [dispatchers |-> dispatchers, events |-> events]

(* Two dispatchers at one event, two at two events, and one at two. *)
MCCasts == {Cast({d1, d2}, {e1}), Cast({d1, d2}, {e2, bad}), Cast({d1}, {e1, bad})}
===============================================================================
