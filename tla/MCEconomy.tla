------------------------------- MODULE MCEconomy -------------------------------
(***************************************************************************)
(* Two users, a and b, who check in, tip, block and leave.                 *)
(***************************************************************************)
EXTENDS Economy

CONSTANTS a, b, platform, m, th

MCOwner == (m :> b) @@ (th :> b)

MCThresholds == <<0, 2, 5>>
MCRules == [DAILY_CHECK_IN |-> [delta |-> 2, dailyCap |-> 1, counter |-> "checkInCount"]]

Tip(id, u, kind, target, v, amount, key) ==
    [id |-> id, sender |-> u, kind |-> kind, target |-> target, recipient |-> v,
     amount |-> amount, key |-> key]

Plot(requests, days, acting, blocks, hiding, closing) ==
    [requests |-> requests, days |-> days, acting |-> acting, blocks |-> blocks, hiding |-> hiding, closing |-> closing]

(* A request and its retry by the client, and a tip in return. *)
Once == Tip(1, a, "MOMENT", m, b, 2, "k")
Again == Tip(2, a, "MOMENT", m, b, 2, "k")
Return == Tip(3, b, "USER", m, a, 2, "k")

(* One request id used for two things. *)
OnThread == Tip(4, a, "THREAD", th, b, 2, "k")
Reused == Tip(5, a, "USER", th, b, 2, "k")

(* A tip of too little, and one to oneself. *)
TooLittle == Tip(6, b, "USER", m, a, 1, "l")
ToOneself == Tip(7, b, "MOMENT", m, b, 2, "n")

MCRequests == {Once, Again, Return, OnThread, Reused, TooLittle, ToOneself}

(* The reuse while the sender blocks, or the owner hides the thread. *)
MCReused == Plot({OnThread, Reused}, 1, {}, {<<a, b>>}, {th}, {})

MCPlots ==
    {Plot({Once, Again, Return}, 1, {}, {}, {}, {}),
     MCReused,
     Plot({Once, TooLittle, ToOneself}, 2, {a, b}, {}, {}, {b})}
===============================================================================
