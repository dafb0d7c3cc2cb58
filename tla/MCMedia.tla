-------------------------------- MODULE MCMedia --------------------------------
(***************************************************************************)
(* The stories of an image: its upload, its processing, its use, the       *)
(* conversion of a historical one, and what is left of failures.           *)
(***************************************************************************)
EXTENDS Media

CONSTANTS w1, w2

Command(id, op, value, by) == [id |-> id, op |-> op, value |-> value, by |-> by]
Confirm(id) == Command(id, "confirm", "-", "-")
Put(id, value) == Command(id, "put", value, "-")
Use(id, op, by) == Command(id, op, "-", by)
Backfill(id) == Command(id, "display-backfill", "-", "-")

NewMedia ==
    [status |-> "UPLOADING", claimed |-> FALSE, staging |-> TRUE, started |-> "none", orphaned |-> "no",
     preview |-> 0, display |-> 0, lease |-> "none", tries |-> 0]
NoJob == [state |-> "missing", made |-> 0, stalls |-> 0, owner |-> Nobody]
NoAttempts == [a \in Attempts |-> NoAttempt]
Empty == [staging |-> "none", master |-> FALSE, derived |-> {}, flying |-> {}]

Story ==
    [media |-> NewMedia, age |-> "young", attempt |-> NoAttempts, store |-> Empty, job |-> NoJob,
     refs |-> {}, animated |-> FALSE, requests |-> {}, active |-> {}, faults |-> 0]

Completed == [NewMedia EXCEPT !.status = "COMPLETED", !.staging = FALSE, !.orphaned = "recent"]

(* A client uploads once more and confirms twice. *)
MCUpload ==
    [Story EXCEPT !.store = [Empty EXCEPT !.staging = "bad"],
                  !.requests = {Put(2, "good"), Confirm(3), Confirm(4)},
                  !.active = {w1, Recovery, Redis}, !.faults = 1]

(* An animation is processed, by two workers when the first loses its job. *)
MCProcess ==
    [Story EXCEPT !.media = [NewMedia EXCEPT !.status = "PROCESSING", !.started = "fresh"],
                  !.store = [Empty EXCEPT !.staging = "good"],
                  !.job = [NoJob EXCEPT !.state = "waiting"],
                  !.animated = TRUE, !.active = {w1, w2, Cleaner}, !.faults = 1]

(* A completed image is used and abandoned while the daily run looks at it. *)
MCUse ==
    [Story EXCEPT !.media = Completed, !.store = [Empty EXCEPT !.master = TRUE],
                  !.requests = {Use(5, "attach", "post"), Use(6, "attach", "avatar"), Use(7, "detach", "post"),
                                Use(8, "cascade", "avatar"), Use(9, "attach", "draft")},
                  !.active = {Sweeper}, !.faults = 1]

(* A historical animation is converted, and abandoned. *)
MCHistorical ==
    [Story EXCEPT !.media = Completed, !.store = [Empty EXCEPT !.master = TRUE], !.animated = TRUE,
                  !.requests = {Backfill(10), Use(5, "attach", "post")}, !.active = {Cleaner, Sweeper}, !.faults = 1]

(* Two executions of its conversion. *)
MCTwice ==
    [MCHistorical EXCEPT !.requests = {Backfill(10), Backfill(11)}, !.active = {Cleaner}, !.faults = 0]

(* An image is processed whose job is lost. *)
MCLost ==
    [MCProcess EXCEPT !.animated = FALSE, !.active = {w1, w2, Recovery, Redis}, !.faults = 2]

(* Nobody confirms, or only after a day, when the queue may fail. *)
MCAbandoned ==
    [Story EXCEPT !.requests = {Put(2, "good"), Confirm(3)}, !.active = {w1, Recovery, Sweeper}, !.faults = 1]

(* An image has failed and left objects behind. *)
MCFailed ==
    [Story EXCEPT !.media = [NewMedia EXCEPT !.status = "FAILED"],
                  !.store = [staging |-> "good", master |-> TRUE, derived |-> {1}, flying |-> {2}],
                  !.attempt = [a \in Attempts |->
                                 [NoAttempt EXCEPT !.status = "PENDING", !.expiry = IF a = 1 THEN "expired" ELSE "live"]],
                  !.animated = TRUE, !.active = {Cleaner, Sweeper}, !.faults = 1]

MCPlots == {MCUpload, MCProcess, MCUse, MCHistorical, MCTwice, MCLost, MCAbandoned, MCFailed}
===============================================================================
