----------------------------- MODULE MCSpoolLife -----------------------------
(***************************************************************************)
(* Two small instances of QueueSpool in one run: "delivery" has one        *)
(* message for two domains whose recipients succeed, fail or are rate      *)
(* limited; "manager" has two messages for a manager at its thread limit,  *)
(* whose scans are shuffled, with a pause and one failure of a lock or a   *)
(* scan, a shutdown or a crash.  part is chosen at the start.              *)
(***************************************************************************)
EXTENDS MCQueueSpool

VARIABLE part

Busy == INSTANCE QueueSpool WITH
    QueueId <- {q1, q2}, Envelopes <- {[Plain EXCEPT !.rcpts = {r3}, !.notify = {"delay"}]},
    ExpireIn <- 2, ShuffleAbove <- 1, Replies <- {"Completed"}, RateDelays <- {},
    ApiOps <- {"status"}, MaxApi <- 1,
    Faults <- {"lock", "scan", "stop", "restart"}, MaxFaults <- 1, MaxTime <- 3,
    ManagersLag <- TRUE

LifeInit == \/ part = "delivery" /\ Init
            \/ part = "manager" /\ Busy!Init

LifeNext == \/ part = "delivery" /\ Next /\ UNCHANGED part
            \/ part = "manager" /\ Busy!Next /\ UNCHANGED part

LifeSpec == LifeInit /\ [][LifeNext]_<<vars, part>>
===============================================================================
