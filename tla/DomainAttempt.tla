---------------------------- MODULE DomainAttempt ----------------------------
(***************************************************************************)
(* What an attempt at delivering a message to one domain promises to the   *)
(* queue: in one step the domain gets a status and a retry time, and its   *)
(* recipients the outcome of at most one session, or the domain is put off *)
(* by a rate limit.  QueueSpool's workers take this step for each due      *)
(* domain; OutboundDelivery implements it.                                 *)
(***************************************************************************)
EXTENDS QueueMessage

CONSTANTS
    Target,       \* the domain
    Now,          \* the time of the attempt
    Starts,       \* messages with Target due
    Replies,      \* statuses a server may give a recipient
    RateDelays    \* delays a rate limiter may impose

VARIABLES
    msg,    \* the message
    got,    \* recipients this attempt delivered to
    done    \* the attempt is over

avars == <<msg, got, done>>

Init == msg \in Starts /\ got = {} /\ done = FALSE

Attempt ==
    /\ ~done /\ done' = TRUE
    /\ \E res \in AttemptResults(msg, Target, Now, Replies, RateDelays) :
         msg' = res.msg /\ got' = res.got

Spec == Init /\ [][Attempt]_avars
=============================================================================
