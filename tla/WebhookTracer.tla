------------------------------ MODULE WebhookTracer ------------------------------
(***************************************************************************)
(* A tracer that posts events to a webhook, in batches and at intervals.   *)
(*                                                                         *)
(*   crates/common/src/telemetry/webhooks/mod.rs                           *)
(*                                                                         *)
(* Events come from the collector (module EventChannel); a post is a task  *)
(* of its own that sends the events back when it fails.  Time is in ticks. *)
(***************************************************************************)
EXTENDS Integers, FiniteSets, Sequences, SequencesExt

CONSTANTS
    Event,
    Throttle,     \* between two deliveries
    DiscardAfter, \* the age at which events are stale
    PostTime,     \* the longest a post takes
    MaxFails      \* posts that fail, with or without the webhook getting them

WebhookAssumption ==
    {Throttle, DiscardAfter, PostTime} \subseteq Nat \ {0} /\ MaxFails \in Nat

Never == -1   \* LONG_SLUMBER
Post == 1..Cardinality(Event)

VARIABLES
    age,       \* of an event since it happened; Never: it has not
    channel,   \* batches for the tracer
    pending,   \* pending_events
    next, wake, \* ticks until next_delivery; until the loop wakes up, or Never
    inFlight,
    post,      \* the tasks that post: pc, events and how long they have run
    got,       \* what the webhook has got, and how often
    discarded, fails

loop == <<pending, next, wake>>
vars == <<age, channel, loop, inFlight, post, got, discarded, fails>>

NoPost == [pc |-> "none", events |-> {}, time |-> 0]

Init ==
    /\ age = [e \in Event |-> Never] /\ channel = <<>> /\ pending = {} /\ next = 0 /\ wake = Never
    /\ inFlight = FALSE /\ post = [p \in Post |-> NoPost] /\ got = [e \in Event |-> 0] /\ discarded = {} /\ fails = 0

\* An event happens and is sent to the tracer.
Happen(e) ==
    /\ age[e] = Never /\ age' = [age EXCEPT ![e] = 0] /\ channel' = Append(channel, {e})
    /\ UNCHANGED <<loop, inFlight, post, got, discarded, fails>>

-------------------------------------------------------------------------------
(* The loop of spawn_webhook_tracer. *)

\* When does the loop wake up, with p pending and n ticks to the next delivery?
WakeAt(p, n) == IF p # {} /\ n > 0 THEN n ELSE Never

NextDelivery == Throttle

\* What is pending once a post has taken p.
Left(p) == {}

\* Process what is pending.
Process(p) ==
    \/ /\ next = 0 /\ p # {} /\ ~inFlight
       /\ \E t \in Post : post[t] = NoPost /\ post' = [post EXCEPT ![t] = [pc |-> "start", events |-> p, time |-> 0]]
       /\ next' = NextDelivery /\ pending' = Left(p) /\ wake' = Never
    \/ /\ next = 0 /\ p # {} /\ inFlight
       /\ next' = NextDelivery /\ pending' = p /\ wake' = Never /\ UNCHANGED post
    \/ /\ next > 0 \/ p = {}
       /\ pending' = p /\ wake' = WakeAt(p, next) /\ UNCHANGED <<next, post>>

Receive ==
    LET fresh == {e \in Head(channel) : age[e] < DiscardAfter} IN
    /\ channel # <<>> /\ channel' = Tail(channel)
    /\ discarded' = discarded \cup (Head(channel) \ fresh)
    /\ Process(pending \cup fresh) /\ UNCHANGED <<age, inFlight, got, fails>>

Timeout ==
    /\ wake = 0 /\ Process(pending) /\ UNCHANGED <<age, channel, inFlight, got, discarded, fails>>

-------------------------------------------------------------------------------
(* spawn_webhook_handler. *)

Start(t) ==
    /\ post[t].pc = "start" /\ post' = [post EXCEPT ![t].pc = "post"] /\ inFlight' = TRUE
    /\ UNCHANGED <<age, channel, loop, got, discarded, fails>>

Gets(t) == got' = [e \in Event |-> IF e \in post[t].events THEN got[e] + 1 ELSE got[e]]

\* The post succeeds, fails, or the answer is lost.
Answer(t) ==
    /\ post[t].pc = "post"
    /\ \/ Gets(t) /\ post' = [post EXCEPT ![t].pc = "end"] /\ UNCHANGED fails
       \/ /\ fails < MaxFails /\ fails' = fails + 1 /\ (Gets(t) \/ UNCHANGED got)
          /\ post' = [post EXCEPT ![t].pc = "back"]
    /\ UNCHANGED <<age, channel, loop, inFlight, discarded>>

SendBack(t) ==
    /\ post[t].pc = "back" /\ post' = [post EXCEPT ![t].pc = "end"] /\ channel' = Append(channel, post[t].events)
    /\ UNCHANGED <<age, loop, inFlight, got, discarded, fails>>

End(t) ==
    /\ post[t].pc = "end" /\ post' = [post EXCEPT ![t] = NoPost] /\ inFlight' = FALSE
    /\ UNCHANGED <<age, channel, loop, got, discarded, fails>>

PostStep(t) == Start(t) \/ Answer(t) \/ SendBack(t) \/ End(t)

\* Time passes once the loop has done what is due; a post ends within PostTime.
Tick ==
    /\ channel = <<>> /\ wake # 0 /\ \A t \in Post : post[t].time < PostTime
    /\ age' = [e \in Event |-> IF age[e] \in 0..DiscardAfter - 1 THEN age[e] + 1 ELSE age[e]]
    /\ next' = (IF next > 0 THEN next - 1 ELSE 0) /\ wake' = IF wake > 0 THEN wake - 1 ELSE wake
    /\ post' = [t \in Post |-> IF post[t].pc # "none" THEN [post[t] EXCEPT !.time = @ + 1] ELSE post[t]]
    /\ UNCHANGED <<channel, pending, inFlight, got, discarded, fails>>

Next ==
    \/ \E e \in Event : Happen(e)
    \/ Receive \/ Timeout \/ Tick
    \/ \E t \in Post : PostStep(t)

\* The loop and the posts run, and time passes.
Spec == /\ Init /\ [][Next]_vars /\ WF_vars(Receive) /\ WF_vars(Timeout) /\ WF_vars(Tick)
        /\ \A t \in Post : WF_vars(PostStep(t))

-------------------------------------------------------------------------------
(* Properties. *)

\* Posts that end before the next delivery is due are made one at a time (in_flight).
OneInFlight == Cardinality({t \in Post : post[t].pc # "none"}) <= 1

\* In the end every event that happened has reached the webhook or was discarded as stale, whatever posts fail.
Settled == \A e \in Event : age[e] # Never => got[e] > 0 \/ e \in discarded
Told == <>[]Settled
================================================================================
