------------------------------ MODULE PushManager ------------------------------
(***************************************************************************)
(* The push manager: state changes are sent to the URLs of subscriptions,  *)
(* grouped, throttled and tried again.                                     *)
(*                                                                         *)
(*   crates/jmap/src/push/manager.rs                                       *)
(*                                                                         *)
(* A state change is the number of the state.  Times are ages, counted up  *)
(* to one tick past the longest interval; no later age makes a difference. *)
(***************************************************************************)
EXTENDS Integers, FiniteSets, Sequences, SequencesExt

CONSTANTS
    Id,              \* subscriptions
    MaxChanges,      \* state changes published
    MaxFails,        \* requests that fail
    MaxUpdates,      \* registrations and their ends
    Throttle, AttemptInterval, RetryInterval, AttemptsMax \* push_throttle, ...

PushAssumption ==
    /\ {MaxChanges, MaxFails, MaxUpdates} \subseteq Nat
    /\ {Throttle, AttemptInterval, RetryInterval, AttemptsMax} \subseteq Nat \ {0}

VARIABLES
    subs,      \* subscriptions: the servers that are registered
    retryIds, retryAge, timer, \* retry_ids; since last_retry; until the timeout
    queue,     \* events for the manager
    air,       \* requests under way
    latest,    \* the last state published
    done,      \* a history: changes that reached the URL, were given up, or went with their subscription
    fails, updates

env == <<latest, done, fails, updates>>
vars == <<subs, retryIds, retryAge, timer, queue, air, env>>

Slumber == -1 \* LONG_SLUMBER
Longest == CHOOSE d \in {Throttle, AttemptInterval, RetryInterval} :
               \A e \in {Throttle, AttemptInterval, RetryInterval} : e <= d
Older(age) == IF age > Longest THEN age ELSE age + 1

NoSub == [on |-> FALSE, attempts |-> 0, age |-> 0, changes |-> <<>>, inFlight |-> FALSE]
NewSub == [NoSub EXCEPT !.on = TRUE, !.age = Throttle + 1]

Init ==
    /\ subs = [id \in Id |-> NewSub]
    /\ retryIds = {} /\ retryAge = 0 /\ timer = Slumber /\ queue = <<>> /\ air = {}
    /\ latest = 0 /\ done = [id \in Id |-> {}] /\ fails = 0 /\ updates = 0

-------------------------------------------------------------------------------
(* The manager.  Its state is a record while an event is handled.          *)

\* PushServer::send
Send(m, ids) ==
    [m EXCEPT !.subs = [id \in Id |-> IF id \in ids THEN [m.subs[id] EXCEPT !.changes = <<>>, !.inFlight = TRUE, !.age = 0]
                                      ELSE m.subs[id]],
              !.air = @ \cup {[id |-> id, changes |-> m.subs[id].changes] : id \in ids}]

\* May a change be sent at once?
Ready(s) ==
    /\ ~s.inFlight
    /\ \/ s.attempts = 0 /\ s.age > Throttle
       \/ s.attempts \in 1..(AttemptsMax - 1) /\ s.age > AttemptInterval

\* Event::Push
HandlePush(m, e) ==
    LET known == {id \in e.ids : m.subs[id].on}
        pending == [m EXCEPT !.subs = [id \in Id |-> IF id \in known THEN [m.subs[id] EXCEPT !.changes = Append(@, e.change)]
                                                     ELSE m.subs[id]]]
        ready == {id \in known : Ready(m.subs[id])}
    IN [Send(pending, ready) EXCEPT !.retry = (m.retry \ ready) \cup (known \ ready)]

\* Event::DeliverySuccess
HandleSuccess(m, id) ==
    IF ~m.subs[id].on THEN m
    ELSE [m EXCEPT !.subs[id].attempts = 0, !.subs[id].inFlight = FALSE, !.retry = @ \ {id}]

\* Mutant: the subscription is not tried again.
HandleFailureOnce(m, id, changes) ==
    IF ~m.subs[id].on THEN m
    ELSE [m EXCEPT !.subs[id].age = 0, !.subs[id].attempts = @ + 1, !.subs[id].changes = @ \o changes, !.subs[id].inFlight = FALSE]

\* Event::DeliveryFailure
HandleFailure(m, id, changes) ==
    IF ~m.subs[id].on THEN m
    ELSE [m EXCEPT !.subs[id].age = 0, !.subs[id].attempts = @ + 1, !.subs[id].changes = @ \o changes,
                   !.subs[id].inFlight = FALSE, !.retry = @ \cup {id}]

\* PushUpdate::Register, PushUpdate::Unregister
HandleRegister(m, id) == IF m.subs[id].on THEN m ELSE [m EXCEPT !.subs[id] = NewSub]
HandleUnregister(m, id) == [m EXCEPT !.subs[id] = NoSub]

Handle(m, e) ==
    CASE e.type = "push" -> HandlePush(m, e)
      [] e.type = "success" -> HandleSuccess(m, e.id)
      [] e.type = "failure" -> HandleFailure(m, e.id, e.changes)
      [] e.type = "register" -> HandleRegister(m, e.id)
      [] e.type = "unregister" -> HandleUnregister(m, e.id)
      [] e.type = "reset" -> [m EXCEPT !.subs = [id \in Id |-> NoSub]]

\* May a subscription be tried again?
Due(s) ==
    /\ ~s.inFlight
    /\ \/ s.attempts = 0 /\ s.age >= Throttle
       \/ s.attempts > 0 /\ s.age >= AttemptInterval

GivenUp(s) == s.attempts >= AttemptsMax

\* After every event or timeout: what is due is sent, or given up.
Retry(m) ==
    LET due == {id \in m.retry : m.subs[id].on /\ Due(m.subs[id])}
        lost == {id \in due : GivenUp(m.subs[id])}
        sent == Send(m, due \ lost)
        left == {id \in m.retry : m.subs[id].on} \ due
    IN CASE m.retry = {} -> [m EXCEPT !.timer = Slumber]
         [] m.retry # {} /\ retryAge < RetryInterval -> [m EXCEPT !.timer = RetryInterval - retryAge]
         [] OTHER -> [sent EXCEPT !.subs = [id \in Id |-> IF id \in lost THEN [@[id] EXCEPT !.changes = <<>>, !.attempts = 0] ELSE @[id]],
                                  !.lost = UNION {{<<id, c>> : c \in ToSet(m.subs[id].changes)} : id \in lost}, !.retry = left,
                                  !.age = IF left = {} THEN @ ELSE 0,
                                  !.timer = IF left = {} THEN Slumber ELSE RetryInterval]

\* What goes with a subscription that is removed, or comes for one that is not there.
Dropped(e) ==
    CASE e.type = "unregister" -> {<<e.id, c>> : c \in ToSet(subs[e.id].changes)}
      [] e.type = "reset" -> UNION {{<<id, c>> : c \in ToSet(subs[id].changes)} : id \in Id}
      [] e.type = "push" -> {<<id, e.change>> : id \in {i \in e.ids : ~subs[i].on}}
      [] e.type = "failure" -> {<<e.id, c>> : c \in {d \in ToSet(e.changes) : ~subs[e.id].on}}
      [] OTHER -> {}

Manager == [subs |-> subs, retry |-> retryIds, age |-> retryAge, timer |-> timer, air |-> air, lost |-> {}]
After(handled, dropped) == \E m \in {Retry(h) : h \in {handled}} :
    /\ subs' = m.subs /\ retryIds' = m.retry /\ retryAge' = m.age /\ timer' = m.timer /\ air' = m.air
    /\ done' = [id \in Id |-> done[id] \cup {l[2] : l \in {k \in m.lost \cup dropped : k[1] = id}}]

Receive ==
    /\ queue # <<>> /\ queue' = Tail(queue)
    /\ After(Handle(Manager, Head(queue)), Dropped(Head(queue)))
    /\ UNCHANGED <<latest, fails, updates>>

Timeout ==
    /\ timer = 0 /\ After(Manager, {})
    /\ UNCHANGED <<queue, latest, fails, updates>>

-------------------------------------------------------------------------------
(* Around it. *)

\* The state manager passes on a state change.
Publish ==
    /\ latest < MaxChanges /\ latest' = latest + 1
    /\ queue' = Append(queue, [type |-> "push", ids |-> Id, change |-> latest'])
    /\ UNCHANGED <<subs, retryIds, retryAge, timer, air, done, fails, updates>>

\* http_request: the URL takes the request, and the answer may be lost.
Taken(r) ==
    /\ done' = [done EXCEPT ![r.id] = @ \cup ToSet(r.changes)]
    /\ \/ queue' = Append(queue, [type |-> "success", id |-> r.id]) /\ UNCHANGED fails
       \/ /\ fails < MaxFails /\ fails' = fails + 1
          /\ queue' = Append(queue, [type |-> "failure", id |-> r.id, changes |-> r.changes])

NotTaken(r) ==
    /\ fails < MaxFails /\ fails' = fails + 1
    /\ queue' = Append(queue, [type |-> "failure", id |-> r.id, changes |-> r.changes])
    /\ UNCHANGED done

Respond(r) ==
    /\ r \in air /\ air' = air \ {r} /\ (Taken(r) \/ NotTaken(r))
    /\ UNCHANGED <<subs, retryIds, retryAge, timer, latest, updates>>

\* A subscription ends, is updated (Register again), or the state manager stops.
Update(id, type) ==
    /\ updates < MaxUpdates /\ updates' = updates + 1
    /\ queue' = Append(queue, [type |-> type, id |-> id])
    /\ UNCHANGED <<subs, retryIds, retryAge, timer, air, latest, done, fails>>

Tick ==
    /\ subs' = [id \in Id |-> IF subs[id].on THEN [subs[id] EXCEPT !.age = Older(@)] ELSE subs[id]]
    /\ retryAge' = Older(retryAge) /\ timer' = IF timer > 0 THEN timer - 1 ELSE timer
    /\ <<subs', retryAge', timer'>> # <<subs, retryAge, timer>>
    /\ UNCHANGED <<retryIds, queue, air, env>>

Answered == \E r \in air : Respond(r)

Next ==
    \/ Receive \/ Timeout \/ Publish \/ Tick
    \/ Answered
    \/ \E id \in Id, type \in {"register", "unregister", "reset"} : Update(id, type)

\* The manager runs, time passes, and requests end (push_timeout).
Spec == /\ Init /\ [][Next]_vars /\ WF_vars(Receive) /\ WF_vars(Timeout) /\ WF_vars(Tick)
        /\ WF_vars(Answered)

-------------------------------------------------------------------------------
(* Properties. *)

\* Types; no subscription is tried more than push_attempts_max times in a row.
TypeOK ==
    /\ subs \in [Id -> [on : BOOLEAN, attempts : 0..AttemptsMax, age : 0..(Longest + 1),
                        changes : Seq(1..MaxChanges), inFlight : BOOLEAN]]
    /\ retryIds \subseteq Id /\ retryAge \in 0..(Longest + 1) /\ timer \in {Slumber} \cup 0..RetryInterval
    /\ \A r \in air : r.id \in Id /\ r.changes \in Seq(1..MaxChanges)

Outcomes(id) == {k \in DOMAIN queue : queue[k].type \in {"success", "failure"} /\ queue[k].id = id}

\* A subscription is in flight exactly while a request of it is under way or its outcome is
\* on its way to the manager, and there is only one (in_flight; a registration of a
\* subscription that exists leaves it alone).
OneInFlight ==
    \A id \in Id : subs[id].on =>
        Cardinality({r \in air : r.id = id}) + Cardinality(Outcomes(id)) = IF subs[id].inFlight THEN 1 ELSE 0

InQueue(id, type) == {k \in DOMAIN queue : queue[k].type = type /\ (type = "failure" => queue[k].id = id)}
InAir(id) == UNION {ToSet(r.changes) : r \in {q \in air : q.id = id}}
Failed(id) == UNION {ToSet(queue[k].changes) : k \in InQueue(id, "failure")}
Waiting(id) == ToSet(subs[id].changes)

\* Every change that was published is about to be handled, pending or under way until it
\* reached the URL, was given up or went with its subscription (state_changes,
\* DeliveryFailure).
NoneLost ==
    \A id \in Id :
        1..latest \subseteq {queue[k].change : k \in InQueue(id, "push")} \cup Failed(id) \cup Waiting(id) \cup InAir(id) \cup done[id]

\* A change that is on its way: it is sent, or will be, because the subscription is to be
\* tried again or the next change is in the queue.  What a success leaves behind is not.
OnItsWay(id, c) ==
    \/ c \in InAir(id) \cup Failed(id)
    \/ c \in Waiting(id) /\ ~subs[id].inFlight /\ (id \in retryIds \/ InQueue(id, "push") # {})

\* It stays so until it is done,
StaysOnItsWay == \A id \in Id, c \in 1..latest : OnItsWay(id, c) => OnItsWay(id, c)' \/ c \in done'[id]

\* and none is on its way that has not arrived.
Arrived == \A id \in Id, c \in 1..latest : OnItsWay(id, c) => c \in done[id]
================================================================================
