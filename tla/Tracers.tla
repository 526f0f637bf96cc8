--------------------------------- MODULE Tracers ---------------------------------
(***************************************************************************)
(* Which tracers the collector of events has, as settings are reloaded.    *)
(*                                                                         *)
(*   crates/common/src/telemetry/mod.rs     Telemetry::update              *)
(*   crates/trc/src/ipc/collector.rs        updates of the collector       *)
(*   crates/trc/src/ipc/subscriber.rs       registration                   *)
(*                                                                         *)
(* The events themselves are in module EventChannel.  A tracer is a task   *)
(* with the receiving end of a channel; each time one is spawned it is a   *)
(* new instance of its id.                                                 *)
(***************************************************************************)
EXTENDS Integers, FiniteSets, Sequences, SequencesExt

CONSTANTS
    Id, Webhook,      \* of tracers; those that are webhooks, which keep a sender of their own
    Manager,          \* who reloads: requests of administrators, messages of other nodes
    MaxTask,          \* tasks ever spawned
    MaxReloads,
    MayStop,          \* tracers that may end by themselves (a file that cannot be written)
    Spaced            \* is the collector up to date before settings are reloaded?

TracersAssumption ==
    /\ Webhook \subseteq Id /\ MayStop \subseteq Id \ Webhook /\ {MaxTask, MaxReloads} \subseteq Nat /\ Spaced \in BOOLEAN

Task == [id : Id, no : 1..MaxTask]

VARIABLES
    settings,     \* the tracers configured last
    reload,       \* a reload under way: what it configures, and who is active as far as it knows
    updates,      \* COLLECTOR_UPDATES
    active,       \* ACTIVE_SUBSCRIBERS
    subscribers,  \* of the collector, with their interests: the reload they are from
    running,      \* tasks
    spawned, reloads

vars == <<settings, reload, updates, active, subscribers, running, spawned, reloads>>

Idle == [pc |-> "idle", want |-> {}, known |-> {}, no |-> 0]

Init ==
    /\ settings = [want |-> {}, no |-> 0] /\ reload = [a \in Manager |-> Idle] /\ updates = <<>>
    /\ active = <<>> /\ subscribers = {} /\ running = {} /\ spawned = 0 /\ reloads = 0

-------------------------------------------------------------------------------
(* Telemetry::update. *)

\* Collector::get_subscribers
Known == ToSet(active)

ReadActive(a, want) ==
    /\ reload[a].pc = "idle" /\ reloads < MaxReloads /\ reloads' = reloads + 1
    /\ Spaced => updates = <<>> /\ \A b \in Manager : reload[b].pc = "idle"
    /\ reload' = [reload EXCEPT ![a] = [pc |-> "update", want |-> want, known |-> Known, no |-> reloads + 1]]
    /\ UNCHANGED <<settings, updates, active, subscribers, running, spawned>>

Removed(r) == r.known \ r.want

\* Tracers that are gone, then those that are known and those that are not.
Apply(a) ==
    LET r == reload[a]
        gone == SetToSeq(Removed(r))
        same == SetToSeq(r.want \cap r.known)
        new == SetToSeq(r.want \ r.known)
        task(i) == [id |-> new[i], no |-> spawned + i]
    IN  /\ r.pc = "update" /\ spawned + Len(new) <= MaxTask
        /\ updates' = updates \o [i \in 1..Len(gone) |-> [type |-> "unregister", id |-> gone[i]]]
                              \o [i \in 1..Len(same) |-> [type |-> "update", id |-> same[i], no |-> r.no]]
                              \o [i \in 1..Len(new) |-> [type |-> "register", task |-> task(i), no |-> r.no]]
        /\ running' = running \cup {task(i) : i \in 1..Len(new)} /\ spawned' = spawned + Len(new)
        /\ settings' = [want |-> r.want, no |-> r.no] /\ reload' = [reload EXCEPT ![a] = Idle]
        /\ UNCHANGED <<active, subscribers, reloads>>

-------------------------------------------------------------------------------
(* The collector. *)

\* Update::UpdateSubscriber: the first with that id, here any.
Updated(subs, u) ==
    LET of == {s \in subs : s.task.id = u.id} IN
    IF of = {} THEN subs ELSE LET s == CHOOSE s \in of : TRUE IN (subs \ {s}) \cup {[s EXCEPT !.no = u.no]}

Apply1(st, u) ==
    CASE u.type = "register" -> [active |-> Append(st.active, u.task.id), subs |-> st.subs \cup {[task |-> u.task, no |-> u.no]}]
      [] u.type = "unregister" -> [active |-> SelectSeq(st.active, LAMBDA x : x # u.id),
                                   subs |-> {s \in st.subs : s.task.id # u.id}]
      [] u.type = "update" -> [st EXCEPT !.subs = Updated(@, u)]

\* The channel of a tracer that was removed has no sender any more but a webhook's own, so
\* other tasks end.
Ended(dropped) == {t \in dropped : t.id \notin Webhook}

\* Collector::update
Update ==
    LET st == FoldLeft(Apply1, [active |-> active, subs |-> subscribers], updates)
        dropped == {s.task : s \in subscribers \ st.subs} \ {s.task : s \in st.subs}
    IN  /\ updates # <<>> /\ updates' = <<>> /\ active' = st.active /\ subscribers' = st.subs
        /\ running' = running \ Ended(dropped)
        /\ UNCHANGED <<settings, reload, spawned, reloads>>

\* A batch for a tracer that has ended: the collector drops it.
DropClosed(s) ==
    /\ s \in subscribers /\ s.task \notin running /\ subscribers' = subscribers \ {s}
    /\ UNCHANGED <<settings, reload, updates, active, running, spawned, reloads>>

\* A tracer ends by itself (spawn_log_tracer); settings are reloaded once more after it.
Stop(t) ==
    /\ reloads < MaxReloads /\ t \in running /\ t.id \in MayStop /\ running' = running \ {t}
    /\ UNCHANGED <<settings, reload, updates, active, subscribers, spawned, reloads>>

Dropped == \E s \in subscribers : DropClosed(s)

Next ==
    \/ \E a \in Manager : Apply(a) \/ \E want \in SUBSET Id : ReadActive(a, want)
    \/ Update \/ Dropped \/ \E t \in running : Stop(t)

\* A reload that has begun ends, and the collector is woken (Collector::reload).
Spec == /\ Init /\ [][Next]_vars /\ WF_vars(Update) /\ WF_vars(Dropped)
        /\ \A a \in Manager : WF_vars(Apply(a))

-------------------------------------------------------------------------------
(* Properties. *)

\* A tracer is subscribed once, so that it gets an event once.
Once == \A s, r \in subscribers : s.task.id = r.task.id => s = r

\* Whatever reloads come one after another, in the end the tracers that are subscribed and
\* running are those of the last settings, with its interests (update_subscriber).
Settled ==
    /\ {s.task.id : s \in subscribers} = settings.want
    /\ \A s \in subscribers : s.no = settings.no /\ s.task \in running
UpToDate == reloads = MaxReloads => Settled

\* In the end only tracers that are subscribed have tasks.
NoneLeft == running \subseteq {s.task : s \in subscribers}
TasksEnd == <>[]NoneLeft
================================================================================
