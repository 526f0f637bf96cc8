------------------------------- MODULE Housekeeper -------------------------------
(***************************************************************************)
(* The housekeeper of each node: a queue of what is to be done and when,   *)
(* reloads of the settings, renewals of certificates and purges of stores. *)
(*                                                                         *)
(*   crates/jmap/src/services/housekeeper.rs                               *)
(*                                                                         *)
(* Times are ticks from now.  The purge is the one of a store (blobs:      *)
(* module BlobStore), under a lock shared by the nodes.                    *)
(***************************************************************************)
EXTENDS Integers, FiniteSets, Sequences

CONSTANTS
    Node, Renewers,  \* the nodes, and those with the role renew_acme
    Classes,         \* ActionClass: what is configured at all
    Interval,        \* of each class
    PurgeTime,       \* the longest a purge takes
    LockTtl,         \* of the lock of a purge, an hour
    MaxTasks,        \* purges under way on a node
    StartFails,      \* may init_acme fail when a node starts?
    MaxReloads,      \* reloads, and purges asked for
    MaxFails, MaxCrashes

ASSUME HousekeeperAssumption ==
    /\ Renewers \subseteq Node /\ Interval \in [Classes -> Nat \ {0}]
    /\ Classes \subseteq {"store", "acme", "otel", "metrics", "internal", "alerts", "license", "account"}
    /\ StartFails \in BOOLEAN /\ {PurgeTime, LockTtl, MaxTasks} \subseteq Nat \ {0} /\ {MaxReloads, MaxFails, MaxCrashes} \subseteq Nat

MaxDue == CHOOSE d \in {Interval[c] : c \in Classes} \cup {1} : \A c \in Classes : Interval[c] <= d
Task == Node \X (1..MaxTasks)

VARIABLES
    queue,      \* how many entries of a class are due at a time
    otel,       \* are metrics pushed, according to the settings of the node?
    events,     \* for the housekeeper
    renewing,   \* renewals and reloads of certificates under way
    task, lock, \* purges; how long the lock of the store still lasts
    ran,        \* what ran last since time passed
    reloads, fails, crashes

counts == <<reloads, fails, crashes>>
purges == <<task, lock>>
vars == <<queue, otel, events, renewing, purges, ran, counts>>

NoTask == [pc |-> "none", age |-> 0]
Nothing == [node |-> "none", class |-> "none"]

\* Queue::schedule
Schedule(q, c, d) == IF c \in Classes THEN [q EXCEPT ![c][d] = @ + 1] ELSE q
HasAction(q, c) == \E d \in 0..MaxDue : q[c][d] > 0

\* The queue a node starts with: a certificate that cannot be initialised has no entry.
Initial(n, isOtel, isAcme) ==
    [c \in Classes |-> [d \in 0..MaxDue |->
        CASE c = "metrics" -> IF d = 0 THEN 1 ELSE 0
          [] c = "otel" -> IF isOtel /\ d = Interval[c] THEN 1 ELSE 0
          [] c = "acme" -> IF n \in Renewers /\ isAcme /\ d = 1 THEN 1 ELSE 0
          [] OTHER -> IF d = Interval[c] THEN 1 ELSE 0]]

Init ==
    /\ otel = [n \in Node |-> TRUE]
    /\ \E isAcme \in {TRUE, ~StartFails} : queue = [n \in Node |-> Initial(n, TRUE, isAcme)]
    /\ events = [n \in Node |-> <<>>] /\ renewing = [n \in Node |-> {}]
    /\ task = [t \in Task |-> NoTask] /\ lock = 0 /\ ran = Nothing
    /\ reloads = 0 /\ fails = 0 /\ crashes = 0

-------------------------------------------------------------------------------
(* Events. *)

\* HousekeeperEvent::ReloadSettings
HandleReload(n) ==
    /\ queue' = [queue EXCEPT ![n] = [c \in Classes |->
           IF ((c = "otel" /\ otel[n]) \/ c \in {"internal", "alerts", "license"}) /\ ~HasAction(queue[n], c)
           THEN [@[c] EXCEPT ![IF c = "alerts" THEN 0 ELSE Interval[c]] = 1] ELSE @[c]]]
    /\ renewing' = [renewing EXCEPT ![n] = @ \cup {"init"}]

\* HousekeeperEvent::AcmeReschedule
HandleReschedule(n, d) ==
    /\ queue' = [queue EXCEPT ![n] = Schedule([@ EXCEPT !["acme"] = [e \in 0..MaxDue |-> 0]], "acme", d)]
    /\ UNCHANGED renewing

Free(n) == {t \in Task : t[1] = n /\ task[t] = NoTask}

\* Server::purge begins.
SpawnPurge(n) == \E t \in Free(n) : task' = [task EXCEPT ![t] = [pc |-> "lock", age |-> 0]]

Handle(n, e) ==
    \/ e.type = "reload" /\ HandleReload(n) /\ UNCHANGED task
    \/ e.type = "acme" /\ HandleReschedule(n, e.due) /\ UNCHANGED task
    \/ e.type = "purge" /\ SpawnPurge(n) /\ UNCHANGED <<queue, renewing>>

Receive(n) ==
    /\ events[n] # <<>> /\ events' = [events EXCEPT ![n] = Tail(@)]
    /\ Handle(n, Head(events[n]))
    /\ UNCHANGED <<otel, lock, ran, counts>>

-------------------------------------------------------------------------------
(* What is due. *)

\* Mutant: an action is done once.
AgainNever(n, c) == 0

\* After how long is an action done again?  0: not at all.
Again(n, c) ==
    CASE c \in {"store", "account", "internal"} -> Interval[c]
      [] c = "otel" -> IF otel[n] THEN Interval[c] ELSE 0
      [] OTHER -> 0

\* Calculation of metrics schedules a push of them.
After(q, n, c) ==
    IF c = "metrics" THEN IF "otel" \in Classes THEN Schedule(q, "otel", Interval[c]) ELSE q
    ELSE IF Again(n, c) > 0 THEN Schedule(q, c, Again(n, c)) ELSE q

\* ActionClass::Store: a task that purges.  Others do their work at once here.
Spawn(n, c) == IF c = "store" THEN SpawnPurge(n) ELSE UNCHANGED task

\* Queue::pop
Popped(n, c) == [queue[n] EXCEPT ![c][0] = @ - 1]

\* ActionClass::RenewLicense: the settings are reloaded, or it fails.
RenewLicense(n) ==
    \/ queue' = [queue EXCEPT ![n] = Schedule(Popped(n, "license"), "license", Interval["license"])] /\ UNCHANGED fails
    \/ fails < MaxFails /\ fails' = fails + 1 /\ queue' = [queue EXCEPT ![n] = Popped(n, "license")]

Run(n, c) ==
    /\ c \in Classes /\ queue[n][c][0] > 0
    /\ ran' = [node |-> n, class |-> c]
    /\ IF c = "license" THEN RenewLicense(n)
       ELSE queue' = [queue EXCEPT ![n] = After(Popped(n, c), n, c)] /\ UNCHANGED fails
    /\ renewing' = IF c = "acme" THEN [renewing EXCEPT ![n] = @ \cup {"renew"}] ELSE renewing
    /\ Spawn(n, c) /\ UNCHANGED <<otel, events, lock, reloads, crashes>>

\* A renewal ends, or a reload finds the certificate: both schedule the next renewal.
Renewed(n, kind) ==
    /\ kind \in renewing[n] /\ renewing' = [renewing EXCEPT ![n] = @ \ {kind}]
    /\ \/ "acme" \in Classes /\ events' = [events EXCEPT ![n] = Append(@, [type |-> "acme", due |-> Interval["acme"]])] /\ UNCHANGED fails
       \/ kind = "renew" /\ fails < MaxFails /\ fails' = fails + 1
          /\ events' = [events EXCEPT ![n] = Append(@, [type |-> "acme", due |-> 1])]
       \/ kind = "init" /\ "acme" \notin Classes /\ UNCHANGED <<events, fails>>
       \/ kind = "init" /\ "acme" \in Classes /\ fails < MaxFails /\ fails' = fails + 1 /\ UNCHANGED events
    /\ UNCHANGED <<queue, otel, purges, ran, reloads, crashes>>

-------------------------------------------------------------------------------
(* Purge::purge. *)

\* Mutant: the lock is not looked at.
LockedNever == FALSE

Locked == lock > 0

TryLock(t) ==
    /\ task[t].pc = "lock"
    /\ \/ Locked /\ task' = [task EXCEPT ![t] = NoTask] /\ UNCHANGED <<lock, fails>>
       \/ ~Locked /\ task' = [task EXCEPT ![t] = [pc |-> "purge", age |-> 0]] /\ lock' = LockTtl /\ UNCHANGED fails
       \/ fails < MaxFails /\ fails' = fails + 1 /\ task' = [task EXCEPT ![t] = NoTask] /\ UNCHANGED lock
    /\ UNCHANGED <<queue, otel, events, renewing, ran, reloads, crashes>>

PurgeStore(t) ==
    /\ task[t].pc = "purge" /\ task' = [task EXCEPT ![t].pc = "unlock"]
    /\ UNCHANGED <<queue, otel, events, renewing, lock, ran, counts>>

RemoveLock(t) ==
    /\ task[t].pc = "unlock" /\ task' = [task EXCEPT ![t] = NoTask] /\ lock' = 0
    /\ UNCHANGED <<queue, otel, events, renewing, ran, counts>>

TaskStep(t) == TryLock(t) \/ PurgeStore(t) \/ RemoveLock(t)

-------------------------------------------------------------------------------
(* The rest. *)

\* The settings change and the node loads them.
Reload(n, isOtel) ==
    /\ reloads < MaxReloads /\ reloads' = reloads + 1 /\ otel' = [otel EXCEPT ![n] = isOtel]
    /\ events' = [events EXCEPT ![n] = Append(@, [type |-> "reload"])]
    /\ UNCHANGED <<queue, renewing, purges, ran, fails, crashes>>

\* A purge is asked for (management API).
AskPurge(n) ==
    /\ "store" \in Classes /\ reloads < MaxReloads /\ reloads' = reloads + 1
    /\ events' = [events EXCEPT ![n] = Append(@, [type |-> "purge"])]
    /\ UNCHANGED <<queue, otel, renewing, purges, ran, fails, crashes>>

Crash(n) ==
    /\ crashes < MaxCrashes /\ crashes' = crashes + 1
    /\ \E isAcme \in {TRUE, ~StartFails} : queue' = [queue EXCEPT ![n] = Initial(n, otel[n], isAcme)]
    /\ events' = [events EXCEPT ![n] = <<>>]
    /\ renewing' = [renewing EXCEPT ![n] = {}] /\ task' = [t \in Task |-> IF t[1] = n THEN NoTask ELSE task[t]]
    /\ UNCHANGED <<otel, lock, ran, reloads, fails>>

\* Time passes when nothing is due, and no purge takes longer than PurgeTime.
Sooner(f) == [d \in 0..MaxDue |-> IF d = MaxDue THEN 0 ELSE IF d = 0 THEN f[0] + f[1] ELSE f[d + 1]]
Tick ==
    /\ \A n \in Node, c \in Classes : queue[n][c][0] = 0
    /\ \A t \in Task : task[t].age < PurgeTime
    /\ queue' = [n \in Node |-> [c \in Classes |-> Sooner(queue[n][c])]]
    /\ task' = [t \in Task |-> IF task[t].pc \in {"purge", "unlock"} THEN [task[t] EXCEPT !.age = @ + 1] ELSE task[t]]
    /\ lock' = (IF lock > 0 THEN lock - 1 ELSE 0) /\ ran' = Nothing
    /\ UNCHANGED <<otel, events, renewing, counts>>

NodeStep(n) == Receive(n) \/ (\E c \in Classes : Run(n, c)) \/ \E k \in {"init", "renew"} : Renewed(n, k)

Next ==
    \/ \E n \in Node : NodeStep(n) \/ Crash(n) \/ AskPurge(n) \/ \E b \in BOOLEAN : Reload(n, b)
    \/ \E t \in Task : TaskStep(t)
    \/ Tick

\* Nodes and their tasks run, and time passes.
Spec == /\ Init /\ [][Next]_vars /\ WF_vars(Tick)
        /\ \A n \in Node : WF_vars(Receive(n)) /\ \A k \in {"init", "renew"} : WF_vars(Renewed(n, k))
        /\ \A n \in Node, c \in Classes : WF_vars(Run(n, c))
        /\ \A t \in Task : WF_vars(TaskStep(t))

-------------------------------------------------------------------------------
(* Properties. *)

\* Types.
TypeOK ==
    /\ \A n \in Node, c \in Classes, d \in 0..MaxDue : queue[n][c][d] \in 0..2
    /\ renewing \in [Node -> SUBSET {"init", "renew"}] /\ lock \in 0..LockTtl
    /\ task \in [Task -> [pc : {"none", "lock", "purge", "unlock"}, age : 0..PurgeTime]]

Entries(n, c) == {d \in 0..MaxDue : queue[n][c][d] > 0}

\* At most one purge of a store is under way (KV_LOCK_HOUSEKEEPER).
OnePurge == Cardinality({t \in DOMAIN task : task[t].pc = "purge"}) <= 1

\* A store is purged again and again, whatever nodes crash.
Purging == \E t \in Task : task[t].pc = "purge"
================================================================================
