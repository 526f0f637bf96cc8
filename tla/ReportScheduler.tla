---------------------------- MODULE ReportScheduler ----------------------------
(***************************************************************************)
(* Aggregate reports (DMARC and TLS): records are stored under a report's  *)
(* header, and the report is sent and deleted when it is due.              *)
(*                                                                         *)
(*   crates/smtp/src/reporting/scheduler.rs   the scheduler of each node   *)
(*   crates/smtp/src/reporting/{dmarc,tls}.rs generation and deletion      *)
(*   crates/smtp/src/reporting/mod.rs         intervals, lock names        *)
(*                                                                         *)
(* Nodes share the store.  Time passes in the units of the shortest        *)
(* interval's fraction; at MaxTime the clock stands and all timers fire.   *)
(***************************************************************************)
EXTENDS Integers, FiniteSets, SequencesExt

CONSTANTS
    Nodes, Sources, \* kind, domain and policy of what is reported
    Interval(_),    \* the reporting interval of a source
    ReportRefresh,  \* REPORT_REFRESH
    LockExpiry,     \* LOCK_EXPIRY
    MaxRecords,     \* max_size of a report, in records
    MaxTime, MaxEvents, MaxTasks, MaxCrashes,
    MaxFails, Failing, \* store operations that fail, and which
    SlowWrites,     \* may time pass while a record is stored?
    SlowTasks       \* may time pass while a report is sent?

ReportAssumption ==
    /\ Nodes # {} /\ Sources # {} /\ \A s \in Sources : Interval(s) \in Nat \ {0}
    /\ {ReportRefresh, LockExpiry, MaxRecords} \subseteq Nat \ {0}
    /\ {MaxTime, MaxEvents, MaxTasks, MaxCrashes, MaxFails} \subseteq Nat
    /\ Failing \subseteq {"write", "lock", "read", "delete", "unlock"} /\ {SlowWrites, SlowTasks} \subseteq BOOLEAN

VARIABLES
    now, headers, records, locks,
    pc, wake, deadline, \* each scheduler: where it is, next_wake_up, when the wait ends
    event,    \* the record it stores
    task,     \* the tasks that send reports
    sent,     \* how often a record was reported
    excused,  \* records left out for size, or that nobody may get
    count, crashes, fails

store == <<headers, records, locks>>
scheduler == <<pc, wake, deadline, event>>
history == <<sent, excused>>
vars == <<now, store, scheduler, task, history, count, crashes, fails>>

Id == 1..MaxEvents
Task == Nodes \X (1..MaxTasks)
Report == [src: Sources, due: 0..MaxTime]
NoEvent == [id |-> 0, isNew |-> FALSE]
NoTask == [pc |-> "none", todo |-> {}, group |-> {}, left |-> {}, taken |-> {}]

Init ==
    /\ now = 0 /\ headers = {} /\ records = {} /\ locks = {}
    /\ pc = [n \in Nodes |-> "refresh"] /\ wake = [n \in Nodes |-> ReportRefresh]
    /\ deadline = [n \in Nodes |-> 0] /\ event = [n \in Nodes |-> NoEvent]
    /\ task = [t \in Task |-> NoTask] /\ sent = [i \in Id |-> 0] /\ excused = {}
    /\ count = 0 /\ crashes = 0 /\ fails = 0

\* Types.
TypeOK ==
    /\ now \in 0..MaxTime /\ headers \subseteq Report /\ records \subseteq [id: Id, rep: Report]
    /\ pc \in [Nodes -> {"refresh", "wait", "write"}] /\ wake \in [Nodes -> 0..ReportRefresh]
    /\ \A t \in Task : task[t].pc \in {"none", "next", "read", "send", "range", "clear", "unlock"}
    /\ sent \in [Id -> Nat] /\ excused \subseteq Id /\ count \in 0..MaxEvents

MinOf(S) == CHOOSE x \in S : \A y \in S : x <= y
Fails(kind) == kind \in Failing /\ fails < MaxFails /\ fails' = fails + 1

-------------------------------------------------------------------------------
(* The scheduler of a node. *)

\* AggregateTimestamp: the interval that now is in ends then.
Due(src) == now - (now % Interval(src)) + Interval(src)

\* One task for each DMARC report; one for all TLS reports of a domain.
Groups(due) ==
    {{h} : h \in {g \in due : g.src.kind = "dmarc"}}
    \cup {{h \in due : h.src.kind = "tls" /\ h.src.domain = d} : d \in {h.src.domain : h \in {g \in due : g.src.kind = "tls"}}}

\* The first report that is not yet due, within the refresh time.
NextWakeUp(next) == IF next = {} THEN ReportRefresh ELSE MinOf({h.due : h \in next}) - now

\* next_report_event: what is due is handed to a task of its own.
Refresh(n) ==
    LET due == {h \in headers : h.due <= now}
        next == {h \in headers : h.due > now /\ h.due < now + ReportRefresh}
    IN /\ pc[n] = "refresh"
       /\ IF due = {} THEN UNCHANGED task
          ELSE \E k \in 1..MaxTasks :
                 /\ task[n, k] = NoTask /\ \A j \in 1..(k - 1) : task[n, j] # NoTask
                 /\ task' = [task EXCEPT ![n, k] = [NoTask EXCEPT !.pc = "next", !.todo = Groups(due)]]
       /\ wake' = [wake EXCEPT ![n] = NextWakeUp(next)]
       /\ deadline' = [deadline EXCEPT ![n] = now + wake'[n]] /\ pc' = [pc EXCEPT ![n] = "wait"]
       /\ UNCHANGED <<now, store, event, history, count, crashes, fails>>

\* A report due earlier shortens the wait.
Shorter(n, due) == MinOf({wake[n], due - now})

\* schedule_dmarc, schedule_tls: is the report's header there?
Receive(n, src) ==
    LET rep == [src |-> src, due |-> Due(src)] IN
    /\ pc[n] = "wait" /\ count < MaxEvents /\ rep.due <= MaxTime
    /\ count' = count + 1 /\ wake' = [wake EXCEPT ![n] = Shorter(n, rep.due)]
    /\ event' = [event EXCEPT ![n] = [id |-> count + 1, rep |-> rep, isNew |-> rep \notin headers]]
    /\ pc' = [pc EXCEPT ![n] = "write"]
    /\ UNCHANGED <<now, store, deadline, task, history, crashes, fails>>

\* "Write policy if missing"
NewHeader(n) == IF event[n].isNew THEN {event[n].rep} ELSE {}

\* The record is stored, with the header if there was none, unless the write fails, and the
\* wait begins anew.
StoreRecord(n) ==
    /\ pc[n] = "write"
    /\ \/ /\ records' = records \cup {[id |-> event[n].id, rep |-> event[n].rep]}
          /\ headers' = headers \cup NewHeader(n) /\ UNCHANGED fails
       \/ Fails("write") /\ UNCHANGED <<records, headers>>
    /\ event' = [event EXCEPT ![n] = NoEvent]
    /\ deadline' = [deadline EXCEPT ![n] = now + wake[n]] /\ pc' = [pc EXCEPT ![n] = "wait"]
    /\ UNCHANGED <<now, locks, wake, task, history, count, crashes>>

AfterTimeout == "refresh"

Timeout(n) ==
    /\ pc[n] = "wait" /\ (deadline[n] <= now \/ now = MaxTime)
    /\ pc' = [pc EXCEPT ![n] = AfterTimeout]
    /\ UNCHANGED <<now, store, wake, deadline, event, task, history, count, crashes, fails>>

-------------------------------------------------------------------------------
(* A task that sends reports. *)

Set(t, r) == task' = [task EXCEPT ![t] = r]

\* tls_lock, dmarc_lock: the due time of the first report, and its domain (and policy).
LockName(g) ==
    LET h == CHOOSE x \in g : \A y \in g : x.due <= y.due IN
    <<h.src.kind, h.due, h.src.domain, IF h.src.kind = "dmarc" THEN h.src.policy ELSE "any">>

\* try_lock: a lock ends when it expires (at MaxTime, those of tasks that are gone have).
Held(name) ==
    /\ \E l \in locks : l.name = name /\ l.till > now
    /\ now = MaxTime => \E t \in Task : task[t].group # {} /\ LockName(task[t].group) = name

\* try_lock_report: an error counts as a lock of somebody else.
TryLockReport(t, g) ==
    \/ /\ ~Held(LockName(g)) /\ UNCHANGED fails
       /\ locks' = {l \in locks : l.name # LockName(g)} \cup {[name |-> LockName(g), till |-> now + LockExpiry]}
       /\ Set(t, [task[t] EXCEPT !.pc = "read", !.todo = @ \ {g}, !.group = g, !.left = g])
    \/ /\ (Held(LockName(g)) /\ UNCHANGED fails) \/ Fails("lock")
       /\ Set(t, [task[t] EXCEPT !.todo = @ \ {g}]) /\ UNCHANGED locks

\* Each group in turn, DMARC first.
NextGroup(t) ==
    /\ task[t].pc = "next"
    /\ \/ task[t].todo = {} /\ Set(t, NoTask) /\ UNCHANGED <<locks, fails>>
       \/ \E g \in task[t].todo :
            /\ (\E h \in g : h.src.kind = "tls") => \A f \in task[t].todo : \A h \in f : h.src.kind = "tls"
            /\ TryLockReport(t, g)
    /\ UNCHANGED <<now, headers, records, scheduler, history, count, crashes>>

\* Mutant: a report that could not be read is deleted all the same.
GenerateOrDelete(t) ==
    LET found == task[t].group \cap headers
        fit == {r.id : r \in {s \in records : s.rep \in found}}
    IN /\ task[t].pc = "read"
       /\ \/ found # {} /\ Set(t, [task[t] EXCEPT !.pc = "send", !.taken = fit]) /\ UNCHANGED fails
          \/ found = {} /\ Set(t, [task[t] EXCEPT !.pc = "range"]) /\ UNCHANGED fails
          \/ Fails("read") /\ Set(t, [task[t] EXCEPT !.pc = "range"])
       /\ UNCHANGED <<now, store, scheduler, history, count, crashes>>

\* The records that are to be reported.
RecordsOf(g) == {r \in records : r.rep \in g}

\* generate_*_aggregate_report: the records, in the order of their ids, up to the size limit.
Generate(t) ==
    LET found == task[t].group \cap headers
        all == RecordsOf(found)
        fit == {r \in all : Cardinality({s \in all : s.id <= r.id}) <= MaxRecords}
        missing == IF \E h \in task[t].group : h.src.kind = "tls" THEN "range" ELSE "unlock"
    IN /\ task[t].pc = "read"
       /\ \/ /\ found # {} /\ excused' = excused \cup {r.id : r \in all \ fit}
             /\ Set(t, [task[t] EXCEPT !.pc = "send", !.taken = {r.id : r \in fit}]) /\ UNCHANGED fails
          \/ found = {} /\ Set(t, [task[t] EXCEPT !.pc = missing]) /\ UNCHANGED <<excused, fails>>
          \/ Fails("read") /\ Set(t, [task[t] EXCEPT !.pc = "unlock"]) /\ UNCHANGED excused
       /\ UNCHANGED <<now, store, scheduler, sent, count, crashes>>

\* The report is posted or queued, unless nobody is to get it.
Send(t) ==
    /\ task[t].pc = "send" /\ Set(t, [task[t] EXCEPT !.pc = "range", !.taken = {}])
    /\ \/ sent' = [i \in Id |-> IF i \in task[t].taken THEN sent[i] + 1 ELSE sent[i]] /\ UNCHANGED excused
       \/ excused' = excused \cup task[t].taken /\ UNCHANGED sent
    /\ UNCHANGED <<now, store, scheduler, count, crashes, fails>>

\* delete_*_report: the records of each report,
DeleteRange(t) ==
    /\ task[t].pc = "range"
    /\ \/ \E h \in task[t].left :
            /\ records' = {r \in records : r.rep # h}
            /\ Set(t, [task[t] EXCEPT !.left = @ \ {h}, !.pc = IF task[t].left = {h} THEN "clear" ELSE "range"])
            /\ UNCHANGED fails
       \/ Fails("delete") /\ Set(t, [task[t] EXCEPT !.pc = "unlock"]) /\ UNCHANGED records
    /\ UNCHANGED <<now, headers, locks, scheduler, history, count, crashes>>

\* then the headers.
ClearHeaders(t) ==
    /\ task[t].pc = "clear" /\ Set(t, [task[t] EXCEPT !.pc = "unlock"])
    /\ \/ headers' = headers \ task[t].group /\ UNCHANGED fails
       \/ Fails("delete") /\ UNCHANGED headers
    /\ UNCHANGED <<now, records, locks, scheduler, history, count, crashes>>

\* unlock_report; where it fails the lock stays until it expires.
Unlock(t) ==
    /\ task[t].pc = "unlock"
    /\ \/ locks' = {l \in locks : l.name # LockName(task[t].group)} /\ UNCHANGED fails
       \/ Fails("unlock") /\ UNCHANGED locks
    /\ Set(t, [task[t] EXCEPT !.pc = "next", !.group = {}, !.left = {}])
    /\ UNCHANGED <<now, headers, records, scheduler, history, count, crashes>>

-------------------------------------------------------------------------------
(* Time and crashes. *)

\* Timers fire on time, a refresh takes none.
Tick ==
    /\ now < MaxTime /\ now' = now + 1
    /\ \A n \in Nodes : \/ pc[n] = "wait" /\ deadline[n] > now
                        \/ pc[n] = "write" /\ SlowWrites
    /\ SlowTasks \/ \A t \in Task : task[t] = NoTask
    /\ UNCHANGED <<store, scheduler, task, history, count, crashes, fails>>

\* A node stops and starts again; its locks stay.
Crash(n) ==
    /\ crashes < MaxCrashes /\ crashes' = crashes + 1
    /\ pc' = [pc EXCEPT ![n] = "refresh"] /\ wake' = [wake EXCEPT ![n] = ReportRefresh]
    /\ event' = [event EXCEPT ![n] = NoEvent] /\ deadline' = [deadline EXCEPT ![n] = 0]
    /\ task' = [t \in Task |-> IF t[1] = n THEN NoTask ELSE task[t]]
    /\ UNCHANGED <<now, store, history, count, fails>>

TaskStep(t) == NextGroup(t) \/ Generate(t) \/ Send(t) \/ DeleteRange(t) \/ ClearHeaders(t) \/ Unlock(t)
SchedulerStep(n) == Refresh(n) \/ StoreRecord(n) \/ Timeout(n)

\* All is reported and the clock stands: the schedulers go on reading the queue.
Next ==
    \/ \E n \in Nodes : SchedulerStep(n) \/ Crash(n) \/ \E src \in Sources : Receive(n, src)
    \/ \E t \in Task : TaskStep(t)
    \/ Tick

\* Tasks run on and timers fire.
Spec == /\ Init /\ [][Next]_vars /\ WF_vars(Tick)
        /\ \A n \in Nodes : WF_vars(SchedulerStep(n))
        /\ \A t \in Task : WF_vars(TaskStep(t))

-------------------------------------------------------------------------------
(* Properties. *)

\* No record is reported twice, by however many nodes (try_lock_report).
ReportedOnce == \A i \in Id : sent[i] <= 1

\* A record is deleted only after it was reported, left out for size, or had no recipient
\* (delete_dmarc_report and delete_tls_report delete a range, not what was read).
NoneLostStep == \A r \in records \ records' : sent[r.id] > 0 \/ r.id \in excused
NoneLost == [][NoneLostStep]_vars

\* Some scheduler wakes up by the time a report is due (next_wake_up).
OnTime == \A h \in headers : h.due > now =>
              \E n \in Nodes : pc[n] # "wait" \/ deadline[n] <= h.due

\* In the end every report is deleted, despite crashes and failures; what is deleted was
\* reported (NoneLost).
Reported == headers = {} /\ records = {}
AllReported == NoneLost /\ <>[]Reported
================================================================================
