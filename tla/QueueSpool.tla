------------------------------ MODULE QueueSpool ------------------------------
(***************************************************************************)
(* The distributed outbound queue: the spool kept in the data store        *)
(* (messages, queue events, quota counters), the locks kept in the         *)
(* in-memory store, one queue manager per node, the delivery workers the   *)
(* managers spawn, the management API that edits the queue, and the clock. *)
(*                                                                         *)
(*   crates/smtp/src/queue/manager.rs      the manager's loop              *)
(*   crates/smtp/src/queue/spool.rs        the spool and its locks         *)
(*   crates/smtp/src/outbound/delivery.rs  the worker                      *)
(*   crates/store/src/dispatch/lookup.rs   try_lock, remove_lock           *)
(*   crates/jmap/src/api/management/queue.rs  the API                      *)
(*                                                                         *)
(* One step is the code between two awaits that other tasks can observe: a *)
(* batch written to the store is atomic, everything around it interleaves. *)
(***************************************************************************)
EXTENDS QueueMessage

CONSTANTS
    Node,            \* servers that share the store
    QueueId,         \* bound: messages that may ever be queued
    NoMessage,       \* the value of a key without a message
    Envelopes,       \* what sessions submit
    MaxThreads,      \* queue.max_threads of a node
    LockExpiry,      \* LOCK_EXPIRY
    LockBackoff,     \* the 5 to 9 seconds a refused worker adds to it
    QueueRefresh,    \* QUEUE_REFRESH
    PausedWait,      \* the 86400 seconds a paused manager sleeps
    ShuffleAbove,    \* scans longer than this are shuffled (5)
    Replies,         \* statuses remote servers give to a recipient
    RateDelays,      \* waits of the rate limiters of recipients and hosts
    SenderDelays,    \* waits of the rate limiters of senders
    ApiOps,          \* management operations in use
    RescheduleIn,    \* how far ahead the API reschedules
    MaxApi,          \* bound: management requests
    Faults,          \* store operations that may fail, "stop" and "restart"
    MaxFaults,       \* bound: faults
    MaxTime,         \* bound: the clock stops there
    AttemptsOutliveLocks,  \* may a worker be at work after its lock expired?
    ManagersLag      \* may a WorkerDone wait until the time it carries is past?

FaultKinds == {"lock", "unlock", "read", "write", "scan", "stop", "restart"}

ApiOp == {"reschedule", "rescheduleAll", "cancel", "delete", "deleteAll", "status"}

ASSUME SpoolAssumption ==
    /\ IsFiniteSet(Node) /\ IsFiniteSet(QueueId)
    /\ Envelopes \subseteq Envelope
    /\ \A env \in Envelopes : env.byReturn => env.by > 0
    /\ MaxThreads \in Nat \ {0}
    /\ LockExpiry \in Nat \ {0} /\ LockBackoff \in Nat
    /\ QueueRefresh \in Nat \ {0} /\ PausedWait \in Nat /\ ShuffleAbove \in Nat
    /\ Replies \subseteq Status \ {"Scheduled"}
    /\ RateDelays \subseteq Nat \ {0} /\ SenderDelays \subseteq Nat \ {0}
    /\ RescheduleIn \subseteq Nat
    /\ ApiOps \subseteq ApiOp /\ Faults \subseteq FaultKinds
    /\ MaxApi \in Nat /\ MaxFaults \in Nat /\ MaxTime \in Nat
    /\ MaxTime <= Horizon
    /\ AttemptsOutliveLocks \in BOOLEAN /\ ManagersLag \in BOOLEAN

VARIABLES
    now,        \* seconds
    message,    \* QueueClass::Message of each queue id
    events,     \* QueueClass::MessageEvent keys
    lock,       \* expiry of the lock of each queue id, 0 when there is none
    quota,      \* queue quota counters
    mgr,        \* the manager of each node
    chan,       \* its channel
    workers,    \* the running delivery tasks
    api,        \* the management request in progress
    queued,     \* history: ids used so far
    delivered,  \* history: completed deliveries of each recipient (up to 2)
    bounced,    \* history: failure reports of each recipient (up to 2)
    budget      \* faults and requests left

store == <<message, events, quota>>
history == <<queued, delivered, bounced>>
vars == <<now, message, events, lock, quota, mgr, chan, workers, api,
          queued, delivered, bounced, budget>>

Event == [q: QueueId, due: Nat]

Hold == [kind: {"None", "InFlight", "Locked"}, until: Nat]

NotHeld == [kind |-> "None", until |-> 0]
InFlight == [kind |-> "InFlight", until |-> 0]

Manager == [alive: BOOLEAN, paused: BOOLEAN, hold: [QueueId -> Hold],
            inFlight: Int, backPressure: BOOLEAN, wakeUp: Nat]

\* Messages of the manager's channel, with every field of QueueEvent.
Refresh == [type |-> "Refresh", q |-> 0, status |-> "Completed", until |-> 0, paused |-> FALSE]
Stop == [Refresh EXCEPT !.type = "Stop"]
Paused(p) == [Refresh EXCEPT !.type = "Paused", !.paused = p]
WorkerDone(w) ==
    [Refresh EXCEPT !.type = "WorkerDone", !.q = w.q, !.status = w.status, !.until = w.until]

ManagerEvent ==
    [type: {"Refresh", "Paused", "Stop", "WorkerDone"}, q: QueueId \cup {0},
     status: {"Completed", "Deferred", "Locked"}, until: Nat, paused: BOOLEAN]

\* A worker inside the section its lock is meant to protect.
Working == {"read", "attempt", "save", "remove", "orphan", "unlock"}

HasWorkerFields(w) ==
    w = [f \in {"node", "q", "due", "pc", "msg", "todo", "next", "status", "until"} |-> w[f]]

IsWorker(w) ==
    /\ HasWorkerFields(w)
    /\ w.node \in Node /\ w.q \in QueueId /\ w.due \in Nat
    /\ w.pc \in Working \cup {"lock", "done"}
    /\ IF w.pc \in {"attempt", "save", "remove"} THEN IsMessage(w.msg) ELSE w.msg = NoMessage
    /\ w.todo \subseteq Domain /\ w.next \in Nat
    /\ w.status \in {"Completed", "Deferred", "Locked"} /\ w.until \in Nat

NewWorker(n, e) ==
    [node |-> n, q |-> e.q, due |-> e.due, pc |-> "lock", msg |-> NoMessage,
     todo |-> {}, next |-> 0, status |-> "Completed", until |-> 0]

IdleApi == [pc |-> "idle"]

IsRequest(a) ==
    /\ a = [pc |-> a.pc, op |-> a.op, node |-> a.node, ids |-> a.ids, q |-> a.q, msg |-> a.msg,
            items |-> a.items, at |-> a.at, changed |-> a.changed, resume |-> a.resume]
    /\ a.op \in ApiOp /\ a.node \in Node /\ a.ids \subseteq QueueId /\ a.q \in QueueId
    /\ \/ a.pc = "read" /\ a.msg = NoMessage
       \/ a.pc = "write" /\ IsMessage(a.msg)
    /\ a.items \subseteq Domain \cup Rcpt /\ a.at \in Nat
    /\ a.changed \in BOOLEAN /\ a.resume \in BOOLEAN

NewManager(t) ==
    [alive |-> TRUE, paused |-> FALSE, hold |-> [q \in QueueId |-> NotHeld],
     inFlight |-> 0, backPressure |-> FALSE, wakeUp |-> t]

Init ==
    /\ now = 1
    /\ message = [q \in QueueId |-> NoMessage]
    /\ events = {}
    /\ lock = [q \in QueueId |-> 0]
    /\ quota = [k \in QuotaId |-> 0]
    /\ mgr = [n \in Node |-> NewManager(1)]
    /\ chan = [n \in Node |-> <<>>]
    /\ workers = {}
    /\ api = IdleApi
    /\ queued = {}
    /\ delivered = [q \in QueueId |-> [r \in Rcpt |-> 0]]
    /\ bounced = [q \in QueueId |-> [r \in Rcpt |-> 0]]
    /\ budget = [faults |-> MaxFaults, api |-> MaxApi]

-------------------------------------------------------------------------------
(* Shared steps. *)

\* Sending to the channel of a manager whose task has ended is an error that
\* is only logged.
Sent(n, ev) == IF mgr[n].alive THEN [chan EXCEPT ![n] = Append(@, ev)] ELSE chan

UseFault(kind) ==
    /\ kind \in Faults /\ budget.faults > 0
    /\ budget' = [budget EXCEPT !.faults = @ - 1]

\* The record of a worker is replaced.
Becomes(w, v) == workers' = (workers \ {w}) \cup {v}

Bump(counts, q, R) ==
    [counts EXCEPT ![q] = [r \in Rcpt |-> IF r \in R /\ @[r] < 2 THEN @[r] + 1 ELSE @[r]]]

\* Message::queue, the batch that makes the message m visible in the spool.
\* The blob it reserves and links is the subject of BlobStore.
Queue(q, m) ==
    /\ message' = [message EXCEPT ![q] = m]
    /\ events' = events \cup {[q |-> q, due |-> NextEvent(m)]}
    /\ quota' = [k \in QuotaId |-> IF k \in m.quotaKeys THEN quota[k] + 1 ELSE quota[k]]
    /\ queued' = queued \cup {q}

\* Mutant: the old event is cleared and no new one is set.
SaveChangesClears(q, m, prev, next) ==
    /\ message' = [message EXCEPT ![q] = ReleaseQuota(m)]
    /\ events' = events \ {[q |-> q, due |-> prev]}
    /\ quota' = [k \in QuotaId |-> IF k \in Releasable(m) THEN quota[k] - 1 ELSE quota[k]]

\* Message::save_changes: one batch that releases quotas, moves the queue event
\* and writes the message.
SaveChanges(q, m, prev, next) ==
    /\ message' = [message EXCEPT ![q] = ReleaseQuota(m)]
    /\ events' = (events \ {[q |-> q, due |-> prev]}) \cup {[q |-> q, due |-> next]}
    /\ quota' = [k \in QuotaId |-> IF k \in Releasable(m) THEN quota[k] - 1 ELSE quota[k]]

\* Message::remove: one batch.
RemoveMessage(q, m, prev) ==
    /\ message' = [message EXCEPT ![q] = NoMessage]
    /\ events' = events \ {[q |-> q, due |-> prev]}
    /\ quota' = [k \in QuotaId |-> IF k \in m.quotaKeys THEN quota[k] - 1 ELSE quota[k]]

-------------------------------------------------------------------------------
(* Submission: a session accepts a message and queues it on its node. *)

Submit(n) ==
    /\ \E q \in QueueId \ queued, env \in Envelopes : Queue(q, BuildMessage(env, now))
    /\ chan' = Sent(n, Refresh)
    /\ UNCHANGED <<now, lock, mgr, workers, api, delivered, bounced, budget>>

-------------------------------------------------------------------------------
(* The queue manager. *)

\* Mutant: a refused worker still counts as in flight.
HandleEventKeepsCount(g, ev) ==
    CASE ev.type = "WorkerDone" /\ ev.status # "Locked" ->
           [g EXCEPT !.inFlight = @ - 1, !.hold[ev.q] = NotHeld]
      [] ev.type = "WorkerDone" /\ ev.status = "Locked" ->
           [g EXCEPT !.hold[ev.q] = [kind |-> "Locked", until |-> ev.until],
                     !.wakeUp = Min({@, ev.until})]
      [] ev.type = "Paused" -> [g EXCEPT !.paused = ev.paused]
      [] ev.type = "Stop" -> [g EXCEPT !.alive = FALSE]
      [] OTHER -> g

\* What a WorkerDone, a Refresh or a Paused does to the manager.
HandleEvent(g, ev) ==
    LET released == [g EXCEPT !.inFlight = @ - 1, !.hold[ev.q] = NotHeld]
    IN CASE ev.type = "WorkerDone" /\ ev.status \in {"Completed", "Deferred"} -> released
         [] ev.type = "WorkerDone" /\ ev.status = "Locked" ->
              IF ev.until < now
              THEN [g EXCEPT !.alive = FALSE]  \* until - now() underflows
              ELSE [released EXCEPT !.hold[ev.q] = [kind |-> "Locked", until |-> ev.until],
                                    !.wakeUp = Min({@, ev.until})]
         [] ev.type = "Paused" -> [g EXCEPT !.paused = ev.paused]
         [] ev.type = "Stop" -> [g EXCEPT !.alive = FALSE]
         [] OTHER -> g

\* Does the event ask for a scan?  h is the manager after it.
RefreshQueue(h, ev) ==
    LET held == {q \in QueueId : h.hold[q] # NotHeld}
    IN \/ ev.type = "Refresh"
       \/ /\ ev.type = "WorkerDone"
          /\ \/ ev.status = "Deferred"
             \/ ev.status = "Completed" /\ held # {}
             \/ ev.status = "Locked" /\ Cardinality(held) > 1
             \/ h.backPressure

\* Server::next_event: all events that are due and the first that is not,
\* when it is due before the next refresh; a scan that fails stops early.
FullScans ==
    LET future == {e \in events : e.due > now /\ e.due <= now + QueueRefresh}
        first == {e \in future : \A f \in future : e.due <= f.due}
        next == IF first = {} THEN {{}} ELSE {{e} : e \in first}
    IN {[due |-> {e \in events : e.due <= now}, next |-> x] : x \in next}

PartialScans ==
    LET ready == {e \in events : e.due <= now}
    IN {[due |-> x, next |-> {}] :
          x \in {y \in SUBSET ready : \A e \in y, f \in ready \ y : e.due <= f.due}}

\* May the loop over the scanned events, having seen the due events in `seen',
\* have dispatched those in `dispatched'?  Events come in ascending order
\* unless the scan was shuffled; a message that is in flight or locked for
\* longer is skipped; the loop stops at the first due event it sees once
\* max_threads workers are in flight.
Dispatches(g, due, seen, dispatched, shuffled) ==
    LET room == MaxThreads - g.inFlight
        Free(q) == g.hold[q].kind = "None" \/ (g.hold[q].kind = "Locked" /\ g.hold[q].until <= now)
        Before(e, f) == shuffled \/ e.due <= f.due
        Same(e) == {f \in seen : f.q = e.q}
    IN /\ \A e \in seen, f \in due \ seen : Before(e, f)
       /\ {e.q : e \in dispatched} = {q \in {e.q : e \in seen} : Free(q)}
       /\ \A e \in dispatched : \A f \in Same(e) : Before(e, f) /\ (f # e => f \notin dispatched)
       /\ Cardinality(dispatched) <= room
       /\ seen # due => Cardinality(dispatched) = room
       /\ Cardinality(dispatched) = room =>
             \E e \in dispatched : Same(e) = {e} /\ \A f \in seen : Before(f, e)

\* Locks that have expired are forgotten when the cleanup interval has passed.
Cleanup(hold) ==
    [q \in QueueId |-> IF hold[q].kind = "Locked" /\ hold[q].until <= now
                       THEN NotHeld ELSE hold[q]]

\* One scan: the events in `dispatched' get a worker each; the manager sleeps
\* until the earliest of the next refresh, the next event and the expiry of
\* the locks it met.
ProcessQueue(n, g, scan) ==
    LET shuffled == Cardinality(scan.due \cup scan.next) > ShuffleAbove
    IN \E seen \in SUBSET scan.due, next \in SUBSET scan.next, cleanup \in BOOLEAN :
       \E dispatched \in SUBSET seen :
       /\ Dispatches(g, scan.due, seen, dispatched, shuffled)
       /\ seen = scan.due => next = scan.next
       /\ seen # scan.due /\ ~shuffled => next = {}
       /\ LET D == {e.q : e \in dispatched}
              hold == [q \in QueueId |-> IF q \in D THEN InFlight ELSE g.hold[q]]
              locked == {g.hold[e.q].until :
                           e \in {f \in seen : /\ g.hold[f.q].kind = "Locked"
                                               /\ g.hold[f.q].until > now}}
          IN mgr' = [mgr EXCEPT ![n] =
                 [g EXCEPT !.hold = IF cleanup THEN Cleanup(hold) ELSE hold,
                           !.inFlight = @ + Cardinality(dispatched),
                           !.backPressure = seen # scan.due,
                           !.wakeUp = At(Min({now + QueueRefresh} \cup locked
                                             \cup {e.due : e \in next}))]]
       /\ workers' = workers \cup {NewWorker(n, e) : e \in dispatched}

Sleep(n, g) ==
    /\ mgr' = [mgr EXCEPT ![n] = g]
    /\ UNCHANGED <<workers, budget>>

\* The rest of the loop's body, for manager state g.
Deliver(n, g, refresh) ==
    LET scans == g.alive /\ ~g.paused /\ (refresh \/ g.wakeUp <= now)
    IN \/ /\ ~g.alive \/ (~g.paused /\ ~scans)
          /\ Sleep(n, g)
       \/ /\ g.alive /\ g.paused
          /\ Sleep(n, [g EXCEPT !.wakeUp = At(now + PausedWait)])
       \/ /\ scans /\ g.inFlight >= MaxThreads
          /\ Sleep(n, [g EXCEPT !.backPressure = TRUE, !.wakeUp = At(now + QueueRefresh)])
       \/ /\ scans /\ g.inFlight < MaxThreads
          /\ \E scan \in FullScans : ProcessQueue(n, g, scan)
          /\ UNCHANGED budget
       \/ /\ scans /\ g.inFlight < MaxThreads
          /\ UseFault("scan")
          /\ \E scan \in PartialScans : ProcessQueue(n, g, scan)

Receive(n) ==
    /\ mgr[n].alive /\ chan[n] # <<>>
    /\ LET ev == Head(chan[n])
           g == HandleEvent(mgr[n], ev)
       IN /\ chan' = [chan EXCEPT ![n] = IF g.alive THEN Tail(@) ELSE <<>>]
          /\ Deliver(n, g, RefreshQueue(g, ev))
    /\ UNCHANGED <<now, store, lock, api, history>>

WakeUp(n) ==
    /\ mgr[n].alive /\ chan[n] = <<>> /\ mgr[n].wakeUp <= now
    /\ Deliver(n, mgr[n], TRUE)
    /\ UNCHANGED <<now, store, lock, chan, api, history>>

-------------------------------------------------------------------------------
(* A delivery worker. *)

\* Mutant: the lock is stored with a shorter life than the worker counts on.
TryLockShort(w) ==
    /\ w.pc = "lock" /\ lock[w.q] <= now
    /\ lock' = [lock EXCEPT ![w.q] = At(now + LockExpiry - 1)]
    /\ Becomes(w, [w EXCEPT !.pc = "read", !.until = At(now + LockExpiry)])
    /\ UNCHANGED <<now, store, mgr, chan, api, history, budget>>

\* Mutant: a lock that exists is refused, expired or not.
TryLockForever(w) ==
    /\ w.pc = "lock"
    /\ \/ /\ lock[w.q] = 0
          /\ lock' = [lock EXCEPT ![w.q] = At(now + LockExpiry)]
          /\ Becomes(w, [w EXCEPT !.pc = "read", !.until = At(now + LockExpiry)])
       \/ /\ lock[w.q] # 0
          /\ Becomes(w, [w EXCEPT !.pc = "done", !.status = "Locked",
                                  !.until = At(now + LockExpiry + LockBackoff)])
          /\ UNCHANGED lock
    /\ UNCHANGED <<now, store, mgr, chan, api, history, budget>>

\* try_lock_event: the lock is taken when there is none or it has expired.  A
\* store error counts as a refusal.
TryLock(w) ==
    /\ w.pc = "lock"
    /\ \/ /\ lock[w.q] <= now
          /\ lock' = [lock EXCEPT ![w.q] = At(now + LockExpiry)]
          /\ Becomes(w, [w EXCEPT !.pc = "read", !.until = At(now + LockExpiry)])
          /\ UNCHANGED budget
       \/ /\ IF lock[w.q] > now THEN UNCHANGED budget ELSE UseFault("lock")
          /\ Becomes(w, [w EXCEPT !.pc = "done", !.status = "Locked",
                                  !.until = At(now + LockExpiry + LockBackoff)])
          /\ UNCHANGED lock
    /\ UNCHANGED <<now, store, mgr, chan, api, history>>

\* send_dsn for message m of worker w: the notification is queued as a message
\* of its own on the worker's node.  A failure to queue it goes unnoticed, and
\* so does the lack of a queue id (a bound of the model).
SendDsn(w, m) ==
    \/ /\ HasDsn(m, now)
       /\ \E q \in QueueId \ queued : Queue(q, DsnMessage(now))
       /\ chan' = Sent(w.node, Refresh)
       /\ bounced' = Bump(bounced, w.q, DsnFor(m, now).failure)
       /\ UNCHANGED budget
    \/ /\ HasDsn(m, now) /\ QueueId \subseteq queued
       /\ bounced' = Bump(bounced, w.q, DsnFor(m, now).failure)
       /\ UNCHANGED <<store, queued, chan, budget>>
    \/ /\ HasDsn(m, now) /\ UseFault("write")
       /\ UNCHANGED <<store, queued, chan, bounced>>
    \/ /\ ~HasDsn(m, now)
       /\ UNCHANGED <<store, queued, chan, bounced, budget>>

\* read_message finds nothing: the message is gone, or the store failed.
ReadNothing(w) ==
    /\ w.pc = "read"
    /\ IF message[w.q] = NoMessage THEN UNCHANGED budget ELSE UseFault("read")
    /\ Becomes(w, [w EXCEPT !.pc = "orphan", !.status = "Completed"])
    /\ UNCHANGED <<now, store, lock, mgr, chan, api, history>>

\* deliver_task up to the delivery itself: expired domains fail, due
\* notifications are sent, and the message is removed, put back because it is
\* not due, put back because its sender is rate limited, or attempted.
StartTask(w) ==
    /\ w.pc = "read" /\ message[w.q] # NoMessage
    /\ LET p == HasPendingDelivery(message[w.q], now)
           m == AfterDsn(p, now)
           due == NextDeliveryEvent(m, now)
           PutBack(t) == [w EXCEPT !.pc = "save", !.msg = m, !.next = t, !.status = "Deferred"]
       IN /\ SendDsn(w, p)
          /\ \/ /\ Pending(m) = {}
                /\ Becomes(w, [w EXCEPT !.pc = "remove", !.msg = m, !.status = "Completed"])
             \/ /\ Pending(m) # {} /\ due > now
                /\ Becomes(w, PutBack(due))
             \/ /\ Pending(m) # {} /\ due <= now
                /\ \E delay \in SenderDelays :
                      Becomes(w, PutBack(ThrottledEvent(m, now, At(now + delay))))
             \/ /\ Pending(m) # {} /\ due <= now
                /\ Becomes(w, [w EXCEPT !.pc = "attempt", !.msg = m, !.todo = DOMAIN m.domains])
    /\ UNCHANGED <<now, lock, mgr, api, delivered>>

\* Delivers one domain; the last one ends the attempt: notifications are sent
\* and the message is put back for its next event or removed.
Attempt(w) ==
    /\ w.pc = "attempt"
    /\ \E d \in w.todo : \E res \in AttemptResults(w.msg, d, now, Replies, RateDelays) :
         LET m == AfterDsn(res.msg, now)
         IN /\ delivered' = Bump(delivered, w.q, res.got)
            /\ \/ /\ w.todo # {d}
                  /\ Becomes(w, [w EXCEPT !.msg = res.msg, !.todo = @ \ {d}])
                  /\ UNCHANGED <<store, queued, chan, bounced, budget>>
               \/ /\ w.todo = {d} /\ HasNextEvent(m)
                  /\ SendDsn(w, res.msg)
                  /\ Becomes(w, [w EXCEPT !.pc = "save", !.msg = m, !.todo = {},
                                          !.next = NextEvent(m), !.status = "Deferred"])
               \/ /\ w.todo = {d} /\ ~HasNextEvent(m)
                  /\ SendDsn(w, res.msg)
                  /\ Becomes(w, [w EXCEPT !.pc = "remove", !.msg = m, !.todo = {},
                                          !.status = "Completed"])
    /\ UNCHANGED <<now, lock, mgr, api>>

\* The worker's last write: saving the message, removing it, or deleting the
\* event of a message that is gone.  The result of the write is not looked at.
Write(w) ==
    /\ \/ w.pc = "save" /\ SaveChanges(w.q, w.msg, w.due, w.next) /\ UNCHANGED budget
       \/ w.pc = "remove" /\ RemoveMessage(w.q, w.msg, w.due) /\ UNCHANGED budget
       \/ /\ w.pc = "orphan"
          /\ events' = events \ {[q |-> w.q, due |-> w.due]}
          /\ UNCHANGED <<message, quota, budget>>
       \/ w.pc \in {"save", "remove", "orphan"} /\ UseFault("write") /\ UNCHANGED store
    /\ Becomes(w, [w EXCEPT !.pc = "unlock", !.msg = NoMessage, !.next = 0])
    /\ UNCHANGED <<now, lock, mgr, chan, api, history>>

\* Mutant: a worker that was refused the lock deletes it too.
FinishUnlocksAlways(w) ==
    /\ w.pc \in {"unlock", "done"}
    /\ lock' = [lock EXCEPT ![w.q] = 0]
    /\ workers' = workers \ {w}
    /\ chan' = Sent(w.node, WorkerDone(w))
    /\ UNCHANGED <<now, store, mgr, api, history, budget>>

\* unlock_event, which deletes the lock whoever holds it, and the report to
\* the manager; a worker that was refused the lock only reports.
Finish(w) ==
    /\ \/ w.pc = "unlock" /\ lock' = [lock EXCEPT ![w.q] = 0] /\ UNCHANGED budget
       \/ w.pc = "unlock" /\ UseFault("unlock") /\ UNCHANGED lock
       \/ w.pc = "done" /\ UNCHANGED <<lock, budget>>
    /\ workers' = workers \ {w}
    /\ chan' = Sent(w.node, WorkerDone(w))
    /\ UNCHANGED <<now, store, mgr, api, history>>

Work(w) ==
    TryLock(w) \/ ReadNothing(w) \/ StartTask(w) \/ Attempt(w) \/ Write(w) \/ Finish(w)

-------------------------------------------------------------------------------
(* The management API.  It takes no lock: a request reads a message, changes *)
(* its copy and writes it back.                                              *)

Bulk == {"rescheduleAll", "deleteAll"}

\* What a request names besides the messages: domains to reschedule,
\* recipients to cancel.
RequestItems(op) ==
    CASE op = "cancel" -> (SUBSET Rcpt) \ {{}}
      [] op = "reschedule" -> (SUBSET Domain) \ {{}}
      [] OTHER -> {Domain}

RequestTimes(op) ==
    IF op \in {"reschedule", "rescheduleAll"} THEN {At(now + x) : x \in RescheduleIn} ELSE {0}

\* A bulk delete pauses the manager first if it is running.
StartRequest(n) ==
    /\ api.pc = "idle"
    /\ \E op \in ApiOps \ {"status"}, ids \in SUBSET {q \in QueueId : message[q] # NoMessage} :
       \E items \in RequestItems(op), at \in RequestTimes(op) :
         LET pauses == op = "deleteAll" /\ ~mgr[n].paused
         IN /\ ids # {} /\ (op \notin Bulk => Cardinality(ids) = 1)
            /\ api' = [pc |-> "read", op |-> op, node |-> n, ids |-> ids,
                       q |-> CHOOSE q \in ids : TRUE, msg |-> NoMessage,
                       items |-> items, at |-> at,
                       changed |-> op = "rescheduleAll", resume |-> pauses]
            /\ chan' = IF pauses THEN Sent(n, Paused(TRUE)) ELSE chan

\* queue/status/stop and queue/status/start.
SetQueueStatus(n) ==
    /\ "status" \in ApiOps
    /\ \E paused \in BOOLEAN : chan' = Sent(n, Paused(paused))
    /\ UNCHANGED api

\* A request to node n: handle_manage_queue.
HandleManageQueue(n) ==
    /\ budget.api > 0 /\ budget' = [budget EXCEPT !.api = @ - 1]
    /\ StartRequest(n) \/ SetQueueStatus(n)
    /\ UNCHANGED <<now, store, lock, mgr, workers, history>>

\* read_message of the next message; one that is gone, or that cannot be read,
\* is skipped.
ReadRequest ==
    /\ api.pc = "read"
    /\ \E q \in api.ids :
         \/ /\ message[q] # NoMessage
            /\ api' = [api EXCEPT !.pc = "write", !.q = q, !.msg = message[q]]
            /\ UNCHANGED budget
         \/ /\ IF message[q] = NoMessage THEN UNCHANGED budget ELSE UseFault("read")
            /\ api' = [api EXCEPT !.ids = @ \ {q}]
    /\ UNCHANGED <<now, store, lock, mgr, chan, workers, history>>

\* The change and the write.  The event to move is taken from the copy.  The
\* partial cancel passes save_changes its two events in the other order: it
\* deletes the new one and keeps the old one.
WriteRequest ==
    /\ api.pc = "write"
    /\ LET m == api.msg
           prev == NextEvent(m)
           moved == Reschedule(m, api.items, api.at)
           cut == CancelDelivery(m, api.items \cap DOMAIN m.rcpts)
           idle == \/ api.op \in {"reschedule", "rescheduleAll"} /\ api.items \cap Pending(m) = {}
                   \/ api.op = "cancel" /\ api.items \cap DOMAIN m.rcpts = {}
       IN /\ \/ idle /\ UNCHANGED <<store, budget>>
             \/ ~idle /\ UseFault("write") /\ UNCHANGED store
             \/ /\ ~idle /\ api.op \in {"reschedule", "rescheduleAll"}
                /\ SaveChanges(api.q, moved, prev, NextEvent(moved))
                /\ UNCHANGED budget
             \/ /\ ~idle /\ api.op = "cancel" /\ HasNextEvent(cut)
                /\ SaveChanges(api.q, cut, NextEvent(cut), prev)
                /\ UNCHANGED budget
             \/ /\ ~idle /\ api.op = "cancel" /\ ~HasNextEvent(cut)
                /\ RemoveMessage(api.q, cut, prev)
                /\ UNCHANGED budget
             \/ /\ api.op \in {"delete", "deleteAll"}
                /\ RemoveMessage(api.q, m, prev)
                /\ UNCHANGED budget
          /\ api' = [api EXCEPT !.pc = "read", !.ids = @ \ {api.q}, !.msg = NoMessage,
                                !.changed = @ \/ ~idle]
    /\ UNCHANGED <<now, lock, mgr, chan, workers, history>>

\* A reschedule wakes the manager up, a bulk delete lets it run again.
EndRequest ==
    /\ api.pc = "read" /\ api.ids = {}
    /\ chan' = IF api.op \in {"reschedule", "rescheduleAll"} /\ api.changed
               THEN Sent(api.node, Refresh)
               ELSE IF api.resume THEN Sent(api.node, Paused(FALSE)) ELSE chan
    /\ api' = IdleApi
    /\ UNCHANGED <<now, store, lock, mgr, workers, history, budget>>

Api == ReadRequest \/ WriteRequest \/ EndRequest

-------------------------------------------------------------------------------
(* Shutdown, crash and restart of a node, and the clock. *)

Shutdown(n) ==
    /\ UseFault("stop")
    /\ chan' = Sent(n, Stop)
    /\ UNCHANGED <<now, store, lock, mgr, workers, api, history>>

\* The process ends wherever it is and starts again: the manager, its channel,
\* the workers and a request in progress are gone, the stores are not.
Restart(n) ==
    /\ UseFault("restart")
    /\ mgr' = [mgr EXCEPT ![n] = NewManager(now)]
    /\ chan' = [chan EXCEPT ![n] = <<>>]
    /\ workers' = {w \in workers : w.node # n}
    /\ api' = IF api # IdleApi /\ api.node = n THEN IdleApi ELSE api
    /\ UNCHANGED <<now, store, lock, history>>

\* A worker at work whose lock the tick would let expire.
LockLost(w) == w.pc \in Working /\ w.until <= now + 1

\* A refusal that the manager would get too late.
RefusalLate(n) ==
    \/ \E w \in workers : w.node = n /\ w.pc = "done" /\ w.until < now + 1
    \/ \E i \in DOMAIN chan[n] :
          chan[n][i].type = "WorkerDone" /\ chan[n][i].status = "Locked" /\ chan[n][i].until < now + 1

Tick ==
    /\ now < MaxTime
    /\ AttemptsOutliveLocks \/ \A w \in workers : ~LockLost(w)
    /\ ManagersLag \/ \A n \in Node : ~RefusalLate(n)
    /\ now' = now + 1
    /\ UNCHANGED <<store, lock, mgr, chan, workers, api, history, budget>>

Next ==
    \/ \E n \in Node :
         \/ Submit(n) \/ Receive(n) \/ WakeUp(n)
         \/ HandleManageQueue(n) \/ Shutdown(n) \/ Restart(n)
    \/ \E w \in workers : Work(w)
    \/ Api
    \/ Tick

\* Tasks that can run do run and the clock goes on: each manager, each
\* worker of a node and the request in progress are scheduled by the runtime.
\* Nothing forces submissions, requests, faults or restarts.
Fairness ==
    /\ \A n \in Node : WF_vars(Receive(n)) /\ WF_vars(WakeUp(n))
    /\ \A n \in Node, q \in QueueId :
         WF_vars(\E w \in workers : w.node = n /\ w.q = q /\ Work(w))
    /\ WF_vars(Api)
    /\ WF_vars(Tick)

Spec == Init /\ [][Next]_vars /\ Fairness

-------------------------------------------------------------------------------
(* Properties. *)

TypeOK ==
    /\ now \in 1 .. MaxTime
    /\ DOMAIN message = QueueId
    /\ \A q \in QueueId : message[q] = NoMessage \/ IsMessage(message[q])
    /\ events \subseteq Event
    /\ lock \in [QueueId -> Nat]
    /\ quota \in [QuotaId -> Int]
    /\ mgr \in [Node -> Manager]
    /\ chan \in [Node -> Seq(ManagerEvent)]
    /\ \A w \in workers : IsWorker(w)
    /\ api = IdleApi \/ IsRequest(api)
    /\ queued \subseteq QueueId
    /\ delivered \in [QueueId -> [Rcpt -> 0 .. 2]]
    /\ bounced \in [QueueId -> [Rcpt -> 0 .. 2]]
    /\ budget \in [faults: 0 .. MaxFaults, api: 0 .. MaxApi]

\* No message is stranded: while the spool holds a message it holds a queue
\* event for it, so some scan finds it.  Events are cleared in save_changes,
\* remove, and by a worker that found no message.
NoStrandedMessage ==
    \A q \in QueueId : message[q] # NoMessage => \E e \in events : e.q = q

\* A message is worked on by one worker at a time, on whatever node: the
\* purpose of try_lock_event.
OneWorkerPerMessage ==
    \A v, w \in workers :
        v.pc \in Working /\ w.pc \in Working /\ v.q = w.q => v = w

\* A message that left the spool never comes back: a worker that read it before
\* does not write it again.
RemovedStaysRemoved ==
    [][\A q \in queued : message[q] = NoMessage => message'[q] = NoMessage]_vars

\* A stored message has a queue event no later than its next retry: it is never
\* forgotten past the time the retry schedule gave it.
RetriedOnTime ==
    \A q \in QueueId : message[q] # NoMessage /\ Pending(message[q]) # {} =>
        \E e \in events :
            e.q = q /\ \A d \in Pending(message[q]) : e.due <= message[q].domains[d].retry

\* What is final stays final: once a stored message records a recipient as
\* delivered or failed, no later write changes that.
FinalStatusStays ==
    [][\A q \in QueueId :
         message[q] # NoMessage /\ message'[q] # NoMessage =>
           \A r \in DOMAIN message[q].rcpts :
             message[q].rcpts[r].status \notin Unfinished =>
               message'[q].rcpts[r] = [message[q].rcpts[r] EXCEPT !.dsnSent = message'[q].rcpts[r].dsnSent]]_vars

\* No recipient is lost silently: when a message with a return path leaves the
\* spool, each recipient was delivered to, or its failure was reported to the
\* sender, or the sender asked not to hear of failures.
NoSilentLoss ==
    [][\A q \in QueueId :
         message[q] # NoMessage /\ message'[q] = NoMessage /\ message[q].returnPath =>
           \A r \in DOMAIN message[q].rcpts :
             \/ delivered[q][r] > 0
             \/ bounced[q][r] > 0
             \/ "failure" \notin message[q].rcpts[r].notify
             \/ "never" \in message[q].rcpts[r].notify]_vars

\* The sender is told of the failure of a recipient once, and not of that of a
\* recipient that was delivered to.
ReportedOnce ==
    \A q \in QueueId, r \in Rcpt : delivered[q][r] + bounced[q][r] <= 1

\* A worker delivers only to recipients that the spool holds as undelivered,
\* whatever crashed or failed before: what is delivered again is what the spool
\* could not record, never what it did.
NoStaleDelivery ==
    [][\A q \in QueueId, r \in Rcpt :
         delivered'[q][r] > delivered[q][r] =>
           message[q] # NoMessage /\ message[q].rcpts[r].status \in Unfinished]_vars

\* in_flight_count counts the messages held as in flight, which are those with
\* a worker or with its report in the channel; it never exceeds max_threads.
InFlightCount ==
    \A n \in Node : mgr[n].alive =>
        LET held == {q \in DOMAIN mgr[n].hold : mgr[n].hold[q] = InFlight}
            mine == {w \in workers : w.node = n}
            reports == {i \in DOMAIN chan[n] : chan[n][i].type = "WorkerDone"}
        IN /\ mgr[n].inFlight = Cardinality(held)
           /\ mgr[n].inFlight = Cardinality(mine) + Cardinality(reports)
           /\ mgr[n].inFlight <= MaxThreads
           /\ held = {w.q : w \in mine} \cup {chan[n][i].q : i \in reports}

\* The quota counters count the keys of the messages in the spool: nothing is
\* released twice and nothing is lost.
QuotaAccounts ==
    \A k \in QuotaId :
        quota[k] = Cardinality({q \in QueueId : message[q] # NoMessage /\ k \in message[q].quotaKeys})

\* The queue drains: every message leaves the spool in the end, delivered,
\* failed or expired, and so does every queue event.
QueueDrains == []<>(events = {} /\ \A q \in QueueId : message[q] = NoMessage)

-------------------------------------------------------------------------------
(* The inductive invariant of the spool and its locks. *)

\* What the argument needs of the types.
SpoolTypes ==
    /\ now \in 1 .. MaxTime
    /\ DOMAIN message = QueueId
    /\ lock \in [QueueId -> Nat]
    /\ api = IdleApi
    /\ \A w \in workers :
         HasWorkerFields(w) /\ w.until \in Nat /\ w.pc \in Working \cup {"lock", "done"}

\* Events and workers belong to messages that were queued.
KnownIds ==
    /\ queued \subseteq QueueId
    /\ \A e \in events : e.q \in queued
    /\ \A w \in workers : w.q \in queued
    /\ \A q \in QueueId : message[q] # NoMessage => q \in queued

\* A worker at work holds the lock of its message, and it has not expired.
LockHeld ==
    \A w \in workers : w.pc \in Working => lock[w.q] = w.until /\ w.until > now

\* A worker that has read a message works on one that is in the spool; one
\* that found nothing is right about it.
WorkersAgree ==
    \A w \in workers :
        /\ w.pc \in {"attempt", "save", "remove"} => message[w.q] # NoMessage
        /\ w.pc = "orphan" => message[w.q] = NoMessage

SpoolInv ==
    /\ SpoolTypes /\ KnownIds /\ LockHeld /\ OneWorkerPerMessage
    /\ WorkersAgree /\ NoStrandedMessage
===============================================================================
