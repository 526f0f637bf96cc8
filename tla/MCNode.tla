------------------------------ MODULE MCNode ------------------------------
(***************************************************************************)
(* The background tasks of a node, checked together: the housekeeper, the  *)
(* reports to other domains, the channel of events and its tracers.  The   *)
(* components share no variables, so a behaviour of all of them is, for    *)
(* each, one of its own, and it is enough to let one move at a time.       *)
(***************************************************************************)
EXTENDS Housekeeper

VARIABLES
    part,   \* the instance that moves
    \* ReportScheduler
    now, headers, records, locks, pc, wake, deadline, event, rTask, sent, excused, count,
    rCrashes, rFails,
    \* EventChannel
    cSent, thread, ring, overflow, flags, token, updates, cPc, at, receivers, closed, spans,
    batch, channel, traced, before, exits,
    \* Tracers
    settings, reload, tUpdates, active, subscribers, running, spawned, tReloads,
    \* WebhookTracer
    age, wChannel, pending, next, wWake, inFlight, post, got, discarded, wFails

\* Every class has its own interval, so that entries meet in different orders.
Intervals(classes) ==
    [c \in classes |-> CASE c = "store" -> 2 [] c = "acme" -> 3 [] c = "internal" -> 1 [] OTHER -> 2]

StoreInterval == Intervals({"store"})

\* A DMARC report and TLS reports of one domain.
Dmarc == [kind |-> "dmarc", domain |-> "d", policy |-> 1]
Tls(p) == [kind |-> "tls", domain |-> "d", policy |-> p]
ReportInterval(src) == 2

Runs == INSTANCE Housekeeper WITH
    Node <- {"n"}, Renewers <- {"n"}, Classes <- {"acme", "otel", "internal"},
    Interval <- Intervals({"acme", "otel", "internal"}), LockTtl <- 2, MaxTasks <- 1,
    MaxReloads <- 2, MaxFails <- 2

Reports == INSTANCE ReportScheduler WITH
    Nodes <- {"n1"}, Sources <- {Dmarc, Tls(1), Tls(2)}, Interval <- ReportInterval,
    ReportRefresh <- 3, LockExpiry <- 4, MaxRecords <- 2, MaxTime <- 4, MaxEvents <- 2,
    MaxTasks <- 1, MaxCrashes <- 1, MaxFails <- 1, Failing <- {"write", "lock", "read", "delete", "unlock"},
    SlowWrites <- FALSE, SlowTasks <- TRUE, task <- rTask, crashes <- rCrashes, fails <- rFails

Events == INSTANCE EventChannel WITH
    Thread <- {"t", "u"}, Span <- {"s", "r"}, Tracer <- {"x"}, Home <- [s |-> "t", r |-> "u"],
    EndNo <- 2, Ring <- 4, OverflowMax <- 2, Room <- 8, MaxBatch <- 8, Lossy <- {}, Errors <- {},
    Migrate <- FALSE, MaxExits <- 0, MayStop <- FALSE, sent <- cSent, pc <- cPc

\* The collector may be told to stop, and the thread may end.
Stopping == INSTANCE EventChannel WITH
    Thread <- {"t"}, Span <- {"s"}, Tracer <- {"x"}, Home <- [s |-> "t"],
    EndNo <- 4, Ring <- 2, OverflowMax <- 2, Room <- 8, MaxBatch <- 8, Lossy <- {}, Errors <- {},
    Migrate <- FALSE, MaxExits <- 1, MayStop <- TRUE, sent <- cSent, pc <- cPc

Reloading == INSTANCE Tracers WITH
    Id <- {"x", "y", "z"}, Webhook <- {}, Manager <- {"a", "b"}, MaxTask <- 5, MaxReloads <- 4,
    MayStop <- {}, Spaced <- TRUE, updates <- tUpdates, reloads <- tReloads

Webhook == INSTANCE WebhookTracer WITH
    Event <- {"e", "f"}, Throttle <- 2, DiscardAfter <- 3, PostTime <- 1, MaxFails <- 2,
    channel <- wChannel, wake <- wWake, fails <- wFails

ASSUME SumFit ==
    /\ Reports!ReportAssumption /\ Events!EventChannelAssumption /\ Stopping!EventChannelAssumption
    /\ Reloading!TracersAssumption /\ Webhook!WebhookAssumption

reports == <<now, headers, records, locks, pc, wake, deadline, event, rTask, sent, excused, count,
             rCrashes, rFails>>
chan == <<cSent, thread, ring, overflow, flags, token, updates, cPc, at, receivers, closed, spans,
          batch, channel, traced, before, exits>>
tracers == <<settings, reload, tUpdates, active, subscribers, running, spawned, tReloads>>
hook == <<age, wChannel, pending, next, wWake, inFlight, post, got, discarded, wFails>>
SumVars == <<part, vars, reports, chan, tracers, hook>>

SumInit ==
    /\ part \in {"purge", "runs", "reports", "events", "stopping", "tracers", "webhook"}
    /\ IF part = "runs" THEN Runs!Init ELSE Init
    /\ Reports!Init
    /\ IF part = "stopping" THEN Stopping!Init ELSE Events!Init
    /\ Reloading!Init
    /\ Webhook!Init

\* A step of one instance; nothing else moves.
House(p, A) == part = p /\ A /\ UNCHANGED <<part, reports, chan, tracers, hook>>
Report(p, A) == part = p /\ A /\ UNCHANGED <<part, vars, chan, tracers, hook>>
Channel(p, A) == part = p /\ A /\ UNCHANGED <<part, vars, reports, tracers, hook>>
Tracing(p, A) == part = p /\ A /\ UNCHANGED <<part, vars, reports, chan, hook>>
Hook(p, A) == part = p /\ A /\ UNCHANGED <<part, vars, reports, chan, tracers>>

SumNext ==
    \/ House("purge", Next) \/ House("runs", Runs!Next)
    \/ Report("reports", Reports!Next)
    \/ Channel("events", Events!Next) \/ Channel("stopping", Stopping!Next)
    \/ Tracing("tracers", Reloading!Next)
    \/ Hook("webhook", Webhook!Next)

\* The fairness of each component.
SumFairness ==
    /\ WF_SumVars(House("runs", Runs!Tick)) /\ WF_SumVars(House("runs", Runs!Receive("n")))
    /\ \A k \in {"init", "renew"} : WF_SumVars(House("runs", Runs!Renewed("n", k)))
    /\ \A c \in {"acme", "otel", "internal"} : WF_SumVars(House("runs", Runs!Run("n", c)))
    /\ WF_SumVars(House("purge", Tick))
    /\ \A t \in Task : WF_SumVars(House("purge", TaskStep(t)))
    /\ \A n \in {"n", "m"} : /\ WF_SumVars(House("purge", Receive(n)))
                             /\ WF_SumVars(House("purge", Run(n, "store")))
    /\ WF_SumVars(Report("reports", Reports!Tick)) /\ WF_SumVars(Report("reports", Reports!SchedulerStep("n1")))
    /\ \A t \in Reports!Task : WF_SumVars(Report("reports", Reports!TaskStep(t)))
    /\ WF_SumVars(Channel("events", Events!CollectorStep)) /\ WF_SumVars(Channel("events", Events!Trace("x")))
    /\ \A t \in {"t", "u"} : WF_SumVars(Channel("events", Events!ThreadStep(t)))
    /\ WF_SumVars(Tracing("tracers", Reloading!Update)) /\ WF_SumVars(Tracing("tracers", Reloading!Dropped))
    /\ \A a \in {"a", "b"} : WF_SumVars(Tracing("tracers", Reloading!Apply(a)))
    /\ WF_SumVars(Hook("webhook", Webhook!Receive)) /\ WF_SumVars(Hook("webhook", Webhook!Timeout))
    /\ WF_SumVars(Hook("webhook", Webhook!Tick)) /\ \A t \in Webhook!Post : WF_SumVars(Hook("webhook", Webhook!PostStep(t)))

SumSpec == SumInit /\ [][SumNext]_SumVars /\ SumFairness

-------------------------------------------------------------------------------
(* Properties. *)

\* What is to be done at intervals is done again and again, and stores are purged again and
\* again, whatever renewals, locks and reloads fail and whatever nodes crash (Housekeeper).
WorkRecurs ==
    /\ \A c \in {"acme", "internal"} : []<>(part = "runs" => ran = [node |-> "n", class |-> c])
    /\ []<>(part = "purge" => Purging)

\* A record is deleted only after a report with it was sent, or nobody was to get it, and in
\* the end all are deleted, despite a crash and a failure of the store at any point
\* (send_dmarc_aggregate_report, send_tls_aggregate_report, delete_tls_report: ReportScheduler).
AllReported ==
    /\ [][Reports!NoneLostStep]_reports
    /\ <>[](part = "reports" => Reports!Reported)

\* What tasks send reaches every tracer, each span in its order, no wake-up of the collector is
\* lost, and what was sent before the collector is told to stop is not dropped (EventChannel);
\* in the end the tracers that run are those of the last settings (Tracers), and what
\* happened has reached the webhook or was discarded as stale (WebhookTracer).
Traced ==
    /\ [](/\ part = "events" => Events!InOrder
          /\ part = "stopping" => Stopping!InOrder /\ Stopping!FinalFlush)
    /\ <>[](/\ part = "events" => Events!AllGot
            /\ part = "tracers" => Reloading!UpToDate /\ Reloading!NoneLeft
            /\ part = "webhook" => Webhook!Settled)
================================================================================
