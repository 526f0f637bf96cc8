------------------------------ MODULE MCChanges ------------------------------
(***************************************************************************)
(* How a change to an account reaches those who follow it, checked         *)
(* together: clients and push subscriptions of the state manager, the push *)
(* manager's requests, the change log, and the queue of tasks by which     *)
(* messages are indexed.  The components share no variables, so it is      *)
(* enough to let one move at a time: part is chosen at the start.          *)
(***************************************************************************)
EXTENDS StateManager, TLC

VARIABLES
    part,   \* the instance that moves
    \* PushManager
    subs, retryIds, retryAge, timer, queue, air, pLatest, done, fails, updates,
    \* ChangeLog
    lClock, seq, items, log, writer, writes, drawn, past, state, copy, fetch, qstate, list, answer,
    \* EmailTasks
    now, email, terms, eTasks, eSeq, locks, plock, permit, loop, purge, reindex, trained, faults

CONSTANT NoMail \* a document id that is free

Listeners == INSTANCE StateManager WITH
    Key <- {"s"}, OwnKeys <- {}, MaxPublished <- 1, MaxRestarts <- 1, MaxGrants <- 1, MaxErrors <- 1

Register == INSTANCE StateManager WITH
    Sources <- {}, Sockets <- {}, Slot <- {1, 2}, Requests <- {"r"}, MaxPublished <- 0,
    MaxSets <- 4, MaxTime <- 1, Life <- 3, MaxErrors <- 1

Pushing == INSTANCE PushManager WITH
    Id <- {"p1", "p2"}, MaxChanges <- 3, MaxFails <- 2, MaxUpdates <- 0, Throttle <- 1,
    AttemptInterval <- 1, RetryInterval <- 1, AttemptsMax <- 2, latest <- pLatest

Ending == INSTANCE PushManager WITH
    Id <- {"p1"}, MaxChanges <- 3, MaxFails <- 3, MaxUpdates <- 1, Throttle <- 1,
    AttemptInterval <- 2, RetryInterval <- 2, AttemptsMax <- 2, latest <- pLatest

Pages == INSTANCE ChangeLog WITH
    NumItems <- 3, NumNodes <- 1, NumWriters <- 1, SeqLen <- 4, MaxChanges <- 3, MaxTime <- 1,
    PageSize <- 1, Clients <- {"copy"}, Mutable <- TRUE, Reuse <- FALSE, Serial <- TRUE,
    Truncates <- FALSE, clock <- lClock

Indexing == INSTANCE EmailTasks WITH
    Node <- {"n1"}, Doc <- {"d1"}, Hash <- {"h1"}, NoEmail <- NoMail, IndexExpiry <- 1,
    TrainExpiry <- 1, PurgeExpiry <- 1, MaxSeq <- 2, MaxTime <- 2, Horizon <- 2,
    Faults <- {"lock", "read", "index", "clear", "crash"}, MaxFaults <- 1,
    PurgeMeetsIndexer <- TRUE, LocksOutlasted <- TRUE, tasks <- eTasks, seq <- eSeq

ASSUME SumFit ==
    /\ Pushing!PushAssumption /\ Pages!LogAssumption /\ Indexing!TaskAssumption

push == <<subs, retryIds, retryAge, timer, queue, air, pLatest, done, fails, updates>>
changelog == <<lClock, seq, items, log, writer, writes, drawn, past, state, copy, fetch, qstate,
               list, answer>>
index == <<now, email, terms, eTasks, eSeq, locks, plock, permit, loop, purge, reindex, trained,
           faults>>
SumVars == <<part, vars, push, changelog, index>>

SumInit ==
    /\ part \in {"told", "clients", "register", "push", "ending", "pages", "tasks"}
    /\ CASE part = "clients" -> Listeners!Init
         [] part = "register" -> Register!Init
         [] OTHER -> Init
    /\ IF part = "ending" THEN Ending!Init ELSE Pushing!Init
    /\ Pages!Init
    /\ Indexing!Init

\* A step of one instance; nothing else moves.
State(p, A) == part = p /\ A /\ UNCHANGED <<part, push, changelog, index>>
Push(p, A) == part = p /\ A /\ UNCHANGED <<part, vars, changelog, index>>
Log(p, A) == part = p /\ A /\ UNCHANGED <<part, vars, push, index>>
Index(p, A) == part = p /\ A /\ UNCHANGED <<part, vars, push, changelog>>

SumNext ==
    \/ State("told", Next) \/ State("clients", Listeners!Next)
    \/ State("register", Register!Next)
    \/ Push("push", Pushing!Next) \/ Push("ending", Ending!Next)
    \/ Log("pages", Pages!Next)
    \/ Index("tasks", Indexing!Next)

\* The fairness of each component.
SumFairness ==
    /\ WF_SumVars(State("told", Published)) /\ WF_SumVars(State("told", Receive)) /\ WF_SumVars(State("told", TaskStep))
    /\ \A c \in Client : WF_SumVars(State("told", Collect(c))) /\ WF_SumVars(State("told", Flush(c)))
    /\ WF_SumVars(State("register", Register!RequestStep("r"))) /\ WF_SumVars(State("register", Register!Receive))
    /\ WF_SumVars(Push("push", Pushing!Receive)) /\ WF_SumVars(Push("push", Pushing!Timeout))
    /\ WF_SumVars(Push("push", Pushing!Tick)) /\ WF_SumVars(Push("push", Pushing!Answered))
    /\ WF_SumVars(Push("ending", Ending!Receive)) /\ WF_SumVars(Push("ending", Ending!Timeout))
    /\ WF_SumVars(Push("ending", Ending!Tick)) /\ WF_SumVars(Push("ending", Ending!Answered))
    /\ \A w \in Pages!Writer : WF_SumVars(Log("pages", Pages!WriterStep(w)))
    /\ WF_SumVars(Log("pages", Pages!GetState)) /\ WF_SumVars(Log("pages", Pages!Fetch))
    /\ WF_SumVars(Log("pages", Pages!Changes))
    /\ WF_SumVars(Index("tasks", Indexing!Tick)) /\ WF_SumVars(Index("tasks", Indexing!Loop("n1")))

SumSpec == SumInit /\ [][SumNext]_SumVars /\ SumFairness

-------------------------------------------------------------------------------
(* Properties. *)


\* Every change that was published stays with the push manager until it reached the URL, was
\* given up or went with its subscription; one that is on its way stays so until then, and
\* gets there, though changes meet a request under way, requests fail until the manager gives
\* up and the subscription ends (PushManager).  What waits when an earlier request succeeds
\* is not on its way, until the next change comes.
PushTold ==
    /\ [](/\ part = "push" => Pushing!NoneLost
          /\ part = "ending" => Ending!NoneLost)
    /\ [][/\ part = "push" => Pushing!StaysOnItsWay
          /\ part = "ending" => Ending!StaysOnItsWay]_push
    /\ <>[](/\ part = "push" => Pushing!Arrived
            /\ part = "ending" => Ending!Arrived)

\* In the end the copy of a client that reads the log page by page is what the account holds
\* (ChangeLog: Foo/changes with hasMoreChanges, and Foo/get in between).
PagesConverge == <>[](part = "pages" => copy = items)

\* If the queue is looked at again and again, a task does not stay in it for ever, whatever
\* fails once and whatever lock is left behind by a crash (EmailTasks).
TasksEnd ==
    []<>(part = "tasks" => permit["n1"]) =>
        \A s \in 1..2 : (part = "tasks" /\ \E t \in eTasks : t.seq = s) ~> (\A t \in eTasks : t.seq # s)
================================================================================
