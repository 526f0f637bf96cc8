----------------------------- MODULE QueueMessage -----------------------------
(***************************************************************************)
(* A queued message of the SMTP server and the pure operations on it:      *)
(* crates/smtp/src/queue/{mod,manager,dsn,quota,throttle,spool}.rs and the *)
(* status updates of crates/smtp/src/outbound/{delivery,session,local}.rs. *)
(*                                                                         *)
(* A message carries one record per recipient domain (status, retry and    *)
(* notification schedules, expiry) and one per recipient (status, whether  *)
(* its fate has been reported, the NOTIFY options).  Addresses, responses  *)
(* and the text of a notification are left out: only who is reported as    *)
(* what is kept.  Operations take the message and the current time and     *)
(* return the new message.                                                 *)
(***************************************************************************)
EXTENDS Integers, Sequences, FiniteSets, FiniteSetsExt

CONSTANTS
    Domain,          \* recipient domains
    Rcpt,            \* recipient addresses
    DomainOf,        \* the domain of each recipient
    Sender,          \* the recipient that is the senders' own address
    RetrySchedule,   \* configured retry intervals, a non-empty sequence
    NotifySchedule,  \* configured delay notification intervals, non-empty
    ExpireIn,        \* configured expiry
    NotifySlack,     \* the 10 seconds added to expires to silence a notify
    QuotaId,         \* what queue quotas are configured for: domains, recipients
    Horizon          \* latest time the model tells apart

ASSUME MessageAssumption ==
    /\ IsFiniteSet(Rcpt) /\ IsFiniteSet(Domain)
    /\ DomainOf \in [Rcpt -> Domain]
    /\ Sender \in Rcpt
    /\ RetrySchedule \in Seq(Nat) /\ RetrySchedule # <<>>
    /\ NotifySchedule \in Seq(Nat) /\ NotifySchedule # <<>>
    /\ ExpireIn \in Nat /\ NotifySlack \in Nat /\ Horizon \in Nat
    /\ QuotaId \subseteq Domain \cup Rcpt

-------------------------------------------------------------------------------

Status == {"Scheduled", "Completed", "TemporaryFailure", "PermanentFailure"}

Unfinished == {"Scheduled", "TemporaryFailure"}

NotifyFlag == {"never", "success", "failure", "delay"}

DomainState == [status: Status, retry: Nat, retryNum: Nat,
                notify: Nat, notifyNum: Nat, expires: Nat]

RcptState == [status: Status, dsnSent: BOOLEAN, notify: SUBSET NotifyFlag]

\* A queued message.
IsMessage(m) ==
    /\ m = [returnPath |-> m.returnPath, domains |-> m.domains,
            rcpts |-> m.rcpts, quotaKeys |-> m.quotaKeys]
    /\ m.returnPath \in BOOLEAN
    /\ DOMAIN m.domains \subseteq Domain
    /\ m.domains \in [DOMAIN m.domains -> DomainState]
    /\ DOMAIN m.rcpts \subseteq Rcpt
    /\ m.rcpts \in [DOMAIN m.rcpts -> RcptState]
    /\ \A r \in DOMAIN m.rcpts : DomainOf[r] \in DOMAIN m.domains
    /\ m.quotaKeys \subseteq QuotaId

\* Times beyond the horizon are all the same time.
At(t) == IF t > Horizon THEN Horizon ELSE t

RcptsOf(m, d) == {r \in DOMAIN m.rcpts : DomainOf[r] = d}

Pending(m) == {d \in DOMAIN m.domains : m.domains[d].status \in Unfinished}

\* f applied to the domains in D, g to the recipients in R.
WithDomains(m, D, f(_)) ==
    [m EXCEPT !.domains =
        [d \in DOMAIN m.domains |-> IF d \in D THEN f(m.domains[d]) ELSE m.domains[d]]]

WithRcpts(m, R, g(_)) ==
    [m EXCEPT !.rcpts =
        [r \in DOMAIN m.rcpts |-> IF r \in R THEN g(m.rcpts[r]) ELSE m.rcpts[r]]]

-------------------------------------------------------------------------------
(* When the queue has to look at the message again. *)

EventTimes(m) ==
    UNION {{m.domains[d].retry, m.domains[d].notify, m.domains[d].expires} : d \in Pending(m)}

HasNextEvent(m) == Pending(m) # {}

\* Mutant: the latest event.
LatestEvent(m) == IF HasNextEvent(m) THEN Max(EventTimes(m)) ELSE 0

\* next_event().unwrap_or_default()
NextEvent(m) == IF HasNextEvent(m) THEN Min(EventTimes(m)) ELSE 0

NextDeliveryEvent(m, t) ==
    IF Pending(m) = {} THEN t ELSE Min({m.domains[d].retry : d \in Pending(m)})

\* min(retry_at, next_event_after(now).unwrap_or(u64::MAX)): when a rate
\* limited sender is looked at again.
ThrottledEvent(m, t, retryAt) ==
    Min({retryAt} \cup {u \in EventTimes(m) : u > t})

-------------------------------------------------------------------------------
(* Building a message. *)

\* A message a session may accept: recipients, NOTIFY options, the hold of
\* FUTURERELEASE and the deadline of BY (0: none; one that asks for a return is
\* positive, the session rejects the others).
Envelope == [rcpts: SUBSET Rcpt, notify: SUBSET NotifyFlag,
             release: Nat, by: Int, byReturn: BOOLEAN]

\* The schedules of a recipient domain of a message accepted at time t.
SubmittedDomain(env, t) ==
    LET default == env.by = 0 \/ env.byReturn
        wait == IF env.by > 0 THEN env.by ELSE -env.by
        notifyIn == IF default \/ ExpireIn <= wait THEN NotifySchedule[1]
                    ELSE IF env.by > 0 THEN wait ELSE ExpireIn - wait
        expireIn == IF env.by = 0 THEN env.release + ExpireIn
                    ELSE IF env.byReturn THEN env.by ELSE ExpireIn
    IN [status |-> "Scheduled",
        retry |-> At(t + env.release), retryNum |-> 0,
        notify |-> At(t + env.release + notifyIn),
        notifyNum |-> IF default THEN 0 ELSE Len(NotifySchedule) - 1,
        expires |-> At(t + expireIn)]

\* Session::build_message; the quota keys are those has_quota collects.
BuildMessage(env, t) ==
    LET D == {DomainOf[r] : r \in env.rcpts}
    IN [returnPath |-> TRUE,
        domains |-> [d \in D |-> SubmittedDomain(env, t)],
        rcpts |-> [r \in env.rcpts |->
                     [status |-> "Scheduled", dsnSent |-> FALSE,
                      notify |-> IF env.notify = {} THEN {"delay", "failure"}
                                 ELSE env.notify]],
        quotaKeys |-> (D \cup env.rcpts) \cap QuotaId]

\* The message send_dsn builds for the original's return path: an empty return
\* path, no NOTIFY options, no quota keys, no delay notification.
DsnMessage(t) ==
    [returnPath |-> FALSE,
     domains |-> [d \in {DomainOf[Sender]} |->
                    [status |-> "Scheduled", retry |-> t, retryNum |-> 0,
                     notify |-> At(t + ExpireIn + NotifySlack), notifyNum |-> 0,
                     expires |-> At(t + ExpireIn)]],
     rcpts |-> [r \in {Sender} |->
                  [status |-> "Scheduled", dsnSent |-> FALSE, notify |-> {}]],
     quotaKeys |-> {}]

-------------------------------------------------------------------------------
(* Delivery attempts. *)

\* Marks as failed the domains that reached their expiration time; their
\* recipients that had failed temporarily have now failed permanently.
HasPendingDelivery(m, t) ==
    LET expired == {d \in Pending(m) : m.domains[d].expires <= t}
        failed == {r \in DOMAIN m.rcpts :
                     DomainOf[r] \in expired /\ m.rcpts[r].status = "TemporaryFailure"}
    IN WithRcpts(WithDomains(m, expired, LAMBDA d: [d EXCEPT !.status = "PermanentFailure"]),
                 failed, LAMBDA r: [r EXCEPT !.status = "PermanentFailure"])

\* Domain::set_status with Domain::retry.
SetStatus(d, status, t) ==
    IF status \in Unfinished
    THEN [d EXCEPT !.status = status,
                   !.retry = At(t + RetrySchedule[Min({d.retryNum + 1, Len(RetrySchedule)})]),
                   !.retryNum = @ + 1]
    ELSE [d EXCEPT !.status = status]

SetRateLimiterError(d, retryAt) ==
    [d EXCEPT !.retry = retryAt, !.status = "TemporaryFailure"]

\* The domains an attempt at time t works on.
DueDomains(m, t) == {d \in Pending(m) : m.domains[d].retry <= t}

\* Mutant: recipients that have failed are tried again.
UndeliveredOrFailed(m, d) == {r \in RcptsOf(m, d) : m.rcpts[r].status # "Completed"}

\* The recipients of d that a session still has to deliver to.
Undelivered(m, d) == {r \in RcptsOf(m, d) : m.rcpts[r].status \in Unfinished}

\* What an SMTP, LMTP or local session may do to the undelivered recipients of
\* a domain: a session that runs to its end gives every one of them a status,
\* and the domain is Completed when none is left; a session that is cut short
\* leaves the accepted recipients as they were, keeps the rejections of the
\* RCPT phase and gives the domain an error, which is permanent only when the
\* server rejected the whole transaction (MAIL, or DATA after some RCPT was
\* accepted), and Scheduled only when no host could be tried.
SessionResult(m, d, reply) ==
    LET P == Undelivered(m, d)
        Unchanged(g) == {r \in P : g[r] = "Unchanged"}
    IN {[rcpts |-> g, domain |-> IF \A r \in P : g[r] # "TemporaryFailure"
                                 THEN "Completed" ELSE "Scheduled"] :
            g \in [P -> reply]}
       \cup
       {[rcpts |-> x[1], domain |-> x[2]] :
            x \in {y \in [P -> (reply \ {"Completed"}) \cup {"Unchanged"}]
                         \X {"TemporaryFailure", "PermanentFailure", "Scheduled"} :
                     /\ y[2] = "PermanentFailure" => P = {} \/ Unchanged(y[1]) # {}
                     /\ y[2] = "Scheduled" => Unchanged(y[1]) = P}}

\* The message after the session for domain d ended at time t with result s.
AfterSession(m, d, s, t) ==
    LET touched == {r \in DOMAIN s.rcpts : s.rcpts[r] # "Unchanged"}
    IN [m EXCEPT !.domains[d] = SetStatus(@, s.domain, t),
                 !.rcpts = [r \in DOMAIN m.rcpts |->
                              IF r \in touched
                              THEN [m.rcpts[r] EXCEPT !.status = s.rcpts[r]]
                              ELSE m.rcpts[r]]]

\* What an attempt at domain d at time t may make of the message, and who has
\* then received it: nothing when d is not due, a rate limit, or a session.
AttemptResults(m, d, t, replies, delays) ==
    IF d \notin DueDomains(m, t) THEN {[msg |-> m, got |-> {}]}
    ELSE {[msg |-> [m EXCEPT !.domains[d] = SetRateLimiterError(@, At(t + delay))],
           got |-> {}] : delay \in delays}
         \cup
         {[msg |-> AfterSession(m, d, s, t),
           got |-> {r \in DOMAIN s.rcpts : s.rcpts[r] = "Completed"}] :
               s \in SessionResult(m, d, replies)}

-------------------------------------------------------------------------------
(* Delivery status notifications. *)

Unreported(m) ==
    {r \in DOMAIN m.rcpts : ~m.rcpts[r].dsnSent /\ "never" \notin m.rcpts[r].notify}

DomainStatus(m, r) == m.domains[DomainOf[r]].status

\* The recipients a notification covers; one without a status of its own has
\* its domain's.
Succeeded(m) == {r \in Unreported(m) : m.rcpts[r].status = "Completed"}

\* Mutant: only recipients with a failure of their own.
FailedThemselves(m) == {r \in Unreported(m) : m.rcpts[r].status = "PermanentFailure"}

Failed(m) ==
    {r \in Unreported(m) :
        \/ m.rcpts[r].status = "PermanentFailure"
        \/ m.rcpts[r].status = "Scheduled" /\ DomainStatus(m, r) = "PermanentFailure"}

Delayed(m, t) ==
    {r \in Unreported(m) :
        /\ "delay" \in m.rcpts[r].notify
        /\ m.domains[DomainOf[r]].notify <= t
        /\ \/ m.rcpts[r].status = "TemporaryFailure"
           \/ m.rcpts[r].status = "Scheduled" /\ DomainStatus(m, r) \in Unfinished}

\* Who the notification built at time t reports; nobody: none is sent.
DsnFor(m, t) ==
    IF ~m.returnPath
    THEN [success |-> {}, failure |-> {}, delay |-> {}]
    ELSE [success |-> {r \in Succeeded(m) : "success" \in m.rcpts[r].notify},
          failure |-> {r \in Failed(m) : "failure" \in m.rcpts[r].notify},
          delay |-> Delayed(m, t)]

HasDsn(m, t) == \E kind \in {"success", "failure", "delay"} : DsnFor(m, t)[kind] # {}

\* The next delay notification of a domain, or the one that never comes.
Renotify(d, t) ==
    IF d.notifyNum + 2 <= Len(NotifySchedule)
    THEN [d EXCEPT !.notify = At(t + NotifySchedule[d.notifyNum + 2]), !.notifyNum = @ + 1]
    ELSE [d EXCEPT !.notify = At(d.expires + NotifySlack)]

\* Mutant: who was reported is not marked.
BuildDsnUnmarked(m, t) ==
    WithDomains(m, {d \in Pending(m) : m.domains[d].notify <= t}, LAMBDA d: Renotify(d, t))

\* Message::build_dsn: what it changes in the message.
BuildDsn(m, t) ==
    LET marked == WithRcpts(m, Succeeded(m) \cup Failed(m),
                            LAMBDA r: [r EXCEPT !.dsnSent = TRUE])
        notified == {d \in Pending(m) : m.domains[d].notify <= t}
    IN IF Delayed(m, t) = {} THEN marked
       ELSE WithDomains(marked, notified, LAMBDA d: Renotify(d, t))

\* Message::handle_double_bounce: a message without a return path only marks
\* its failures and silences the delay notifications.
HandleDoubleBounce(m, t) ==
    WithDomains(WithRcpts(m, Failed(m), LAMBDA r: [r EXCEPT !.dsnSent = TRUE]),
                {d \in DOMAIN m.domains : m.domains[d].notify <= t},
                LAMBDA d: [d EXCEPT !.notify = At(d.expires + NotifySlack)])

AfterDsn(m, t) == IF m.returnPath THEN BuildDsn(m, t) ELSE HandleDoubleBounce(m, t)

-------------------------------------------------------------------------------
(* Queue quotas. *)

\* The quota keys release_quota gives back: those of finished domains and
\* recipients.
Releasable(m) ==
    {k \in m.quotaKeys :
        \/ k \in DOMAIN m.domains /\ m.domains[k].status \notin Unfinished
        \/ k \in DOMAIN m.rcpts /\ m.rcpts[k].status \notin Unfinished}

\* Mutant: released keys stay in the message.
ReleaseQuotaKeeps(m) == m

ReleaseQuota(m) == [m EXCEPT !.quotaKeys = @ \ Releasable(m)]

-------------------------------------------------------------------------------
(* Changes made through the management API. *)

\* PATCH: the pending domains that match are due at `time' and, if they were to
\* expire later than that, expire 10 seconds after it.
Reschedule(m, D, time) ==
    WithDomains(m, D \cap Pending(m),
                LAMBDA d: [d EXCEPT !.retry = time,
                                    !.expires = IF @ > time THEN At(time + NotifySlack) ELSE @])

\* DELETE with a filter: the recipients that match fail, and pending domains
\* whose recipients are all finished are Completed.
CancelDelivery(m, R) ==
    LET c == WithRcpts(m, R, LAMBDA r: [r EXCEPT !.status = "PermanentFailure"])
        done == {d \in Pending(m) : Undelivered(c, d) = {}}
    IN WithDomains(c, done, LAMBDA d: [d EXCEPT !.status = "Completed"])
===============================================================================
