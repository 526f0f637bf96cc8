-------------------------- MODULE OutboundDelivery --------------------------
(***************************************************************************)
(* One delivery attempt of a message to one of its domains: the body of    *)
(* the 'next_domain loop of QueuedMessage::deliver_task                    *)
(* (crates/smtp/src/outbound/delivery.rs) with the lookups, the TLS        *)
(* negotiation and the SMTP or LMTP session it calls (outbound/{lookup,    *)
(* client,session,local,mod}.rs, outbound/mta_sts, outbound/dane).         *)
(*                                                                         *)
(* The domain name system, policy servers and remote hosts are the         *)
(* environment: each lookup, connection and command may have every outcome *)
(* the code tells apart.  Names, certificates and replies are reduced to   *)
(* the outcome; timeouts are failures.  `sent' records over which          *)
(* connection the message's content went out.                              *)
(***************************************************************************)
EXTENDS QueueMessage, SequencesExt

CONSTANTS
    Target,         \* the domain
    Now,            \* the time of the attempt
    Starts,         \* messages with Target due
    Replies,        \* statuses a server may give a recipient
    RateDelays,     \* delays a rate limiter may impose
    Host,           \* remote hosts
    Relay,          \* the configured relay host
    Implicit,       \* the host named like the domain (implicit MX)
    MxLists,        \* MX records: sequences of sets of hosts, by preference
    MaxMx,          \* queue.limits.mx
    MaxMultihomed,  \* queue.limits.multihomed
    Policies,       \* MTA-STS policies the domain may publish
    NoPolicy,       \* no MTA-STS policy
    NoHost,         \* no host
    Confs           \* configurations of the queue, as evaluated for the domain

RequireOptional == {"Require", "Optional", "Disable"}

Policy == [id: Nat, mode: {"enforce", "testing", "none"}, mx: SUBSET Host]

\* What the configuration says about the domain: the next hop, whether it is a
\* relay that speaks LMTP or starts with TLS, tls.mta-sts,
\* tls.allow-invalid-certs, whether TLS reports are sent; and the REQUIRETLS
\* flag of the message.
Conf == [hop: {"local", "mx", "relay"}, lmtp: BOOLEAN, implicit: BOOLEAN,
         mtaSts: RequireOptional, invalidCerts: BOOLEAN, report: BOOLEAN,
         requireTls: BOOLEAN]

ASSUME DeliveryAssumption ==
    /\ Target \in Domain /\ Now \in Nat
    /\ \A m \in Starts : IsMessage(m) /\ Target \in DueDomains(m, Now)
    /\ Replies \subseteq {"Completed", "TemporaryFailure", "PermanentFailure"}
    /\ "Completed" \in Replies
    /\ RateDelays \subseteq Nat
    /\ Relay \in Host /\ Implicit \in Host /\ NoHost \notin Host
    /\ IsFiniteSet(Host)
    /\ \A l \in MxLists : l \in Seq(SUBSET Host) /\ l # <<>>
    /\ MaxMx \in Nat /\ MaxMultihomed \in Nat
    /\ Policies \subseteq Policy /\ NoPolicy \notin Policy
    /\ Confs \subseteq {c \in Conf : c.hop # "relay" => ~c.lmtp /\ ~c.implicit}

Failure == {"TemporaryFailure", "PermanentFailure"}

NoHop == [host |-> NoHost, ips |-> 0, dane |-> "Disable", tls |-> "Disable",
          tlsa |-> NoHost]

NoConn == [channel |-> "none", peer |-> "none"]

VARIABLES
    conf,      \* configuration, a member of Confs
    start,     \* the message the attempt began with
    msg,       \* the message as the attempt changes it
    pc,        \* what the attempt does next
    report,    \* TLS reports are wanted: tls_report is some
    cached,    \* the domain's policy in the cache of MTA-STS policies
    policy,    \* mta_sts_policy
    hosts,     \* remote_hosts still to try
    hop,       \* the host being tried, its IPs left, tls_strategy and the host
               \* whose TLSA records dane_policy holds
    conn,      \* the connection: plain or TLS, how its certificate was checked
    todo,      \* recipients whose RCPT has not been sent
    accepted,  \* accepted_rcpts
    last,      \* last_status
    reports,   \* TLS reports scheduled
    sent       \* the connections the message's content was sent over

vars == <<conf, start, msg, pc, report, cached, policy, hosts, hop, conn,
          todo, accepted, last, reports, sent>>

fixed == <<conf, start>>
lookup == <<report, cached, policy>>
local == <<hop, conn, todo, accepted>>

Hop == [host: Host \cup {NoHost}, ips: Nat, dane: RequireOptional,
        tls: RequireOptional, tlsa: Host \cup {NoHost}]

Conn == [channel: {"none", "plain", "tls"}, peer: {"none", "pki", "dane"}]

TypeOK ==
    /\ conf \in Confs /\ start \in Starts /\ IsMessage(msg)
    /\ pc \in {"start", "policy", "mx", "host", "tlsa", "ip", "greeting", "ehlo",
               "starttls", "tls", "mail", "rcpt", "reply", "done"}
    /\ report \in BOOLEAN
    /\ cached \in Policies \cup {NoPolicy} /\ policy \in Policies \cup {NoPolicy}
    /\ hosts \in Seq(Host)
    /\ hop \in Hop /\ conn \in Conn
    /\ todo \subseteq Rcpt /\ accepted \subseteq Rcpt
    /\ last \in Status
    /\ \A e \in reports : e.host \in Host \cup {NoHost}
    /\ \A s \in sent : s.hop.host \in Host

-------------------------------------------------------------------------------
(* Leaving a host and ending the attempt. *)

\* What is local to a host goes out of scope.
Leave == hop' = NoHop /\ conn' = NoConn /\ todo' = {} /\ accepted' = {}

\* last_status = status; continue 'next_host.
NextHost(status) ==
    /\ last' = status /\ pc' = "host" /\ Leave
    /\ UNCHANGED msg

\* The domain's new state is d: continue 'next_domain.
NextDomain(m, d) ==
    /\ msg' = [m EXCEPT !.domains[Target] = d]
    /\ pc' = "done" /\ Leave /\ last' = "Scheduled"

End(m, status) == NextDomain(m, SetStatus(m.domains[Target], status, Now))

RateLimited ==
    \E delay \in RateDelays :
        NextDomain(msg, SetRateLimiterError(msg.domains[Target], At(Now + delay)))

\* schedule_report of a result for host h, when reports are wanted.
Report(h, result) ==
    reports' = IF report THEN reports \cup {[host |-> h, result |-> result]} ELSE reports

-------------------------------------------------------------------------------
(* Before the first host. *)

Init ==
    /\ conf \in Confs /\ start \in Starts /\ msg = start /\ pc = "start"
    /\ report = FALSE
    /\ cached \in Policies \cup {NoPolicy} /\ policy = NoPolicy
    /\ hosts = <<>> /\ hop = NoHop
    /\ conn = NoConn /\ todo = {} /\ accepted = {}
    /\ last = "Scheduled" /\ reports = {} /\ sent = {}

\* Limiters of the recipient domain.
ThrottleDomain ==
    /\ pc = "start" /\ RateLimited
    /\ UNCHANGED <<fixed, lookup, hosts, sent, reports>>

\* The message with the statuses g gives to some of its recipients.
WithReplies(m, g) ==
    [m EXCEPT !.rcpts = [r \in DOMAIN m.rcpts |->
        IF r \in DOMAIN g THEN [m.rcpts[r] EXCEPT !.status = g[r]] ELSE m.rcpts[r]]]

\* total_completed == total_rcpt
Outcome(m) == IF Undelivered(m, Target) = {} THEN "Completed" ELSE "Scheduled"

\* deliver_local: every undelivered recipient gets a status.  What Sieve scripts
\* send in answer is queued like any other message.
DeliverLocal ==
    /\ pc = "start" /\ conf.hop = "local"
    /\ \E g \in [Undelivered(msg, Target) -> Replies] :
         LET m == WithReplies(msg, g) IN End(m, Outcome(m))
    /\ UNCHANGED <<fixed, lookup, hosts, sent, reports>>

\* The next hop is remote; the TLSRPT record is looked up.
StartRemote ==
    /\ pc = "start" /\ conf.hop # "local"
    /\ report' \in IF conf.report /\ ~conf.lmtp THEN BOOLEAN ELSE {FALSE}
    /\ hosts' = IF conf.hop = "relay" THEN <<Relay>> ELSE <<>>
    /\ pc' = IF conf.mtaSts # "Disable" /\ ~conf.lmtp THEN "policy"
             ELSE IF conf.hop = "relay" THEN "host" ELSE "mx"
    /\ UNCHANGED <<fixed, msg, cached, policy, local, sent, last, reports>>

AfterPolicy == IF conf.hop = "relay" THEN "host" ELSE "mx"

\* lookup_mta_sts_policy finds the policy: the cached one when its TXT record
\* cannot be had or has the same id, else the one it fetches.
FindPolicy ==
    /\ pc = "policy"
    /\ \/ cached # NoPolicy /\ policy' = cached /\ UNCHANGED cached
       \/ \E p \in Policies :
            /\ cached # NoPolicy => p.id # cached.id
            /\ policy' = p /\ cached' = p
    /\ pc' = AfterPolicy
    /\ UNCHANGED <<fixed, msg, report, hosts, local, sent, last, reports>>

\* The errors of lookup_mta_sts_policy and the status they turn into: those of
\* the TXT lookup, which are met by a cached policy, and those of the fetch.
TxtErrors == {<<"NotFound", "PermanentFailure">>, <<"DnsError", "TemporaryFailure">>}

FetchErrors == {"Other"} \X Failure

\* No policy: the domain fails when one is required, and is else delivered to
\* without.  A record that does not exist is reported only in the first case,
\* a failing resolver never.
MissPolicy ==
    /\ pc = "policy"
    /\ \E err \in FetchErrors \cup (IF cached = NoPolicy THEN TxtErrors ELSE {}) :
         LET strict == conf.mtaSts = "Require"
         IN /\ IF err[1] = "Other" \/ (err[1] = "NotFound" /\ strict)
               THEN Report(NoHost, "StsPolicy") ELSE UNCHANGED reports
            /\ \/ strict /\ End(msg, err[2])
               \/ ~strict /\ pc' = AfterPolicy /\ UNCHANGED <<msg, last, local>>
    /\ UNCHANGED <<fixed, lookup, hosts, sent>>

\* to_remote_hosts: hosts by preference, those of the same one in any order, at
\* most MaxMx (0 is no limit: the length is compared after a host was added).
RemoteHosts(l) ==
    LET all == {e \in (DOMAIN l) \X Host : e[2] \in l[e[1]]}
        sorted == {s \in SetToSeqs(all) :
                     \A i, j \in DOMAIN s : i < j => s[i][1] <= s[j][1]}
        taken(s) == IF MaxMx \in DOMAIN s THEN MaxMx ELSE Len(s)
    IN {[i \in 1..taken(s) |-> s[i][2]] : s \in sorted}

\* The MX lookup finds hosts, or nothing and the domain is its own host.
LookupMx ==
    /\ pc = "mx"
    /\ (\E l \in MxLists : hosts' \in RemoteHosts(l)) \/ hosts' = <<Implicit>>
    /\ pc' = "host"
    /\ UNCHANGED <<fixed, msg, lookup, local, sent, last, reports>>

\* The lookup fails, or the domain has a null MX.
MissMx ==
    /\ pc = "mx"
    /\ \E status \in Failure : End(msg, status)
    /\ UNCHANGED <<fixed, lookup, hosts, sent, reports>>

-------------------------------------------------------------------------------
(* The next host. *)

\* VerifyPolicy: no host may be used that an enforced policy does not name.
Authorized(h) == policy # NoPolicy /\ policy.mode # "none" => h \in policy.mx

\* Mutant: a policy is enforced only where the configuration requires one.
EnforcedIfRequired == policy # NoPolicy /\ policy.mode = "enforce" /\ conf.mtaSts = "Require"

Enforced == policy # NoPolicy /\ policy.mode = "enforce"

\* Mutant: the host stays in the list.
TakeHostAgain == pc = "host" /\ hosts # <<>> /\ hosts' = hosts

\* Takes the next host from the list.
TakeHost == pc = "host" /\ hosts # <<>> /\ hosts' = Tail(hosts)

SkipHost ==
    /\ TakeHost /\ Enforced /\ ~Authorized(Head(hosts))
    /\ Report(Head(hosts), "StsValidationFailure")
    /\ NextHost("PermanentFailure")
    /\ UNCHANGED <<fixed, lookup, sent>>

\* resolve_host; tls.dane and tls.starttls are evaluated for the host.
ResolveHost ==
    /\ TakeHost /\ (Enforced => Authorized(Head(hosts)))
    /\ IF Authorized(Head(hosts)) THEN UNCHANGED reports
       ELSE Report(Head(hosts), "StsValidationFailure")
    /\ \/ \E status \in Failure : NextHost(status)
       \/ /\ \E n \in 1..MaxMultihomed, dane, tls \in RequireOptional :
               hop' = [host |-> Head(hosts), ips |-> n, dane |-> dane, tls |-> tls,
                       tlsa |-> NoHost]
          /\ pc' = "tlsa" /\ UNCHANGED <<msg, last, conn, todo, accepted>>
    /\ UNCHANGED <<fixed, lookup, sent>>

\* No host is left: the domain gets the status of the last one.
NoHostLeft ==
    /\ pc = "host" /\ hosts = <<>> /\ End(msg, last)
    /\ UNCHANGED <<fixed, lookup, hosts, sent, reports>>

\* The TLSA records of the host have an end entity, and are its DANE policy.
FindTlsa ==
    /\ pc = "tlsa" /\ hop.dane # "Disable" /\ ~conf.lmtp
    /\ hop' = [hop EXCEPT !.tlsa = hop.host] /\ pc' = "ip"
    /\ UNCHANGED <<fixed, msg, lookup, hosts, conn, todo, accepted, sent, last, reports>>

\* They have none, are unsigned, missing, or cannot be had.
MissTlsa ==
    /\ pc = "tlsa" /\ hop.dane # "Disable" /\ ~conf.lmtp
    /\ \E err \in {"TlsaInvalid", "DaneRequired", "DnsError"} :
         /\ IF err = "TlsaInvalid" \/ (err = "DaneRequired" /\ hop.dane = "Require")
            THEN Report(hop.host, err) ELSE UNCHANGED reports
         /\ \/ hop.dane = "Require" /\ NextHost(IF err = "DnsError" THEN "TemporaryFailure"
                                                 ELSE "PermanentFailure")
            \/ hop.dane # "Require" /\ pc' = "ip" /\ UNCHANGED <<msg, last, local>>
    /\ UNCHANGED <<fixed, lookup, hosts, sent>>

NoDane ==
    /\ pc = "tlsa" /\ (hop.dane = "Disable" \/ conf.lmtp) /\ pc' = "ip"
    /\ UNCHANGED <<fixed, msg, lookup, hosts, local, sent, last, reports>>

-------------------------------------------------------------------------------
(* Connecting to the host. *)

\* Limiters of the remote address.
ThrottleHost ==
    /\ pc = "ip" /\ hop.ips > 0 /\ RateLimited
    /\ UNCHANGED <<fixed, lookup, hosts, sent, reports>>

ConnectFails ==
    /\ pc = "ip" /\ hop.ips > 0
    /\ hop' = [hop EXCEPT !.ips = @ - 1] /\ last' = "TemporaryFailure"
    /\ UNCHANGED <<fixed, msg, pc, lookup, hosts, conn, todo, accepted, sent, reports>>

Connect ==
    /\ pc = "ip" /\ hop.ips > 0
    /\ conn' = [NoConn EXCEPT !.channel = "plain"]
    /\ pc' = IF conf.implicit THEN "tls" ELSE "greeting"
    /\ UNCHANGED <<fixed, msg, lookup, hosts, hop, todo, accepted, sent, last, reports>>

NoIpLeft ==
    /\ pc = "ip" /\ hop.ips = 0 /\ NextHost(last)
    /\ UNCHANGED <<fixed, lookup, hosts, sent, reports>>

\* The greeting and, on a connection that may start TLS, the first EHLO.
Greeting ==
    /\ pc \in {"greeting", "ehlo"}
    /\ \/ \E status \in Failure : NextHost(status)
       \/ /\ pc' = IF conf.implicit THEN "mail" ELSE IF pc = "greeting" THEN "ehlo" ELSE "starttls"
          /\ UNCHANGED <<msg, last, local>>
    /\ UNCHANGED <<fixed, lookup, hosts, sent, reports>>

\* Mutant: what was found for the domain and the host is not looked at.
IsTlsRequired == "Require" \in {hop.tls, hop.dane, conf.mtaSts} \/ conf.requireTls

\* is_strict_tls, with TlsStrategy::is_tls_required
IsStrictTls ==
    \/ "Require" \in {hop.tls, hop.dane, conf.mtaSts}
    \/ conf.requireTls
    \/ policy # NoPolicy
    \/ hop.tlsa # NoHost

\* Mutant: certificates are not verified wherever DANE is tried.
ConnectorDane == IF conf.invalidCerts \/ hop.dane # "Disable" THEN "none" ELSE "pki"

\* The connector verifies certificates unless invalid ones are allowed or TLSA
\* records of end entities are to be matched.
Connector == IF conf.invalidCerts \/ hop.tlsa # NoHost THEN "none" ELSE "pki"

NoStartTls ==
    /\ pc = "starttls" /\ hop.tls = "Disable" /\ pc' = "mail"
    /\ UNCHANGED <<fixed, msg, lookup, hosts, local, sent, last, reports>>

\* TLS is established, but the host's certificates do not match its TLSA records.
DaneMismatch ==
    /\ pc = "starttls" /\ hop.tls # "Disable" /\ hop.tlsa # NoHost
    /\ Report(hop.host, "DaneValidationFailure")
    /\ \E status \in Failure : NextHost(status)
    /\ UNCHANGED <<fixed, lookup, hosts, sent>>

\* TLS is established, and the certificates match the TLSA records, if any.
StartTls ==
    /\ pc = "starttls" /\ hop.tls # "Disable"
    /\ Report(hop.host, "Success")
    /\ conn' = [channel |-> "tls", peer |-> IF hop.tlsa # NoHost THEN "dane" ELSE Connector]
    /\ pc' = "mail"
    /\ UNCHANGED <<fixed, msg, lookup, hosts, hop, todo, accepted, sent, last>>

\* STARTTLS is not offered or refused: the message goes out in the clear unless
\* TLS is required.
StartTlsUnavailable ==
    /\ pc = "starttls" /\ hop.tls # "Disable"
    /\ Report(hop.host, "StartTlsNotSupported")
    /\ \/ IsStrictTls /\ \E status \in Failure : NextHost(status)
       \/ ~IsStrictTls /\ pc' = "mail" /\ UNCHANGED <<msg, last, local>>
    /\ UNCHANGED <<fixed, lookup, hosts, sent>>

\* The handshake fails, reported when it is TLS that failed.
StartTlsError ==
    /\ pc = "starttls" /\ hop.tls # "Disable"
    /\ Report(hop.host, "CertificateNotTrusted") \/ UNCHANGED reports
    /\ \E status \in IF IsStrictTls THEN Failure ELSE {"TemporaryFailure"} : NextHost(status)
    /\ UNCHANGED <<fixed, lookup, hosts, sent>>

\* The handshake of a relay that starts with TLS.
ImplicitTls ==
    /\ pc = "tls"
    /\ \/ \E status \in Failure : NextHost(status)
       \/ /\ conn' = [channel |-> "tls", peer |-> Connector]
          /\ pc' = "greeting" /\ UNCHANGED <<msg, last, hop, todo, accepted>>
    /\ UNCHANGED <<fixed, lookup, hosts, sent, reports>>

-------------------------------------------------------------------------------
(* The session: Message::deliver. *)

\* EHLO, AUTH and MAIL FROM.
MailFrom ==
    /\ pc = "mail"
    /\ \/ \E status \in Failure : End(msg, status)
       \/ /\ todo' = Undelivered(msg, Target)
          /\ pc' = "rcpt" /\ UNCHANGED <<msg, last, hop, conn, accepted>>
    /\ UNCHANGED <<fixed, lookup, hosts, sent, reports>>

\* RCPT TO: r is accepted, or rejected and given its status at once.
RcptTo(r) ==
    /\ pc = "rcpt" /\ todo' = todo \ {r}
    /\ \/ accepted' = accepted \cup {r} /\ UNCHANGED msg
       \/ /\ \E status \in Replies \ {"Completed"} : msg' = WithReplies(msg, [x \in {r} |-> status])
          /\ UNCHANGED accepted
    /\ UNCHANGED <<fixed, pc, lookup, hosts, hop, conn, sent, last, reports>>

\* The connection fails in the middle of the recipients.
RcptToFails ==
    /\ pc = "rcpt" /\ todo # {} /\ End(msg, "TemporaryFailure")
    /\ UNCHANGED <<fixed, lookup, hosts, sent, reports>>

AllRejected ==
    /\ pc = "rcpt" /\ todo = {} /\ accepted = {} /\ End(msg, Outcome(msg))
    /\ UNCHANGED <<fixed, lookup, hosts, sent, reports>>

\* send_message: DATA or BDAT, then the content of the message; it fails when
\* the blob is gone, the connection breaks or the server refuses.
SendMessage ==
    /\ pc = "rcpt" /\ todo = {} /\ accepted # {}
    /\ LET out == sent \cup {[hop |-> hop, conn |-> conn]}
       IN \/ (\E status \in Failure : End(msg, status)) /\ sent' \in {sent, out}
          \/ pc' = "reply" /\ sent' = out /\ UNCHANGED <<msg, last, local>>
    /\ UNCHANGED <<fixed, lookup, hosts, reports>>

\* Mutant: accepted recipients count as delivered to before the reply is read.
DataReplyEarly ==
    /\ pc = "reply"
    /\ LET m == WithReplies(msg, [r \in accepted |-> "Completed"])
       IN \E status \in Failure \cup {Outcome(m)} : End(m, status)
    /\ UNCHANGED <<fixed, lookup, hosts, sent, reports>>

\* The reply to the content: one for the message (SMTP), marking every accepted
\* recipient, or one for each recipient (LMTP).
DataReply ==
    /\ pc = "reply"
    /\ \/ \E status \in Failure : End(msg, status)
       \/ \E g \in IF conf.lmtp THEN [accepted -> Replies] ELSE {[r \in accepted |-> "Completed"]} :
            LET m == WithReplies(msg, g) IN End(m, Outcome(m))
    /\ UNCHANGED <<fixed, lookup, hosts, sent, reports>>

Next ==
    \/ ThrottleDomain \/ DeliverLocal \/ StartRemote
    \/ FindPolicy \/ MissPolicy \/ LookupMx \/ MissMx
    \/ SkipHost \/ ResolveHost \/ NoHostLeft
    \/ FindTlsa \/ MissTlsa \/ NoDane
    \/ ThrottleHost \/ ConnectFails \/ Connect \/ NoIpLeft \/ Greeting
    \/ NoStartTls \/ DaneMismatch \/ StartTls \/ StartTlsUnavailable
    \/ StartTlsError \/ ImplicitTls
    \/ MailFrom \/ (\E r \in todo : RcptTo(r)) \/ RcptToFails \/ AllRejected
    \/ SendMessage \/ DataReply

Spec == Init /\ [][Next]_vars /\ WF_vars(Next)

-------------------------------------------------------------------------------
(* Properties. *)

\* The steps at a host, and those of them in the session with it.
AtHost == {"tlsa", "ip", "greeting", "ehlo", "starttls", "tls", "mail", "rcpt", "reply"}
InSession == {"mail", "rcpt", "reply"}

\* Plain text is used where STARTTLS is disabled for the host or nothing asks
\* for TLS.
MayBePlain(h) ==
    /\ ~conf.implicit
    /\ h.tls # "Disable" =>
         /\ "Require" \notin {h.tls, h.dane, conf.mtaSts}
         /\ ~conf.requireTls /\ policy = NoPolicy /\ h.tlsa = NoHost

\* The check of the certificate that host h calls for after STARTTLS.
PeerCheck(h) ==
    IF h.tlsa # NoHost THEN "dane" ELSE IF conf.invalidCerts THEN "none" ELSE "pki"

\* The content of a message goes out in the clear only where STARTTLS is
\* disabled for the host, or where neither the configuration, the message, a
\* policy of the domain nor TLSA records of the host ask for TLS; and a policy
\* or TLSA records that are required have been found (is_strict_tls and the
\* strict branches of deliver_task, several lookups before the connection).
RequirementsMet ==
    \A s \in sent :
        /\ s.conn.channel = "plain" => MayBePlain(s.hop)
        /\ conf.mtaSts = "Require" /\ ~conf.lmtp => policy # NoPolicy
        /\ s.hop.dane = "Require" /\ ~conf.lmtp => s.hop.tlsa # NoHost

\* A message that goes out after STARTTLS has passed the check its host calls
\* for: the TLSA records, which are this host's and not those of a host tried
\* before, or the certificate authorities unless invalid certificates are
\* allowed.
PeerChecked ==
    \A s \in sent :
        /\ s.hop.tlsa \in {NoHost, s.hop.host}
        /\ s.conn.channel = "tls" /\ ~conf.implicit => s.conn.peer = PeerCheck(s.hop)

\* While the domain has an enforced MTA-STS policy, fetched or cached, no
\* message goes to a host the policy does not name.
AuthorizedHost ==
    policy # NoPolicy /\ policy.mode = "enforce" =>
        \A s \in sent : s.hop.host \in policy.mx

ChannelFits(h, c) ==
    /\ c.channel = "plain" => MayBePlain(h)
    /\ c.channel = "tls" /\ ~conf.implicit => c.peer = PeerCheck(h)

SentRight(s) ==
    /\ ChannelFits(s.hop, s.conn)
    /\ conf.mtaSts = "Require" /\ ~conf.lmtp => policy # NoPolicy
    /\ s.hop.dane = "Require" /\ ~conf.lmtp => s.hop.tlsa # NoHost
    /\ s.hop.tlsa \in {NoHost, s.hop.host}
    /\ policy # NoPolicy /\ policy.mode = "enforce" => s.hop.host \in policy.mx

\* What has been settled when the attempt has come to pc, and is relied on when
\* the content is sent: the inductive invariant of the proofs.
DeliveryInv ==
    /\ conf \in Conf /\ hosts \in Seq(Host)
    /\ {cached, policy} \subseteq Policy \cup {NoPolicy}
    /\ hop \in Hop /\ conn \in Conn
    /\ pc \in {"start", "policy"} => sent = {}
    /\ pc \notin {"start", "policy", "done"} /\ conf.mtaSts = "Require" /\ ~conf.lmtp =>
         policy # NoPolicy
    /\ hop.tlsa \in {NoHost, hop.host}
    /\ pc \in AtHost => hop.host \in Host
    /\ pc \in AtHost /\ policy # NoPolicy /\ policy.mode = "enforce" => hop.host \in policy.mx
    /\ pc \in AtHost \ {"tlsa"} /\ hop.dane = "Require" /\ ~conf.lmtp => hop.tlsa # NoHost
    /\ pc = "greeting" => conn.channel = IF conf.implicit THEN "tls" ELSE "plain"
    /\ pc \in {"ehlo", "starttls"} => ~conf.implicit /\ conn.channel = "plain"
    /\ pc = "tls" => conf.implicit
    /\ pc \in InSession => ChannelFits(hop, conn)
    /\ \A s \in sent : SentRight(s)

\* The attempt as the queue sees it: nothing until it is over, then the message
\* with the outcome of one session, a rate limit or a failure, as the abstract
\* attempt that QueueSpool's workers take.
Abstract ==
    INSTANCE DomainAttempt WITH
        msg <- IF pc = "done" THEN msg ELSE start,
        got <- IF pc = "done"
               THEN {r \in RcptsOf(msg, Target) : /\ msg.rcpts[r].status = "Completed"
                                                  /\ start.rcpts[r].status # "Completed"}
               ELSE {},
        done <- pc = "done"

AttemptSpec == Abstract!Spec

\* The attempt comes to an end whatever the hosts do: every wait has a timeout,
\* and each failure uses up an address or a host.
AttemptEnds == <>(pc = "done")
=============================================================================
