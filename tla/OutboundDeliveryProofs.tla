----------------------- MODULE OutboundDeliveryProofs -----------------------
(***************************************************************************)
(* Proofs about OutboundDelivery, for any hosts, policies, configurations  *)
(* and messages: what goes out over which connection, and that the attempt *)
(* is one step of the queue.  The first argument is DeliveryInv, which     *)
(* says what each step of the attempt has settled for the steps after it;  *)
(* the second is AttemptInv, which says what the attempt has done to the   *)
(* message so far.                                                         *)
(***************************************************************************)
EXTENDS OutboundDelivery, FiniteSetTheorems, TLAPS

\* to_remote_hosts lists hosts.
LEMMA RemoteHostsType ==
    ASSUME NEW l \in MxLists, NEW h \in RemoteHosts(l)
    PROVE  h \in Seq(Host)
<1> DEFINE all == {e \in (DOMAIN l) \X Host : e[2] \in l[e[1]]}
<1>1. l \in Seq(SUBSET Host) /\ IsFiniteSet(Host) /\ MaxMx \in Nat
  BY DeliveryAssumption
<1>2. Len(l) \in Nat /\ DOMAIN l = 1..Len(l)
  BY <1>1
<1>3. IsFiniteSet((DOMAIN l) \X Host)
  <2>1. IsFiniteSet(1..Len(l))
    BY <1>2, FS_Interval, 1 \in Int, Len(l) \in Int
  <2> QED
    BY <1>1, <1>2, <2>1, FS_Product
<1>4. Cardinality(all) \in Nat
  <2>1. all \in SUBSET ((DOMAIN l) \X Host)
    OBVIOUS
  <2> HIDE DEF all
  <2> QED
    BY <1>3, <2>1, FS_Subset, FS_CardinalityType
<1>5. PICK s \in SetToSeqs(all) :
        h = [i \in 1..(IF MaxMx \in DOMAIN s THEN MaxMx ELSE Len(s)) |-> s[i][2]]
  BY DEF RemoteHosts
<1>6. s \in [1..Cardinality(all) -> all]
  <2> HIDE DEF all
  <2> QED
    BY <1>5 DEF SetToSeqs
<1>7. s \in Seq((DOMAIN l) \X Host) /\ DOMAIN s = 1..Len(s) /\ Len(s) \in Nat
  <2>1. s \in [1..Cardinality(all) -> (DOMAIN l) \X Host]
    BY <1>6
  <2> HIDE DEF all
  <2> QED
    BY <1>4, <2>1
<1> DEFINE n == IF MaxMx \in DOMAIN s THEN MaxMx ELSE Len(s)
<1>8. n \in Nat /\ n <= Len(s)
  BY <1>1, <1>7
<1>9. \A i \in 1..n : s[i][2] \in Host
  BY <1>7, <1>8
<1> HIDE DEF n
<1>10. [i \in 1..n |-> s[i][2]] \in [1..n -> Host]
  BY <1>9
<1> QED
  BY <1>5, <1>8, <1>10 DEF n

\* Leaving a host forgets what was found out about it.
LEMMA LeaveForgets ==
    Leave => hop' \in Hop /\ conn' \in Conn /\ hop'.tlsa = NoHost
BY DEF Leave, NoHop, Hop, NoConn, Conn, RequireOptional

\* What was sent stays right while the domain's policy does not change.
LEMMA SentStaysRight ==
    ASSUME DeliveryInv, UNCHANGED <<conf, policy, sent>>
    PROVE  (\A s \in sent : SentRight(s))'
BY DEF DeliveryInv, SentRight, ChannelFits, MayBePlain, PeerCheck

\* Leaving a host for the next one, or ending the attempt, keeps the invariant
\* whatever was sent, if that was right.
LEMMA LeavingKeepsInv ==
    ASSUME DeliveryInv, Leave,
           pc' = "done" \/ (pc' = "host" /\ pc \notin {"start", "policy", "done"}),
           UNCHANGED <<conf, cached, policy>>, hosts' \in Seq(Host),
           (\A s \in sent : SentRight(s))'
    PROVE  DeliveryInv'
<1>1. hop' \in Hop /\ conn' \in Conn /\ hop'.tlsa = NoHost
  BY LeaveForgets
<1>2. /\ pc' \notin {"start", "policy", "greeting", "ehlo", "starttls", "tls"}
      /\ pc' \notin AtHost /\ pc' \notin InSession
  BY DEF AtHost, InSession
<1>3. (pc' \notin {"start", "policy", "done"} /\ conf.mtaSts = "Require" /\ ~conf.lmtp) =>
        policy # NoPolicy
  BY DEF DeliveryInv
<1> QED
  BY <1>1, <1>2, <1>3 DEF DeliveryInv

\* Every step keeps DeliveryInv.
LEMMA StepKeepsInv ==
    ASSUME DeliveryInv, [Next]_vars
    PROVE  DeliveryInv'
<1> USE DEF fixed, lookup, local
<1>1. CASE UNCHANGED vars
  BY <1>1 DEF DeliveryInv, vars, SentRight, ChannelFits, MayBePlain, PeerCheck
<1>2. CASE ThrottleDomain
  BY <1>2, LeavingKeepsInv, SentStaysRight DEF ThrottleDomain, RateLimited, NextDomain, DeliveryInv
<1>3. CASE DeliverLocal
  BY <1>3, LeavingKeepsInv, SentStaysRight DEF DeliverLocal, End, NextDomain, DeliveryInv
<1>4. CASE StartRemote
  <2>1. hosts' \in Seq(Host)
    BY <1>4, DeliveryAssumption DEF StartRemote
  <2>2. pc' \in {"policy", "host", "mx"} /\ (pc' # "policy" => conf.mtaSts = "Disable" \/ conf.lmtp)
    BY <1>4 DEF StartRemote
  <2>3. (\A s \in sent : SentRight(s))'
    BY <1>4, SentStaysRight DEF StartRemote
  <2> QED
    BY <1>4, <2>1, <2>2, <2>3 DEF StartRemote, DeliveryInv, AtHost, InSession
<1>5. CASE FindPolicy
  <2>1. policy' \in Policy /\ cached' \in Policy
    BY <1>5, DeliveryAssumption DEF FindPolicy, DeliveryInv
  <2>2. pc' \in {"host", "mx"}
    BY <1>5 DEF FindPolicy, AfterPolicy
  <2>3. sent' = {} /\ policy' # NoPolicy
    BY <1>5, <2>1, DeliveryAssumption DEF FindPolicy, DeliveryInv
  <2> QED
    BY <1>5, <2>1, <2>2, <2>3 DEF FindPolicy, DeliveryInv, AtHost, InSession
<1>6. CASE MissPolicy
  <2>1. (\A s \in sent : SentRight(s))'
    BY <1>6, SentStaysRight DEF MissPolicy
  <2>2. CASE conf.mtaSts = "Require"
    BY <1>6, <2>1, <2>2, LeavingKeepsInv DEF MissPolicy, End, NextDomain, DeliveryInv
  <2>3. CASE conf.mtaSts # "Require"
    <3>1. pc' \in {"host", "mx"} /\ UNCHANGED <<hop, conn>>
      BY <1>6, <2>3 DEF MissPolicy, AfterPolicy
    <3> QED
      BY <1>6, <2>1, <2>3, <3>1 DEF MissPolicy, DeliveryInv, AtHost, InSession
  <2> QED
    BY <2>2, <2>3
<1>7. CASE LookupMx
  <2>1. hosts' \in Seq(Host)
    <3>1. CASE hosts' = <<Implicit>>
      BY <3>1, DeliveryAssumption
    <3>2. CASE \E l \in MxLists : hosts' \in RemoteHosts(l)
      BY <3>2, RemoteHostsType
    <3> QED
      BY <1>7, <3>1, <3>2 DEF LookupMx
  <2>2. (\A s \in sent : SentRight(s))'
    BY <1>7, SentStaysRight DEF LookupMx
  <2> QED
    BY <1>7, <2>1, <2>2 DEF LookupMx, DeliveryInv, AtHost, InSession
<1>8. CASE MissMx
  BY <1>8, LeavingKeepsInv, SentStaysRight DEF MissMx, End, NextDomain, DeliveryInv
<1>9. CASE SkipHost
  <2>1. hosts' \in Seq(Host)
    BY <1>9 DEF SkipHost, TakeHost, DeliveryInv
  <2> QED
    BY <1>9, <2>1, LeavingKeepsInv, SentStaysRight DEF SkipHost, TakeHost, NextHost
<1>10. CASE ResolveHost
  <2>1. hosts' \in Seq(Host) /\ Head(hosts) \in Host
    BY <1>10 DEF ResolveHost, TakeHost, DeliveryInv
  <2>2. (\A s \in sent : SentRight(s))'
    BY <1>10, SentStaysRight DEF ResolveHost
  <2>3. CASE \E status \in Failure : NextHost(status)
    BY <1>10, <2>1, <2>2, <2>3, LeavingKeepsInv DEF ResolveHost, TakeHost, NextHost
  <2>4. CASE pc' = "tlsa" /\ UNCHANGED conn /\
             \E n \in 1..MaxMultihomed, dane, tls \in RequireOptional :
                hop' = [host |-> Head(hosts), ips |-> n, dane |-> dane, tls |-> tls,
                        tlsa |-> NoHost]
    <3>1. hop' \in Hop /\ hop'.tlsa = NoHost /\ hop'.host = Head(hosts)
      BY <2>1, <2>4, DeliveryAssumption DEF Hop
    <3>2. policy # NoPolicy /\ policy.mode = "enforce" => hop'.host \in policy.mx
      BY <1>10, <3>1 DEF ResolveHost, Enforced, Authorized
    <3> QED
      BY <1>10, <2>1, <2>2, <2>4, <3>1, <3>2
      DEF ResolveHost, TakeHost, DeliveryInv, AtHost, InSession
  <2> QED
    BY <1>10, <2>3, <2>4 DEF ResolveHost
<1>11. CASE NoHostLeft
  BY <1>11, LeavingKeepsInv, SentStaysRight DEF NoHostLeft, End, NextDomain, DeliveryInv
<1>12. CASE FindTlsa
  <2>1. hop' \in Hop /\ hop'.tlsa = hop.host /\ hop'.host = hop.host
    BY <1>12 DEF FindTlsa, DeliveryInv, Hop
  <2>2. (\A s \in sent : SentRight(s))'
    BY <1>12, SentStaysRight DEF FindTlsa
  <2> QED
    BY <1>12, <2>1, <2>2, DeliveryAssumption DEF FindTlsa, DeliveryInv, AtHost, InSession
<1>13. CASE MissTlsa
  <2>1. (\A s \in sent : SentRight(s))'
    BY <1>13, SentStaysRight DEF MissTlsa
  <2>2. CASE hop.dane = "Require"
    <3>1. Leave /\ pc' = "host" /\ pc = "tlsa"
      BY <1>13, <2>2 DEF MissTlsa, NextHost
    <3> QED
      BY <1>13, <2>1, <3>1, LeavingKeepsInv DEF MissTlsa, DeliveryInv
  <2>3. CASE hop.dane # "Require"
    <3>1. pc' = "ip" /\ UNCHANGED <<hop, conn>>
      BY <1>13, <2>3 DEF MissTlsa
    <3> QED
      BY <1>13, <2>1, <2>3, <3>1 DEF MissTlsa, DeliveryInv, AtHost, InSession
  <2> QED
    BY <2>2, <2>3
<1>14. CASE NoDane
  <2>1. (\A s \in sent : SentRight(s))'
    BY <1>14, SentStaysRight DEF NoDane
  <2> QED
    BY <1>14, <2>1 DEF NoDane, DeliveryInv, AtHost, InSession
<1>15. CASE ThrottleHost
  BY <1>15, LeavingKeepsInv, SentStaysRight DEF ThrottleHost, RateLimited, NextDomain, DeliveryInv
<1>16. CASE ConnectFails
  <2>1. hop' \in Hop /\ hop'.tlsa = hop.tlsa /\ hop'.host = hop.host /\ hop'.dane = hop.dane
    BY <1>16 DEF ConnectFails, DeliveryInv, Hop
  <2>2. (\A s \in sent : SentRight(s))'
    BY <1>16, SentStaysRight DEF ConnectFails
  <2> QED
    BY <1>16, <2>1, <2>2 DEF ConnectFails, DeliveryInv, AtHost, InSession
<1>17. CASE Connect
  <2>1. conn' \in Conn /\ conn'.channel = "plain"
    BY <1>17 DEF Connect, NoConn, Conn
  <2>2. (\A s \in sent : SentRight(s))'
    BY <1>17, SentStaysRight DEF Connect
  <2> QED
    BY <1>17, <2>1, <2>2 DEF Connect, DeliveryInv, AtHost, InSession
<1>18. CASE NoIpLeft
  BY <1>18, LeavingKeepsInv, SentStaysRight DEF NoIpLeft, NextHost, DeliveryInv
<1>19. CASE Greeting
  <2>1. (\A s \in sent : SentRight(s))'
    BY <1>19, SentStaysRight DEF Greeting
  <2>2. CASE \E status \in Failure : NextHost(status)
    BY <1>19, <2>1, <2>2, LeavingKeepsInv DEF Greeting, NextHost, DeliveryInv
  <2>3. CASE UNCHANGED <<hop, conn>> /\
             pc' = IF conf.implicit THEN "mail" ELSE IF pc = "greeting" THEN "ehlo" ELSE "starttls"
    BY <1>19, <2>1, <2>3 DEF Greeting, DeliveryInv, AtHost, InSession, ChannelFits
  <2> QED
    BY <1>19, <2>2, <2>3 DEF Greeting
<1>20. CASE NoStartTls
  <2>1. (\A s \in sent : SentRight(s))'
    BY <1>20, SentStaysRight DEF NoStartTls
  <2>2. ChannelFits(hop, conn)'
    BY <1>20 DEF NoStartTls, DeliveryInv, ChannelFits, MayBePlain
  <2> QED
    BY <1>20, <2>1, <2>2 DEF NoStartTls, DeliveryInv, AtHost, InSession
<1>21. CASE StartTls
  <2>1. (\A s \in sent : SentRight(s))'
    BY <1>21, SentStaysRight DEF StartTls
  <2>2. conn' \in Conn /\ conn'.channel = "tls" /\ conn'.peer = PeerCheck(hop)
    BY <1>21 DEF StartTls, Conn, Connector, PeerCheck
  <2>3. ChannelFits(hop, conn)'
    BY <1>21, <2>2 DEF StartTls, ChannelFits, PeerCheck
  <2> QED
    BY <1>21, <2>1, <2>2, <2>3 DEF StartTls, DeliveryInv, AtHost, InSession
<1>22. CASE StartTlsUnavailable
  <2>1. (\A s \in sent : SentRight(s))'
    BY <1>22, SentStaysRight DEF StartTlsUnavailable
  <2>2. CASE \E status \in Failure : NextHost(status)
    BY <1>22, <2>1, <2>2, LeavingKeepsInv DEF StartTlsUnavailable, NextHost, DeliveryInv
  <2>3. CASE ~IsStrictTls /\ pc' = "mail" /\ UNCHANGED <<hop, conn>>
    <3>1. ChannelFits(hop, conn)'
      BY <1>22, <2>3
      DEF StartTlsUnavailable, DeliveryInv, IsStrictTls, ChannelFits, MayBePlain
    <3> QED
      BY <1>22, <2>1, <2>3, <3>1 DEF StartTlsUnavailable, DeliveryInv, AtHost, InSession
  <2> QED
    BY <1>22, <2>2, <2>3 DEF StartTlsUnavailable
<1>23. CASE StartTlsError
  BY <1>23, LeavingKeepsInv, SentStaysRight DEF StartTlsError, NextHost, DeliveryInv
<1>24. CASE ImplicitTls
  <2>1. (\A s \in sent : SentRight(s))'
    BY <1>24, SentStaysRight DEF ImplicitTls
  <2>2. CASE \E status \in Failure : NextHost(status)
    BY <1>24, <2>1, <2>2, LeavingKeepsInv DEF ImplicitTls, NextHost, DeliveryInv
  <2>3. CASE /\ conn' = [channel |-> "tls", peer |-> Connector]
             /\ pc' = "greeting" /\ UNCHANGED hop
    <3>1. conn' \in Conn /\ conn'.channel = "tls"
      BY <2>3 DEF Conn, Connector
    <3> QED
      BY <1>24, <2>1, <2>3, <3>1 DEF ImplicitTls, DeliveryInv, AtHost, InSession
  <2> QED
    BY <1>24, <2>2, <2>3 DEF ImplicitTls
<1>25. CASE MailFrom
  <2>1. (\A s \in sent : SentRight(s))'
    BY <1>25, SentStaysRight DEF MailFrom
  <2>2. CASE \E status \in Failure : End(msg, status)
    BY <1>25, <2>1, <2>2, LeavingKeepsInv DEF MailFrom, End, NextDomain, DeliveryInv
  <2>3. CASE pc' = "rcpt" /\ UNCHANGED <<hop, conn>>
    BY <1>25, <2>1, <2>3 DEF MailFrom, DeliveryInv, AtHost, InSession, ChannelFits,
       MayBePlain, PeerCheck
  <2> QED
    BY <1>25, <2>2, <2>3 DEF MailFrom
<1>26. ASSUME NEW r \in todo, RcptTo(r)
       PROVE  DeliveryInv'
  <2>1. (\A s \in sent : SentRight(s))'
    BY <1>26, SentStaysRight DEF RcptTo
  <2> QED
    BY <1>26, <2>1 DEF RcptTo, DeliveryInv, AtHost, InSession, ChannelFits, MayBePlain, PeerCheck
<1>27. CASE RcptToFails
  BY <1>27, LeavingKeepsInv, SentStaysRight DEF RcptToFails, End, NextDomain, DeliveryInv
<1>28. CASE AllRejected
  BY <1>28, LeavingKeepsInv, SentStaysRight DEF AllRejected, End, NextDomain, DeliveryInv
<1>29. CASE SendMessage
  <2> DEFINE this == [hop |-> hop, conn |-> conn]
  <2>1. SentRight(this)
    BY <1>29 DEF SendMessage, DeliveryInv, SentRight, AtHost, InSession
  <2>2. sent' \subseteq sent \cup {this}
    BY <1>29 DEF SendMessage
  <2>3. \A s \in sent' : SentRight(s)
    BY <2>1, <2>2 DEF DeliveryInv
  <2>4. (\A s \in sent : SentRight(s))'
    BY <1>29, <2>3 DEF SendMessage, SentRight, ChannelFits, MayBePlain, PeerCheck
  <2>5. CASE \E status \in Failure : End(msg, status)
    BY <1>29, <2>4, <2>5, LeavingKeepsInv DEF SendMessage, End, NextDomain, DeliveryInv
  <2>6. CASE pc' = "reply" /\ UNCHANGED <<hop, conn>>
    BY <1>29, <2>4, <2>6 DEF SendMessage, DeliveryInv, AtHost, InSession, ChannelFits,
       MayBePlain, PeerCheck
  <2> QED
    BY <1>29, <2>5, <2>6 DEF SendMessage
<1>30. CASE DataReply
  <2>1. Leave /\ pc' = "done" /\ pc = "reply"
    BY <1>30 DEF DataReply, End, NextDomain
  <2> QED
    BY <1>30, <2>1, LeavingKeepsInv, SentStaysRight DEF DataReply, DeliveryInv
<1>31. CASE DaneMismatch
  BY <1>31, LeavingKeepsInv, SentStaysRight DEF DaneMismatch, NextHost, DeliveryInv
<1> QED
  BY <1>1, <1>2, <1>3, <1>4, <1>5, <1>6, <1>7, <1>8, <1>9, <1>10, <1>11, <1>12, <1>13,
     <1>14, <1>15, <1>16, <1>17, <1>18, <1>19, <1>20, <1>21, <1>22, <1>23, <1>24, <1>25,
     <1>26, <1>27, <1>28, <1>29, <1>30, <1>31 DEF Next

\* In every state of an attempt what the steps so far had to settle is settled:
\* the lookups of deliver_task, the checks of each host and the TLS handshake
\* leave behind what is_strict_tls and the session rely on.
THEOREM DeliveryInvariant == Spec => []DeliveryInv
<1>1. Init => DeliveryInv
  <2> SUFFICES ASSUME Init PROVE DeliveryInv
    OBVIOUS
  <2>1. hop \in Hop /\ conn \in Conn /\ hop.tlsa = NoHost
    BY DEF Init, NoHop, Hop, NoConn, Conn, RequireOptional
  <2> QED
    BY <2>1, DeliveryAssumption DEF Init, DeliveryInv, AtHost, InSession
<1>2. DeliveryInv /\ [Next]_vars => DeliveryInv'
  BY StepKeepsInv
<1> QED
  BY <1>1, <1>2, PTL DEF Spec

\* No content goes out in the clear where deliver_task found that TLS is asked
\* for, nor before a policy or TLSA records that are required were found.
THEOREM TlsRequirements == Spec => []RequirementsMet
<1>1. DeliveryInv => RequirementsMet
  BY DEF DeliveryInv, RequirementsMet, SentRight, ChannelFits
<1> QED
  BY <1>1, DeliveryInvariant, PTL

\* After STARTTLS the content goes out only to a peer that passed the check its
\* own TLSA records, or the configuration, call for.
THEOREM PeersAreChecked == Spec => []PeerChecked
<1>1. DeliveryInv => PeerChecked
  BY DEF DeliveryInv, PeerChecked, SentRight, ChannelFits
<1> QED
  BY <1>1, DeliveryInvariant, PTL

\* An enforced MTA-STS policy keeps the content from hosts it does not name.
THEOREM HostsAreAuthorized == Spec => []AuthorizedHost
<1>1. DeliveryInv => AuthorizedHost
  BY DEF DeliveryInv, AuthorizedHost, SentRight
<1> QED
  BY <1>1, DeliveryInvariant, PTL

-------------------------------------------------------------------------------
(* The attempt implements DomainAttempt: whatever lookups, hosts and sessions  *)
(* there were, its end is one step of the queue.  First, the operators of      *)
(* QueueMessage are the same on both sides of the instance.                    *)

\* The recipients still to deliver to.
LEMMA SameUndelivered ==
  ASSUME NEW m, NEW d
  PROVE  Abstract!Undelivered(m, d) = Undelivered(m, d)
  BY DEF Abstract!Undelivered, Undelivered, Abstract!RcptsOf, RcptsOf, Abstract!Unfinished, Unfinished

\* The new state of the domain.
LEMMA SameSetStatus ==
  ASSUME NEW d, NEW status, NEW t
  PROVE  Abstract!SetStatus(d, status, t) = SetStatus(d, status, t)
<1>1. \A S : Abstract!Min(S) = Min(S)
  BY Zenon DEF Abstract!Min, Min
<1>2. \A x : Abstract!At(x) = At(x)
  BY DEF Abstract!At, At
<1>3. Abstract!Unfinished = Unfinished
  BY DEF Abstract!Unfinished, Unfinished
<1> QED
  BY Zenon, <1>1, <1>2, <1>3 DEF Abstract!SetStatus, SetStatus

\* The domains that are due.
LEMMA SameDueDomains ==
  ASSUME NEW m, NEW t
  PROVE  Abstract!DueDomains(m, t) = DueDomains(m, t)
  BY DEF Abstract!DueDomains, DueDomains, Abstract!Pending, Pending, Abstract!Unfinished, Unfinished

\* The state of a domain that is rate limited.
LEMMA SameLimit ==
  ASSUME NEW d, NEW t
  PROVE  Abstract!SetRateLimiterError(d, Abstract!At(t)) = SetRateLimiterError(d, At(t))
  BY Zenon DEF Abstract!SetRateLimiterError, SetRateLimiterError, Abstract!At, At

\* The message after a session.
LEMMA SameAfterSession ==
  ASSUME NEW m, NEW d, NEW s, NEW t
  PROVE  Abstract!AfterSession(m, d, s, t) = AfterSession(m, d, s, t)
  BY Zenon, SameSetStatus DEF Abstract!AfterSession, AfterSession

\* The results of a session.
LEMMA SameSession ==
  ASSUME NEW m, NEW d, NEW R
  PROVE  Abstract!SessionResult(m, d, R) = SessionResult(m, d, R)
  BY Zenon, SameUndelivered DEF Abstract!SessionResult, SessionResult

\* The results of an attempt.
LEMMA SameResults ==
  ASSUME NEW m, NEW d, NEW t, NEW R, NEW D
  PROVE Abstract!AttemptResults(m, d, t, R, D) = AttemptResults(m, d, t, R, D)
  BY Zenon, SameSession, SameAfterSession, SameLimit, SameDueDomains DEF Abstract!AttemptResults, AttemptResults
-------------------------------------------------------------------------------
(* What a session makes of the message. *)

\* A message has these fields.
IsRecord(m) ==
    m = [returnPath |-> m.returnPath, domains |-> m.domains, rcpts |-> m.rcpts, quotaKeys |-> m.quotaKeys]

\* A message an attempt begins with.
Start(m) ==
    /\ IsRecord(m) /\ Target \in DueDomains(m, Now)
    /\ m.rcpts \in [DOMAIN m.rcpts -> RcptState]

\* Recipients that answered, with statuses.
Answers == {"Completed", "TemporaryFailure", "PermanentFailure"}

\* The recipients' states when those in the domain of g have answered.
Answered(m, g) ==
    [r \in DOMAIN m.rcpts |-> IF r \in DOMAIN g THEN [m.rcpts[r] EXCEPT !.status = g[r]] ELSE m.rcpts[r]]

\* The message with new states for the recipients and the domain.
Changed(m, rcpts, d) ==
    [returnPath |-> m.returnPath, domains |-> [m.domains EXCEPT ![Target] = d], rcpts |-> rcpts,
     quotaKeys |-> m.quotaKeys]

\* Messages are records.
LEMMA StartsStart == ASSUME NEW m \in Starts PROVE Start(m)
  BY DeliveryAssumption DEF Start, IsRecord, IsMessage

\* WithReplies changes the recipients.
LEMMA Replied ==
  ASSUME NEW m, IsRecord(m), NEW g
  PROVE  /\ IsRecord(WithReplies(m, g))
         /\ WithReplies(m, g).rcpts = Answered(m, g)
         /\ WithReplies(m, g).returnPath = m.returnPath
         /\ WithReplies(m, g).domains = m.domains
         /\ WithReplies(m, g).quotaKeys = m.quotaKeys
<1> DEFINE y == Answered(m, g)
           n == [m EXCEPT !.rcpts = y]
<1>1. WithReplies(m, g) = n
  BY DEF WithReplies, Answered
<1> HIDE DEF y
<1>2. n = [returnPath |-> m.returnPath, domains |-> m.domains, rcpts |-> y, quotaKeys |-> m.quotaKeys]
  BY DEF IsRecord
<1>3. n.returnPath = m.returnPath /\ n.domains = m.domains /\ n.rcpts = y /\ n.quotaKeys = m.quotaKeys
  BY <1>2
<1>4. IsRecord(n)
  BY <1>2, <1>3 DEF IsRecord
<1> QED
  BY <1>1, <1>3, <1>4 DEF y

\* Nobody answered yet.
LEMMA NoAnswer ==
  ASSUME NEW m, IsRecord(m), NEW g \in [{} -> Answers], m.rcpts \in [DOMAIN m.rcpts -> RcptState]
  PROVE  WithReplies(m, g) = m
<1>1. Answered(m, g) = m.rcpts
  BY DEF Answered
<1> QED
  BY <1>1, Replied DEF IsRecord

\* The end of an attempt, as a record.
LEMMA Ended ==
  ASSUME NEW m, IsRecord(m), NEW d
  PROVE  [m EXCEPT !.domains[Target] = d] = Changed(m, m.rcpts, d)
<1> DEFINE x == [m.domains EXCEPT ![Target] = d]
<1>1. [m EXCEPT !.domains[Target] = d] = [m EXCEPT !.domains = x]
  BY DEF IsRecord
<1> HIDE DEF x
<1>2. [m EXCEPT !.domains = x]
        = [returnPath |-> m.returnPath, domains |-> x, rcpts |-> m.rcpts, quotaKeys |-> m.quotaKeys]
  BY DEF IsRecord
<1> QED
  BY <1>1, <1>2 DEF x, Changed

\* Two fields of a message, replaced.
LEMMA TwoFields ==
  ASSUME NEW m, IsRecord(m), NEW x, NEW y
  PROVE  [m EXCEPT !.domains = x, !.rcpts = y]
           = [returnPath |-> m.returnPath, domains |-> x, rcpts |-> y, quotaKeys |-> m.quotaKeys]
<1> DEFINE n == [m EXCEPT !.domains = x]
<1>1. n = [returnPath |-> m.returnPath, domains |-> x, rcpts |-> m.rcpts, quotaKeys |-> m.quotaKeys]
  BY DEF IsRecord
<1>2. [n EXCEPT !.rcpts = y]
        = [returnPath |-> m.returnPath, domains |-> x, rcpts |-> y, quotaKeys |-> m.quotaKeys]
  <2> HIDE DEF n
  <2> QED
    BY <1>1
<1> QED
  BY Zenon, <1>2

\* The result of a session, as a record.
LEMMA AfterSessionIs ==
  ASSUME NEW m, IsRecord(m), NEW s, NEW g,
         DOMAIN g = {r \in DOMAIN s.rcpts : s.rcpts[r] # "Unchanged"},
         \A r \in DOMAIN g : g[r] = s.rcpts[r]
  PROVE  AfterSession(m, Target, s, Now)
           = Changed(m, Answered(m, g), SetStatus(m.domains[Target], s.domain, Now))
<1> DEFINE touched == {r \in DOMAIN s.rcpts : s.rcpts[r] # "Unchanged"}
           z == SetStatus(m.domains[Target], s.domain, Now)
           x == [m.domains EXCEPT ![Target] = z]
           y == [r \in DOMAIN m.rcpts |-> IF r \in touched THEN [m.rcpts[r] EXCEPT !.status = s.rcpts[r]]
                                          ELSE m.rcpts[r]]
<1>1. y = Answered(m, g)
  BY DEF Answered
<1> HIDE DEF z
<1>2. AfterSession(m, Target, s, Now) = [m EXCEPT !.domains = x, !.rcpts = y]
  BY DEF AfterSession, IsRecord, z
<1> HIDE DEF x, y
<1>3. [m EXCEPT !.domains = x, !.rcpts = y]
        = [returnPath |-> m.returnPath, domains |-> x, rcpts |-> y, quotaKeys |-> m.quotaKeys]
  BY Zenon, TwoFields
<1> QED
  BY <1>1, <1>2, <1>3 DEF x, z, Changed

\* Whom an attempt delivered to: those who answered so.
Received(m, rcpts) ==
    {r \in DOMAIN rcpts : DomainOf[r] = Target /\ rcpts[r].status = "Completed" /\ m.rcpts[r].status # "Completed"}

\* They are those who answered "Completed".
LEMMA ReceivedIs ==
  ASSUME NEW m, Start(m), NEW Q \in SUBSET Undelivered(m, Target), NEW g \in [Q -> Answers]
  PROVE  Received(m, Answered(m, g)) = {r \in Q : g[r] = "Completed"}
<1>1. \A r \in Q : r \in DOMAIN m.rcpts /\ DomainOf[r] = Target /\ m.rcpts[r].status # "Completed"
  BY DEF Undelivered, RcptsOf, Unfinished
<1>2. DOMAIN Answered(m, g) = DOMAIN m.rcpts
  BY DEF Answered
<1>3. \A r \in DOMAIN m.rcpts : Answered(m, g)[r].status = IF r \in Q THEN g[r] ELSE m.rcpts[r].status
  <2> SUFFICES ASSUME NEW r \in DOMAIN m.rcpts
               PROVE  Answered(m, g)[r].status = IF r \in Q THEN g[r] ELSE m.rcpts[r].status
    OBVIOUS
  <2>1. m.rcpts[r] \in RcptState
    BY DEF Start
  <2>2. CASE r \in Q
    BY <2>1, <2>2 DEF Answered, RcptState
  <2>3. CASE r \notin Q
    BY <2>3 DEF Answered
  <2> QED
    BY <2>2, <2>3
<1> QED
  BY <1>1, <1>2, <1>3 DEF Received

\* A session that is cut short: those in Q were rejected.
LEMMA CutShort ==
  ASSUME NEW m, Start(m), NEW Q \in SUBSET Undelivered(m, Target), NEW g \in [Q -> Replies \ {"Completed"}],
         NEW status \in {"TemporaryFailure", "PermanentFailure", "Scheduled"},
         status = "PermanentFailure" => Q = {} \/ Q # Undelivered(m, Target),
         status = "Scheduled" => Q = {}
  PROVE  [msg |-> Changed(m, Answered(m, g), SetStatus(m.domains[Target], status, Now)), got |-> {}]
           \in AttemptResults(m, Target, Now, Replies, RateDelays)
<1> DEFINE P == Undelivered(m, Target)
           h == [r \in P |-> IF r \in Q THEN g[r] ELSE "Unchanged"]
           s == [rcpts |-> h, domain |-> status]
<1>1. Replies \subseteq Answers /\ Target \in DueDomains(m, Now) /\ IsRecord(m)
  BY DeliveryAssumption DEF Answers, Start
<1>2. h \in [P -> (Replies \ {"Completed"}) \cup {"Unchanged"}]
  <2> HIDE DEF P
  <2> QED
    OBVIOUS
<1>3. {r \in P : h[r] = "Unchanged"} = P \ Q
  <2> HIDE DEF P
  <2> QED
    BY <1>1 DEF Answers
<1>4. s \in SessionResult(m, Target, Replies)
  <2> DEFINE y == <<h, status>>
             Unchanged(f) == {r \in P : f[r] = "Unchanged"}
  <2>1. y \in [P -> (Replies \ {"Completed"}) \cup {"Unchanged"}]
              \X {"TemporaryFailure", "PermanentFailure", "Scheduled"}
    BY <1>2
  <2>2. /\ y[2] = "PermanentFailure" => P = {} \/ Unchanged(y[1]) # {}
        /\ y[2] = "Scheduled" => Unchanged(y[1]) = P
    <3>1. y[2] = status /\ y[1] = h
      OBVIOUS
    <3>2. Unchanged(y[1]) = P \ Q
      BY <1>3, <3>1
    <3> HIDE DEF P, y, Unchanged
    <3> QED
      BY <3>1, <3>2 DEF P
  <2>3. s = [rcpts |-> y[1], domain |-> y[2]]
    OBVIOUS
  <2> HIDE DEF y, s, h
  <2> QED
    BY <2>1, <2>2, <2>3 DEF SessionResult
<1>5. /\ DOMAIN g = {r \in DOMAIN s.rcpts : s.rcpts[r] # "Unchanged"}
      /\ \A r \in DOMAIN g : g[r] = s.rcpts[r]
      /\ {r \in DOMAIN s.rcpts : s.rcpts[r] = "Completed"} = {}
      /\ s.domain = status
  <2>1. s.rcpts = h /\ s.domain = status /\ DOMAIN h = P /\ DOMAIN g = Q
    OBVIOUS
  <2>2. \A r \in P : (r \in Q => h[r] = g[r]) /\ (r \notin Q => h[r] = "Unchanged") /\ h[r] # "Completed"
    BY <1>2
  <2>3. \A r \in Q : g[r] # "Unchanged"
    BY <1>1 DEF Answers
  <2> HIDE DEF s, h, P
  <2> QED
    BY <2>1, <2>2, <2>3 DEF P
<1>6. AfterSession(m, Target, s, Now) = Changed(m, Answered(m, g), SetStatus(m.domains[Target], status, Now))
  <2> HIDE DEF s
  <2> QED
    BY <1>1, <1>5, AfterSessionIs
<1> HIDE DEF s
<1> QED
  BY <1>1, <1>4, <1>5, <1>6 DEF AttemptResults

\* A session that runs to its end.
LEMMA Whole ==
  ASSUME NEW m, Start(m), NEW g \in [Undelivered(m, Target) -> Replies], NEW status,
         status = IF \A r \in Undelivered(m, Target) : g[r] # "TemporaryFailure" THEN "Completed" ELSE "Scheduled"
  PROVE  [msg |-> Changed(m, Answered(m, g), SetStatus(m.domains[Target], status, Now)),
          got |-> {r \in Undelivered(m, Target) : g[r] = "Completed"}]
           \in AttemptResults(m, Target, Now, Replies, RateDelays)
<1> DEFINE P == Undelivered(m, Target)
           s == [rcpts |-> g, domain |-> status]
<1>1. Replies \subseteq Answers /\ Target \in DueDomains(m, Now) /\ IsRecord(m)
  BY DeliveryAssumption DEF Answers, Start
<1>2. s \in SessionResult(m, Target, Replies)
  BY DEF SessionResult
<1>3. s.rcpts = g /\ s.domain = status /\ DOMAIN g = P
  OBVIOUS
<1>4. \A r \in P : g[r] # "Unchanged"
  BY <1>1 DEF Answers
<1> HIDE DEF s
<1>5. AfterSession(m, Target, s, Now) = Changed(m, Answered(m, g), SetStatus(m.domains[Target], status, Now))
  BY <1>1, <1>3, <1>4, AfterSessionIs
<1> QED
  BY <1>1, <1>2, <1>3, <1>5 DEF AttemptResults

\* total_completed == total_rcpt says what SessionResult says.
LEMMA OutcomeIs ==
  ASSUME NEW m, Start(m), NEW g \in [Undelivered(m, Target) -> Replies]
  PROVE  Outcome(WithReplies(m, g)) =
           IF \A r \in Undelivered(m, Target) : g[r] # "TemporaryFailure" THEN "Completed" ELSE "Scheduled"
<1> DEFINE P == Undelivered(m, Target)
           n == WithReplies(m, g)
<1>1. Replies \subseteq Answers /\ IsRecord(m)
  BY DeliveryAssumption DEF Answers, Start
<1>2. n.rcpts = Answered(m, g)
  BY <1>1, Replied
<1>3. DOMAIN n.rcpts = DOMAIN m.rcpts
  BY <1>2 DEF Answered
<1>4. \A r \in DOMAIN m.rcpts : n.rcpts[r].status = IF r \in P THEN g[r] ELSE m.rcpts[r].status
  <2> SUFFICES ASSUME NEW r \in DOMAIN m.rcpts
               PROVE  n.rcpts[r].status = IF r \in P THEN g[r] ELSE m.rcpts[r].status
    OBVIOUS
  <2>1. m.rcpts[r] \in RcptState
    BY DEF Start
  <2> HIDE DEF n
  <2>2. CASE r \in P
    BY <1>2, <2>1, <2>2 DEF Answered, RcptState
  <2>3. CASE r \notin P
    BY <1>2, <2>3 DEF Answered
  <2> QED
    BY <2>2, <2>3
<1> HIDE DEF n
<1>5. \A r : r \in Undelivered(n, Target) <=> r \in P /\ g[r] = "TemporaryFailure"
  BY <1>1, <1>3, <1>4 DEF Undelivered, RcptsOf, Unfinished, Answers
<1> QED
  BY <1>5 DEF Outcome, n

-------------------------------------------------------------------------------
(* The refinement. *)

\* What the attempt has done to the message so far: nothing before a session;
\* in the session, those whose RCPT was rejected have their status.
AttemptInv ==
    /\ start \in Starts
    /\ pc # "done" => last \in {"Scheduled"} \cup Failure
    /\ pc \notin {"rcpt", "reply", "done"} => msg = start /\ todo = {} /\ accepted = {}
    /\ pc \in {"rcpt", "reply"} =>
         /\ todo \subseteq Undelivered(start, Target) /\ accepted \subseteq Undelivered(start, Target)
         /\ todo \cap accepted = {}
         /\ \E g \in [Undelivered(start, Target) \ (todo \cup accepted) -> Replies \ {"Completed"}] :
              msg = WithReplies(start, g)
    /\ pc = "reply" => todo = {} /\ accepted # {}

\* A step that ends the attempt with one of the abstract results.
LEMMA EndStep ==
  ASSUME pc # "done", pc' = "done", UNCHANGED start, NEW n, NEW got,
         msg' = n, Received(start, n.rcpts) = got,
         [msg |-> n, got |-> got] \in AttemptResults(start, Target, Now, Replies, RateDelays)
  PROVE  Abstract!Attempt
<1> DEFINE res == [msg |-> n, got |-> got]
<1>1. res.msg = n /\ res.got = got
  OBVIOUS
<1>2. res \in Abstract!AttemptResults(start, Target, Now, Replies, RateDelays)
  BY SameResults
<1>3. Received(start, n.rcpts) =
        {r \in RcptsOf(msg', Target) : msg'.rcpts[r].status = "Completed" /\ start'.rcpts[r].status # "Completed"}
  BY DEF Received, RcptsOf
<1> HIDE DEF res
<1> QED
  BY <1>1, <1>2, <1>3 DEF Abstract!Attempt

\* A session that is cut short, or no session.
LEMMA EndCut ==
  ASSUME start \in Starts, pc # "done", UNCHANGED start,
         NEW Q \in SUBSET Undelivered(start, Target), NEW g \in [Q -> Replies \ {"Completed"}],
         msg = WithReplies(start, g),
         NEW status \in {"TemporaryFailure", "PermanentFailure", "Scheduled"}, End(msg, status),
         status = "PermanentFailure" => Q = {} \/ Q # Undelivered(start, Target),
         status = "Scheduled" => Q = {}
  PROVE  Abstract!Attempt
<1> DEFINE d == SetStatus(start.domains[Target], status, Now)
           n == Changed(start, Answered(start, g), d)
<1>1. Start(start) /\ IsRecord(start)
  BY StartsStart DEF Start
<1>2. IsRecord(msg) /\ msg.rcpts = Answered(start, g) /\ msg.returnPath = start.returnPath
      /\ msg.domains = start.domains /\ msg.quotaKeys = start.quotaKeys
  BY <1>1, Replied
<1>3. msg' = [msg EXCEPT !.domains[Target] = d] /\ pc' = "done"
  BY <1>2 DEF End, NextDomain
<1> HIDE DEF d
<1>4. msg' = n
  BY <1>2, <1>3, Ended DEF Changed
<1>5. [msg |-> n, got |-> {}] \in AttemptResults(start, Target, Now, Replies, RateDelays)
  BY <1>1, CutShort DEF d
<1>6. n.rcpts = Answered(start, g)
  BY DEF Changed
<1>7. Received(start, n.rcpts) = {}
  <2>1. g \in [Q -> Answers]
    BY DeliveryAssumption DEF Answers
  <2>2. Received(start, Answered(start, g)) = {r \in Q : g[r] = "Completed"}
    BY <1>1, <2>1, ReceivedIs
  <2> QED
    BY <1>6, <2>2
<1> HIDE DEF n
<1> QED
  BY <1>3, <1>4, <1>5, <1>7, EndStep

\* A session that ran to its end.
LEMMA EndWhole ==
  ASSUME start \in Starts, pc # "done", UNCHANGED start,
         NEW g \in [Undelivered(start, Target) -> Replies], NEW m, m = WithReplies(start, g),
         End(m, Outcome(m))
  PROVE  Abstract!Attempt
<1> DEFINE status == Outcome(m)
           d == SetStatus(start.domains[Target], status, Now)
           n == Changed(start, Answered(start, g), d)
           got == {r \in Undelivered(start, Target) : g[r] = "Completed"}
<1>1. Start(start) /\ IsRecord(start)
  BY StartsStart DEF Start
<1>2. IsRecord(m) /\ m.rcpts = Answered(start, g) /\ m.returnPath = start.returnPath
      /\ m.domains = start.domains /\ m.quotaKeys = start.quotaKeys
  BY <1>1, Replied
<1>3. msg' = [m EXCEPT !.domains[Target] = d] /\ pc' = "done"
  BY <1>2 DEF End, NextDomain
<1>4. status = IF \A r \in Undelivered(start, Target) : g[r] # "TemporaryFailure" THEN "Completed" ELSE "Scheduled"
  BY <1>1, OutcomeIs
<1> HIDE DEF d, status
<1>5. msg' = n
  BY <1>2, <1>3, Ended DEF Changed
<1>6. [msg |-> n, got |-> got] \in AttemptResults(start, Target, Now, Replies, RateDelays)
  BY <1>1, <1>4, Whole DEF d
<1>7. n.rcpts = Answered(start, g)
  BY DEF Changed
<1>8. Received(start, n.rcpts) = got
  <2>1. g \in [Undelivered(start, Target) -> Answers]
    BY DeliveryAssumption DEF Answers
  <2>2. Received(start, Answered(start, g)) = {r \in Undelivered(start, Target) : g[r] = "Completed"}
    BY <1>1, <2>1, ReceivedIs
  <2> QED
    BY <1>7, <2>2
<1> HIDE DEF n, got
<1> QED
  BY <1>3, <1>5, <1>6, <1>8, EndStep

\* A rate limit.
LEMMA EndLimited ==
  ASSUME start \in Starts, pc # "done", UNCHANGED start, msg = start, RateLimited
  PROVE  Abstract!Attempt
<1>1. Start(start) /\ IsRecord(start) /\ Target \in DueDomains(start, Now)
  BY StartsStart DEF Start
<1>2. PICK delay \in RateDelays : NextDomain(start, SetRateLimiterError(start.domains[Target], At(Now + delay)))
  BY DEF RateLimited
<1> DEFINE d == SetRateLimiterError(start.domains[Target], At(Now + delay))
           n == [start EXCEPT !.domains[Target] = d]
<1>3. msg' = n /\ pc' = "done"
  BY <1>2 DEF NextDomain
<1>4. [msg |-> n, got |-> {}] \in AttemptResults(start, Target, Now, Replies, RateDelays)
  BY <1>1 DEF AttemptResults
<1> HIDE DEF d
<1>5. n.rcpts = start.rcpts
  BY <1>1, Ended DEF Changed
<1>6. Received(start, start.rcpts) = {}
  BY DEF Received
<1> HIDE DEF n
<1> QED
  BY <1>3, <1>4, <1>5, <1>6, EndStep

\* What the queue sees of a step, with the invariant it keeps.
Refines == AttemptInv' /\ [Abstract!Attempt]_Abstract!avars

\* A step that ends the attempt.
LEMMA Ends ==
  ASSUME AttemptInv, UNCHANGED start, pc' = "done", Abstract!Attempt
  PROVE  Refines
<1>1. AttemptInv'
  BY DEF AttemptInv
<1> QED
  BY <1>1 DEF Refines

\* A step before the session that does not end the attempt.
LEMMA Quiet ==
  ASSUME AttemptInv, UNCHANGED <<start, msg>>, pc \notin {"rcpt", "reply", "done"},
         pc' \notin {"rcpt", "reply", "done"},
         UNCHANGED <<todo, accepted>> \/ (todo' = {} /\ accepted' = {}),
         last' = last \/ last' \in Failure
  PROVE  Refines
<1>1. AttemptInv'
  BY DEF AttemptInv
<1>2. UNCHANGED Abstract!avars
  BY DEF Abstract!avars
<1> QED
  BY <1>1, <1>2 DEF Refines

\* Before the session the attempt may end with any failure.
LEMMA NoSession ==
  ASSUME AttemptInv, UNCHANGED start, pc \notin {"rcpt", "reply", "done"},
         NEW status \in {"TemporaryFailure", "PermanentFailure", "Scheduled"}, End(msg, status)
  PROVE  Refines
<1> DEFINE g == [r \in {} |-> "TemporaryFailure"]
<1>1. start \in Starts /\ msg = start /\ g \in [{} -> Replies \ {"Completed"}] /\ g \in [{} -> Answers]
  BY DEF AttemptInv
<1> HIDE DEF g
<1>2. WithReplies(start, g) = msg
  BY <1>1, StartsStart, NoAnswer DEF Start
<1>3. {} \in SUBSET Undelivered(start, Target)
  OBVIOUS
<1>4. Abstract!Attempt
  BY <1>1, <1>2, <1>3, EndCut
<1>5. pc' = "done"
  BY DEF End, NextDomain
<1> QED
  BY <1>4, <1>5, Ends

\* The session may be cut short while somebody is left.
LEMMA SessionCut ==
  ASSUME AttemptInv, UNCHANGED start, pc \in {"rcpt", "reply"},
         NEW status \in Failure, End(msg, status), todo # {} \/ accepted # {}
  PROVE  Refines
<1> DEFINE P == Undelivered(start, Target)
           Q == P \ (todo \cup accepted)
<1>1. start \in Starts /\ todo \subseteq P /\ accepted \subseteq P /\ pc # "done"
  BY DEF AttemptInv
<1>2. PICK g \in [Q -> Replies \ {"Completed"}] : msg = WithReplies(start, g)
  BY DEF AttemptInv
<1>3. Q \in SUBSET P /\ Q # P
  BY <1>1
<1>4. status \in {"TemporaryFailure", "PermanentFailure", "Scheduled"} /\ status # "Scheduled"
  BY DEF Failure
<1> HIDE DEF Q
<1>5. Abstract!Attempt
  BY <1>1, <1>2, <1>3, <1>4, EndCut
<1>6. pc' = "done"
  BY DEF End, NextDomain
<1> QED
  BY <1>5, <1>6, Ends

\* Two rounds of answers.
LEMMA TwoAnswers ==
  ASSUME NEW m, Start(m), NEW Q \in SUBSET DOMAIN m.rcpts, NEW R \in SUBSET DOMAIN m.rcpts, Q \cap R = {},
         NEW g \in [Q -> Answers], NEW h \in [R -> Answers]
  PROVE  WithReplies(WithReplies(m, g), h) = WithReplies(m, [r \in Q \cup R |-> IF r \in Q THEN g[r] ELSE h[r]])
<1> DEFINE f == [r \in Q \cup R |-> IF r \in Q THEN g[r] ELSE h[r]]
           n == WithReplies(m, g)
           a == Answered(n, h)
           b == Answered(m, f)
<1>1. IsRecord(m)
  BY DEF Start
<1>2. /\ IsRecord(n) /\ n.rcpts = Answered(m, g) /\ n.returnPath = m.returnPath
      /\ n.domains = m.domains /\ n.quotaKeys = m.quotaKeys
  BY <1>1, Replied
<1> HIDE DEF n
<1>3. DOMAIN n.rcpts = DOMAIN m.rcpts
  BY <1>2 DEF Answered
<1>4. \A r \in DOMAIN m.rcpts : a[r] = b[r]
  <2> SUFFICES ASSUME NEW r \in DOMAIN m.rcpts PROVE a[r] = b[r]
    OBVIOUS
  <2>1. a[r] = IF r \in R THEN [n.rcpts[r] EXCEPT !.status = h[r]] ELSE n.rcpts[r]
    BY <1>3 DEF Answered
  <2>2. n.rcpts[r] = IF r \in Q THEN [m.rcpts[r] EXCEPT !.status = g[r]] ELSE m.rcpts[r]
    BY <1>2 DEF Answered
  <2>3. b[r] = IF r \in Q \cup R THEN [m.rcpts[r] EXCEPT !.status = f[r]] ELSE m.rcpts[r]
    BY DEF Answered
  <2> HIDE DEF a, b
  <2>4. CASE r \in Q
    BY <2>1, <2>2, <2>3, <2>4
  <2>5. CASE r \in R
    BY <2>1, <2>2, <2>3, <2>5
  <2>6. CASE r \notin Q \cup R
    BY <2>1, <2>2, <2>3, <2>6
  <2> QED
    BY <2>4, <2>5, <2>6
<1>5. a = b
  <2>1. a = [r \in DOMAIN m.rcpts |-> a[r]] /\ b = [r \in DOMAIN m.rcpts |-> b[r]]
    BY <1>3 DEF Answered
  <2> HIDE DEF a, b
  <2> QED
    BY <1>4, <2>1
<1> HIDE DEF a, b, f
<1>6. /\ IsRecord(WithReplies(n, h)) /\ WithReplies(n, h).rcpts = a
      /\ WithReplies(n, h).returnPath = n.returnPath /\ WithReplies(n, h).domains = n.domains
      /\ WithReplies(n, h).quotaKeys = n.quotaKeys
  BY <1>2, Replied DEF a
<1>7. /\ IsRecord(WithReplies(m, f)) /\ WithReplies(m, f).rcpts = b
      /\ WithReplies(m, f).returnPath = m.returnPath /\ WithReplies(m, f).domains = m.domains
      /\ WithReplies(m, f).quotaKeys = m.quotaKeys
  BY <1>1, Replied DEF b
<1>8. WithReplies(n, h) = WithReplies(m, f)
  BY <1>2, <1>5, <1>6, <1>7 DEF IsRecord
<1> QED
  BY <1>8 DEF n, f

\* RCPT TO: a recipient is accepted, or rejected with a status.
LEMMA RcptStep ==
  ASSUME AttemptInv, NEW r \in todo, RcptTo(r)
  PROVE  Refines
<1> DEFINE P == Undelivered(start, Target)
           Q == P \ (todo \cup accepted)
<1>1. /\ pc = "rcpt" /\ UNCHANGED <<start, pc, last>> /\ todo' = todo \ {r}
      /\ start \in Starts /\ todo \subseteq P /\ accepted \subseteq P /\ todo \cap accepted = {}
      /\ last \in {"Scheduled"} \cup Failure
  BY DEF AttemptInv, RcptTo, fixed
<1>2. PICK g \in [Q -> Replies \ {"Completed"}] : msg = WithReplies(start, g)
  BY <1>1 DEF AttemptInv
<1>3. CASE accepted' = accepted \cup {r} /\ UNCHANGED msg
  <2>1. Undelivered(start', Target) \ (todo' \cup accepted') = Q
    BY <1>1, <1>3
  <2>2. todo' \subseteq P /\ accepted' \subseteq P /\ todo' \cap accepted' = {}
    BY <1>1, <1>3
  <2> HIDE DEF P, Q
  <2> QED
    BY <1>1, <1>2, <1>3, <2>1, <2>2 DEF AttemptInv, Refines, Abstract!avars, P
<1>4. ASSUME NEW status \in Replies \ {"Completed"}, msg' = WithReplies(msg, [x \in {r} |-> status]),
             UNCHANGED accepted
      PROVE  Refines
  <2> DEFINE h == [x \in {r} |-> status]
             f == [x \in Q \cup {r} |-> IF x \in Q THEN g[x] ELSE h[x]]
  <2>1. P \subseteq DOMAIN start.rcpts /\ Start(start) /\ Replies \subseteq Answers
    BY <1>1, StartsStart, DeliveryAssumption DEF Undelivered, RcptsOf, Answers
  <2>2. Q \in SUBSET DOMAIN start.rcpts /\ {r} \in SUBSET DOMAIN start.rcpts /\ Q \cap {r} = {}
    BY <1>1, <2>1
  <2>3. g \in [Q -> Answers] /\ h \in [{r} -> Answers]
    BY <2>1
  <2>4. f \in [Q \cup {r} -> Replies \ {"Completed"}]
    <3> HIDE DEF Q
    <3> QED
      OBVIOUS
  <2>5. msg' = WithReplies(start, f)
    <3> HIDE DEF Q, h
    <3>1. msg' = WithReplies(WithReplies(start, g), h)
      BY <1>2, <1>4 DEF h
    <3> QED
      BY <2>1, <2>2, <2>3, <3>1, TwoAnswers
  <2> HIDE DEF f
  <2>6. Undelivered(start', Target) \ (todo' \cup accepted') = Q \cup {r}
    BY <1>1, <1>4
  <2>7. todo' \subseteq P /\ accepted' \subseteq P /\ todo' \cap accepted' = {}
    BY <1>1, <1>4
  <2> HIDE DEF P, Q
  <2>8. AttemptInv'
    BY <1>1, <2>4, <2>5, <2>6, <2>7 DEF AttemptInv, P
  <2>9. UNCHANGED Abstract!avars
    BY <1>1 DEF Abstract!avars
  <2> QED
    BY <2>8, <2>9 DEF Refines
<1> QED
  BY <1>3, <1>4 DEF RcptTo

\* The reply to the content.
LEMMA ReplyStep ==
  ASSUME AttemptInv, DataReply
  PROVE  Refines
<1> DEFINE P == Undelivered(start, Target)
           Q == P \ accepted
<1>1. /\ pc = "reply" /\ UNCHANGED start /\ start \in Starts /\ todo = {} /\ accepted # {}
      /\ accepted \subseteq P /\ Q = P \ (todo \cup accepted)
  BY DEF AttemptInv, DataReply, fixed
<1>2. CASE \E status \in Failure : End(msg, status)
  BY <1>1, <1>2, SessionCut
<1>3. ASSUME NEW h \in [accepted -> Replies], NEW m, m = WithReplies(msg, h), End(m, Outcome(m))
      PROVE  Refines
  <2>1. PICK g \in [Q -> Replies \ {"Completed"}] : msg = WithReplies(start, g)
    BY <1>1 DEF AttemptInv
  <2> DEFINE f == [x \in Q \cup accepted |-> IF x \in Q THEN g[x] ELSE h[x]]
  <2>2. P \subseteq DOMAIN start.rcpts /\ Start(start) /\ Replies \subseteq Answers
    BY <1>1, StartsStart, DeliveryAssumption DEF Undelivered, RcptsOf, Answers
  <2>3. Q \in SUBSET DOMAIN start.rcpts /\ accepted \in SUBSET DOMAIN start.rcpts /\ Q \cap accepted = {}
        /\ Q \cup accepted = P
    BY <1>1, <2>2
  <2>4. g \in [Q -> Answers] /\ h \in [accepted -> Answers]
    BY <2>2
  <2>5. f \in [P -> Replies]
    <3> HIDE DEF Q, P
    <3> QED
      BY <2>3
  <2>6. m = WithReplies(start, f)
    <3> HIDE DEF Q, P
    <3>1. m = WithReplies(WithReplies(start, g), h)
      BY <1>3, <2>1
    <3> QED
      BY <2>2, <2>3, <2>4, <3>1, TwoAnswers
  <2> HIDE DEF f
  <2>7. Abstract!Attempt
    BY <1>1, <1>3, <2>5, <2>6, EndWhole
  <2>8. pc' = "done"
    BY <1>3 DEF End, NextDomain
  <2> QED
    BY <1>1, <2>7, <2>8, Ends
<1>4. [r \in accepted |-> "Completed"] \in [accepted -> Replies]
  BY DeliveryAssumption
<1> QED
  BY <1>2, <1>3, <1>4 DEF DataReply

\* Every step is a step of the abstract attempt, or none.
LEMMA StepRefines ==
  ASSUME AttemptInv, [Next]_vars
  PROVE  Refines
<1> USE DEF fixed, lookup, local
<1>1. CASE UNCHANGED vars
  BY <1>1 DEF vars, AttemptInv, Refines, Abstract!avars
<1>2. CASE ThrottleDomain \/ ThrottleHost
  <2>1. pc \in {"start", "ip"} /\ UNCHANGED start /\ RateLimited
    BY <1>2 DEF ThrottleDomain, ThrottleHost
  <2>2. start \in Starts /\ msg = start
    BY <2>1 DEF AttemptInv
  <2>3. pc' = "done"
    BY <2>1 DEF RateLimited, NextDomain
  <2> QED
    BY <2>1, <2>2, <2>3, EndLimited, Ends
<1>3. CASE DeliverLocal
  <2>1. pc = "start" /\ UNCHANGED start /\ start \in Starts /\ msg = start
    BY <1>3 DEF DeliverLocal, AttemptInv
  <2>2. PICK g \in [Undelivered(start, Target) -> Replies] :
          End(WithReplies(start, g), Outcome(WithReplies(start, g)))
    BY <1>3, <2>1 DEF DeliverLocal
  <2>3. Abstract!Attempt
    BY <2>1, <2>2, EndWhole
  <2>4. pc' = "done"
    BY <2>2 DEF End, NextDomain
  <2> QED
    BY <2>1, <2>3, <2>4, Ends
<1>4. CASE StartRemote \/ FindPolicy \/ LookupMx
  BY <1>4, Quiet DEF StartRemote, FindPolicy, LookupMx, AfterPolicy
<1>5. CASE MissPolicy
  <2>1. pc = "policy" /\ UNCHANGED start
    BY <1>5 DEF MissPolicy
  <2>2. CASE \E status \in Failure : End(msg, status)
    BY <2>1, <2>2, NoSession DEF Failure
  <2>3. CASE pc' = AfterPolicy /\ UNCHANGED <<msg, last, local>>
    BY <2>1, <2>3, Quiet DEF AfterPolicy
  <2>4. \A err \in FetchErrors \cup TxtErrors : err[2] \in Failure
    BY DEF FetchErrors, TxtErrors, Failure
  <2> QED
    BY <1>5, <2>2, <2>3, <2>4 DEF MissPolicy
<1>6. CASE MissMx
  BY <1>6, NoSession DEF MissMx, Failure
<1>7. CASE SkipHost
  BY <1>7, Quiet DEF SkipHost, TakeHost, NextHost, Leave, Failure
<1>8. CASE ResolveHost
  BY <1>8, Quiet DEF ResolveHost, TakeHost, NextHost, Leave, Failure
<1>9. CASE NoHostLeft
  <2>1. last \in {"TemporaryFailure", "PermanentFailure", "Scheduled"}
    BY <1>9 DEF NoHostLeft, AttemptInv, Failure
  <2> QED
    BY <1>9, <2>1, NoSession DEF NoHostLeft
<1>10. CASE FindTlsa \/ MissTlsa \/ NoDane
  BY <1>10, Quiet DEF FindTlsa, MissTlsa, NoDane, NextHost, Leave, Failure
<1>11. CASE ConnectFails \/ Connect \/ NoIpLeft
  BY <1>11, Quiet DEF ConnectFails, Connect, NoIpLeft, NextHost, Leave, Failure
<1>12. CASE Greeting
  BY <1>12, Quiet DEF Greeting, NextHost, Leave
<1>13. CASE NoStartTls \/ DaneMismatch \/ StartTls \/ StartTlsUnavailable
  BY <1>13, Quiet DEF NoStartTls, DaneMismatch, StartTls, StartTlsUnavailable, NextHost, Leave
<1>14. CASE StartTlsError \/ ImplicitTls
  BY <1>14, Quiet DEF StartTlsError, ImplicitTls, NextHost, Leave, Failure
<1>15. CASE MailFrom
  <2>1. pc = "mail" /\ UNCHANGED start
    BY <1>15 DEF MailFrom
  <2>2. CASE \E status \in Failure : End(msg, status)
    BY <2>1, <2>2, NoSession DEF Failure
  <2>3. CASE todo' = Undelivered(msg, Target) /\ pc' = "rcpt" /\ UNCHANGED <<msg, last, accepted>>
    <3> DEFINE g == [r \in {} |-> "TemporaryFailure"]
    <3>1. start \in Starts /\ msg = start /\ accepted = {} /\ last \in {"Scheduled"} \cup Failure
      BY <2>1 DEF AttemptInv
    <3>2. g \in [{} -> Replies \ {"Completed"}] /\ g \in [{} -> Answers]
      OBVIOUS
    <3> HIDE DEF g
    <3>3. WithReplies(start, g) = start
      BY <3>1, <3>2, StartsStart, NoAnswer DEF Start
    <3>4. Undelivered(start', Target) \ (todo' \cup accepted') = {}
      BY <2>1, <2>3, <3>1
    <3>5. AttemptInv'
      BY <2>1, <2>3, <3>1, <3>2, <3>3, <3>4 DEF AttemptInv
    <3>6. UNCHANGED Abstract!avars
      BY <2>1, <2>3 DEF Abstract!avars
    <3> QED
      BY <3>5, <3>6 DEF Refines
  <2> QED
    BY <1>15, <2>2, <2>3 DEF MailFrom
<1>16. ASSUME NEW r \in todo, RcptTo(r) PROVE Refines
  BY <1>16, RcptStep
<1>17. CASE RcptToFails
  BY <1>17, SessionCut DEF RcptToFails, Failure
<1>18. CASE AllRejected
  <2> DEFINE P == Undelivered(start, Target)
  <2>1. /\ pc = "rcpt" /\ UNCHANGED start /\ start \in Starts /\ End(msg, Outcome(msg))
        /\ P \ (todo \cup accepted) = P
    BY <1>18 DEF AllRejected, AttemptInv
  <2>2. PICK g \in [P -> Replies \ {"Completed"}] : msg = WithReplies(start, g)
    BY <2>1 DEF AttemptInv
  <2>3. g \in [P -> Replies]
    OBVIOUS
  <2>4. Abstract!Attempt
    BY <2>1, <2>2, <2>3, EndWhole
  <2>5. pc' = "done"
    BY <2>1 DEF End, NextDomain
  <2> QED
    BY <2>1, <2>4, <2>5, Ends
<1>19. CASE SendMessage
  <2>1. pc = "rcpt" /\ UNCHANGED start /\ todo = {} /\ accepted # {}
    BY <1>19 DEF SendMessage
  <2>2. CASE \E status \in Failure : End(msg, status)
    BY <2>1, <2>2, SessionCut
  <2>3. CASE pc' = "reply" /\ UNCHANGED <<msg, last, local>>
    BY <2>1, <2>3 DEF AttemptInv, Refines, Abstract!avars
  <2> QED
    BY <1>19, <2>2, <2>3 DEF SendMessage
<1>20. CASE DataReply
  BY <1>20, ReplyStep
<1> QED
  BY <1>1, <1>2, <1>3, <1>4, <1>5, <1>6, <1>7, <1>8, <1>9, <1>10, <1>11, <1>12, <1>13, <1>14, <1>15, <1>16,
     <1>17, <1>18, <1>19, <1>20 DEF Next

\* The attempt implements the abstract one: whatever the lookups, hosts and
\* sessions of deliver_task do, the queue sees one step, whose result is one of
\* those QueueSpool's workers take, and the recipients that count as delivered
\* to are those the result says received the message.
THEOREM Refinement == Spec => AttemptSpec
<1>1. Init => AttemptInv
  BY DEF Init, AttemptInv
<1>2. AttemptInv /\ [Next]_vars => AttemptInv'
  BY StepRefines DEF Refines
<1>3. Init => Abstract!Init
  BY DEF Init, Abstract!Init
<1>4. AttemptInv /\ [Next]_vars => [Abstract!Attempt]_Abstract!avars
  BY StepRefines DEF Refines
<1> QED
  BY <1>1, <1>2, <1>3, <1>4, PTL DEF Spec, AttemptSpec, Abstract!Spec
=============================================================================
