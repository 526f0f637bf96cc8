--------------------------- MODULE SmtpSessionProofs ---------------------------
(***************************************************************************)
(* Proofs about SmtpSession: for every client, that the answers to content *)
(* are counted right and that no message has anything from before the last *)
(* reset; for a client that sends RSET after a refusal, that LMTP gives    *)
(* one reply for each recipient.                                           *)
(***************************************************************************)
EXTENDS SmtpSession, TLAPS

Modes == {"request", "data", "bdat", "bdat last", "sasl", "data too large", "chunk too large", "line too long"}
TransType == [from: BOOLEAN, rcpts: SUBSET Address, chunks: Nat, params: SUBSET Params, oks: Nat]
SaidType == [asked: SUBSET Params, rcpts: SUBSET Address, oks: Nat, chunks: Nat, refused: BOOLEAN]
MessageType == [rcpts: SUBSET Address, params: SUBSET Params, chunks: Nat, said: SaidType]
CountType == [auth: Nat, rcpt: Nat, sent: Nat]
RepliesType == [taken: Nat, dropped: Nat, sent: Nat, due: Nat]

\* Types, without the bounds that follow from the client's bytes.
Types ==
    /\ mode \in Modes /\ trans \in TransType /\ said \in SaidType
    /\ queue \in Seq(MessageType) /\ count \in CountType /\ replies \in RepliesType

\* The session answers with 250 what it queues or drops, if no hook quarantines; what is queued is counted, and
\* content is read only while there is room for one more message and somebody to get it.
Counted ==
    /\ "quarantine" \notin Verdicts => AcceptedIsQueued
    /\ Len(queue) <= count.sent /\ count.sent <= MaxMessages
    /\ mode = "data" => CanSendData

\* The session's transaction is what the client said since the last reset: the same recipients,
\* no other parameter and no more content; the same parameters, content and replies while
\* nothing was refused.
Fits(t, s) ==
    /\ t.rcpts = s.rcpts /\ t.params \subseteq s.asked /\ t.chunks <= s.chunks
    /\ ~s.refused => t.params = s.asked /\ t.chunks = s.chunks /\ t.oks = s.oks

\* While nothing was refused there are recipients and parameters only where there is a sender;
\* a tidy client sends no content after a refusal.
InStep ==
    /\ Fits(trans, said)
    /\ ~said.refused /\ ~trans.from => trans.rcpts = {} /\ trans.params = {} /\ trans.oks = 0
    /\ Tidy /\ mode # "request" => ~said.refused

\* Too much content is met only where the limit can be passed; one reply each until then.
Answered == OneReplyEach /\ (mode = "data too large" => Oversize)

-------------------------------------------------------------------------------
(* Every client. *)

\* Content that is complete keeps the counts right: what the handler queues it counts, and
\* it answers 250 for what it queues and what it drops.
LEMMA QueueMessageCounted ==
  ASSUME Types, Counted, NEW v \in Verdicts,
         NEW t \in TransType, NEW s \in SaidType, count.sent < MaxMessages,
         mode' = "request", QueueMessage(t, s, v)
  PROVE  (Types /\ Counted)'
<1> USE SessionAssumption
<1>0. /\ mode' \in Modes /\ NoTrans \in TransType /\ NoSaid \in SaidType /\ MaxMessages \in Nat
      /\ Queued(t, s) \in MessageType
  BY DEF Modes, NoTrans, NoSaid, TransType, SaidType, Queued, MessageType
<1>1. CASE ~t.from
  <2>1. UNCHANGED <<trans, said, count, queue, replies>>
    BY <1>1 DEF QueueMessage
  <2> QED
    BY <1>0, <2>1 DEF Types, Counted, AcceptedIsQueued
<1>2. CASE t.from
  <2>1. /\ queue' = IF v = "queue" THEN Append(queue, Queued(t, s)) ELSE queue
        /\ count' = IF v \in {"queue", "spam", "spamdrop", "report"} THEN [count EXCEPT !.sent = @ + 1] ELSE count
        /\ trans' = NoTrans /\ said' = NoSaid
    BY <1>2 DEF QueueMessage, Reset
  <2>2. /\ replies'.taken = IF Answer(v) THEN replies.taken + 1 ELSE replies.taken
        /\ replies'.dropped = IF v \in {"spamdrop", "report", "discard"} THEN replies.dropped + 1 ELSE replies.dropped
        /\ replies' \in RepliesType
    <3> DEFINE taken == IF Answer(v) THEN replies.taken + 1 ELSE replies.taken
               dropped == IF v \in {"spamdrop", "report", "discard"} THEN replies.dropped + 1 ELSE replies.dropped
               out == IF v = "disconnect" THEN replies.sent ELSE IF Lmtp THEN t.oks ELSE 1
               due == IF v = "disconnect" THEN replies.due ELSE IF Lmtp THEN s.oks ELSE 1
    <3>1. replies' = [replies EXCEPT !.taken = taken, !.dropped = dropped, !.sent = out, !.due = due]
      BY <1>2 DEF QueueMessage
    <3>a. replies.taken \in Nat /\ replies.dropped \in Nat /\ replies.sent \in Nat /\ replies.due \in Nat
      BY DEF Types, RepliesType
    <3>b. t.oks \in Nat /\ s.oks \in Nat
      BY DEF TransType, SaidType
    <3>2. taken \in Nat /\ dropped \in Nat /\ out \in Nat /\ due \in Nat
      BY <3>a, <3>b
    <3> HIDE DEF taken, dropped, out, due
    <3>3. replies'.taken = taken /\ replies'.dropped = dropped /\ replies' \in RepliesType
      BY <3>1, <3>2 DEF Types, RepliesType
    <3> QED
      BY <3>3 DEF taken, dropped
  <2>3. /\ queue' \in Seq(MessageType)
        /\ Len(queue') = IF v = "queue" THEN Len(queue) + 1 ELSE Len(queue)
    BY <1>0, <2>1 DEF Types
  <2>4. /\ count' \in CountType
        /\ count'.sent = IF v \in {"queue", "spam", "spamdrop", "report"} THEN count.sent + 1 ELSE count.sent
    <3> DEFINE k == count.sent + 1
    <3>1. count \in CountType /\ k \in Nat
      BY DEF Types, CountType
    <3>2. count' = IF v \in {"queue", "spam", "spamdrop", "report"} THEN [count EXCEPT !.sent = k] ELSE count
      BY Zenon, <2>1
    <3> HIDE DEF k
    <3>3. [count EXCEPT !.sent = k] \in CountType /\ [count EXCEPT !.sent = k].sent = k
      BY <3>1 DEF CountType
    <3>4. CASE v \in {"queue", "spam", "spamdrop", "report"}
      BY Zenon, <3>2, <3>3, <3>4 DEF k
    <3>5. CASE v \notin {"queue", "spam", "spamdrop", "report"}
      BY Zenon, <3>1, <3>2, <3>5
    <3> QED
      BY Zenon, <3>4, <3>5
  <2>5. Types'
    BY <1>0, <2>1, <2>2, <2>3, <2>4 DEF Types
  <2>6. Len(queue) \in Nat /\ count.sent \in Nat /\ replies \in RepliesType
    BY DEF Types, CountType
  <2>7. ASSUME "quarantine" \notin Verdicts PROVE AcceptedIsQueued'
    <3>1. /\ replies'.taken \in Nat /\ replies'.dropped \in Nat /\ replies.taken \in Nat /\ replies.dropped \in Nat
          /\ replies.taken = Len(queue) + replies.dropped
      BY <2>2, <2>6, <2>7 DEF RepliesType, Counted, AcceptedIsQueued
    <3>2. Answer(v) <=> v = "queue" \/ v \in {"spamdrop", "report", "discard"}
      BY <2>7 DEF Answer
    <3>3. replies'.taken = Len(queue') + replies'.dropped
      <4> DEFINE n == Len(queue)  k == replies.dropped  z == replies.taken
      <4>0. n \in Nat /\ k \in Nat /\ z \in Nat /\ z = n + k
        BY Zenon, <2>6, <3>1
      <4>a. (n + 1) + k = z + 1 /\ n + (k + 1) = z + 1
        <5> HIDE DEF n, k, z
        <5> QED
          BY <4>0
      <4>1. CASE v = "queue"
        <5>1. /\ replies'.taken = replies.taken + 1 /\ replies'.dropped = replies.dropped
              /\ Len(queue') = Len(queue) + 1
          BY Zenon, <2>2, <2>3, <3>2, <4>1
        <5> QED
          BY Zenon, <4>a, <5>1
      <4>2. CASE v \in {"spamdrop", "report", "discard"}
        <5>1. /\ replies'.taken = replies.taken + 1 /\ replies'.dropped = replies.dropped + 1
              /\ Len(queue') = Len(queue)
          BY Zenon, <2>2, <2>3, <3>2, <4>2
        <5> QED
          BY Zenon, <4>a, <5>1
      <4>3. CASE v \notin {"queue", "spamdrop", "report", "discard"}
        <5>1. /\ replies'.taken = replies.taken /\ replies'.dropped = replies.dropped
              /\ Len(queue') = Len(queue)
          BY Zenon, <2>2, <2>3, <3>2, <4>3
        <5> QED
          BY Zenon, <3>1, <5>1
      <4> QED
        BY Zenon, <4>1, <4>2, <4>3
    <3> QED
      BY <3>3 DEF AcceptedIsQueued
  <2>8. Len(queue') <= count'.sent /\ count'.sent <= MaxMessages
    BY <1>0, <2>3, <2>4, <2>6 DEF Counted
  <2> QED
    BY <2>5, <2>7, <2>8 DEF Counted
<1> QED
  BY <1>1, <1>2

\* Every step of the session keeps the counts right, whatever the client sends.
LEMMA CountedStep ==
  ASSUME Types, Counted, [Next]_vars
  PROVE  (Types /\ Counted)'
<1> USE SessionAssumption
<1>0. NoTrans \in TransType /\ NoSaid \in SaidType /\ MaxMessages \in Nat
  BY DEF NoTrans, NoSaid, TransType, SaidType
<1>a. ASSUME UNCHANGED <<count, queue, replies>>, mode' \in Modes, trans' \in TransType, said' \in SaidType,
             mode' = "data" => CanSendData'
      PROVE  (Types /\ Counted)'
  BY <1>a DEF Types, Counted, AcceptedIsQueued
<1>b. trans \in TransType /\ said \in SaidType /\ mode \in Modes
  BY DEF Types
<1>c. ASSUME Refuse PROVE said' \in SaidType
  BY <1>b, <1>c DEF Refuse, SaidType
<1>1. CASE Connect \/ Close \/ Expire \/ UNCHANGED vars
  BY <1>1, <1>a, <1>b DEF Connect, Close, Expire, vars, Counted, CanSendData
<1>2. ASSUME NEW ok \in BOOLEAN, Ehlo(ok) PROVE (Types /\ Counted)'
  <2>1. UNCHANGED <<mode, count, queue, replies>> /\ mode = "request"
    BY <1>2 DEF Ehlo, Command, Reads
  <2>2. trans' \in TransType /\ said' \in SaidType
    BY <1>0, <1>2, <1>b DEF Ehlo, Refuse, Reset, TransType, SaidType
  <2> QED
    BY <1>a, <1>b, <2>1, <2>2
<1>3. CASE EhloInvalid
  BY <1>3, <1>a, <1>b, <1>c DEF EhloInvalid, Command, Reads
<1>4. CASE StartTls
  BY <1>4, <1>a, <1>b DEF StartTls, Command, Reads
<1>5. CASE Rset
  BY <1>0, <1>5, <1>a, <1>b DEF Rset, Reset, Reads
<1>6. CASE Auth
  BY <1>6, <1>a, <1>b DEF Auth, Modes
<1>7. CASE LineTooLong
  BY <1>7, <1>a, <1>b DEF LineTooLong, Modes
<1>8. ASSUME NEW result \in {"ok", "wrong", "more", "banned", "temporary"}, Sasl(result)
      PROVE  (Types /\ Counted)'
  <2>1. /\ mode' \in {"sasl", "request"} /\ UNCHANGED <<trans, queue, said, replies>>
        /\ count' = count \/ count' = [count EXCEPT !.auth = @ + 1]
    BY <1>8 DEF Sasl, AuthError
  <2>2. count' \in CountType /\ count'.sent = count.sent
    BY <2>1 DEF Types, CountType
  <2> QED
    BY <2>1, <2>2 DEF Types, Counted, AcceptedIsQueued, Modes
<1>9. ASSUME NEW asked \in SUBSET Params, NEW stage \in MailStages, MailFrom(asked, stage)
      PROVE  (Types /\ Counted)'
  <2>1. UNCHANGED <<mode, count, queue, replies>> /\ mode = "request"
    BY <1>9 DEF MailFrom, Command, Reads
  <2>2. CASE MailRefused
    BY <1>9, <1>a, <1>b, <1>c, <2>1, <2>2 DEF MailFrom
  <2>3. CASE ~MailRefused
    <3>1. PICK new \in StoredParams(asked, stage) :
            trans' = [trans EXCEPT !.params = @ \cup new, !.from = (stage = "never")]
      BY <1>9, <2>3 DEF MailFrom
    <3>2. new \in SUBSET Params
      BY <1>9 DEF StoredParams
    <3>3. trans' \in TransType
      BY <1>b, <3>1, <3>2 DEF TransType
    <3>4. said' \in SaidType
      <4>1. said' = IF stage = "never" THEN [said EXCEPT !.asked = @ \cup asked, !.oks = 0]
                    ELSE [said EXCEPT !.asked = @ \cup asked, !.refused = TRUE]
        BY <1>9, <2>3 DEF MailFrom
      <4>2. [said EXCEPT !.asked = @ \cup asked, !.refused = TRUE] \in SaidType
        BY <1>b, <1>9 DEF SaidType
      <4>3. [said EXCEPT !.asked = @ \cup asked, !.oks = 0] \in SaidType
        BY <1>b, <1>9 DEF SaidType
      <4> QED
        BY <4>1, <4>2, <4>3
    <3> QED
      BY <1>a, <1>b, <2>1, <3>3, <3>4
  <2> QED
    BY <2>2, <2>3
<1>10. ASSUME NEW a \in Address, NEW ok \in BOOLEAN, RcptTo(a, ok) PROVE (Types /\ Counted)'
  <2>1. UNCHANGED <<mode, queue, replies>> /\ mode = "request"
    BY <1>10 DEF RcptTo, Command, Reads
  <2>2. Expanded(a) \subseteq Address
    BY DEF Expanded
  <2>3. trans' \in TransType /\ said' \in SaidType
    <3>1. \/ UNCHANGED <<trans, said>>
          \/ /\ trans' = [trans EXCEPT !.oks = @ + 1] /\ said' = [said EXCEPT !.oks = @ + 1]
          \/ /\ trans' = [trans EXCEPT !.rcpts = @ \cup Expanded(a), !.oks = @ + 1]
             /\ said' = [said EXCEPT !.rcpts = @ \cup Expanded(a), !.oks = @ + 1]
      BY <1>10 DEF RcptTo, RcptError
    <3>2. [trans EXCEPT !.oks = @ + 1] \in TransType /\ [said EXCEPT !.oks = @ + 1] \in SaidType
      BY <1>b DEF TransType, SaidType
    <3>3. /\ [trans EXCEPT !.rcpts = @ \cup Expanded(a), !.oks = @ + 1] \in TransType
          /\ [said EXCEPT !.rcpts = @ \cup Expanded(a), !.oks = @ + 1] \in SaidType
      <4>1. /\ trans.rcpts \cup Expanded(a) \in SUBSET Address /\ trans.oks + 1 \in Nat
            /\ said.rcpts \cup Expanded(a) \in SUBSET Address /\ said.oks + 1 \in Nat
        BY <1>b, <2>2 DEF TransType, SaidType
      <4>2. ASSUME NEW rs \in SUBSET Address, NEW n \in Nat
            PROVE  /\ [trans EXCEPT !.rcpts = rs, !.oks = n] \in TransType
                   /\ [said EXCEPT !.rcpts = rs, !.oks = n] \in SaidType
        BY <1>b DEF TransType, SaidType
      <4> QED
        BY <4>1, <4>2
    <3> QED
      BY <1>b, <3>1, <3>2, <3>3
  <2>4. count' = count \/ count' = [count EXCEPT !.rcpt = @ + 1]
    BY <1>10 DEF RcptTo, RcptError
  <2>5. count' \in CountType /\ count'.sent = count.sent
    BY <2>4 DEF Types, CountType
  <2> QED
    BY <2>1, <2>3, <2>5 DEF Types, Counted, AcceptedIsQueued
<1>11. CASE RcptUnknown
  <2>1. UNCHANGED <<mode, trans, said, queue, replies>> /\ mode = "request" /\ count' = [count EXCEPT !.rcpt = @ + 1]
    BY <1>11 DEF RcptUnknown, RcptError, Command, Reads
  <2>2. count' \in CountType /\ count'.sent = count.sent
    BY <2>1 DEF Types, CountType
  <2> QED
    BY <2>1, <2>2 DEF Types, Counted, AcceptedIsQueued
<1>12. CASE Data
  <2>1. mode = "request" /\ UNCHANGED <<count, queue, replies>>
    BY <1>12 DEF Data, Command, Reads
  <2>2. CASE CanSendData
    <3>1. mode' = "data" /\ trans' = [trans EXCEPT !.chunks = 0] /\ said' = [said EXCEPT !.chunks = 0]
      BY <1>12, <2>2 DEF Data
    <3>2. trans' \in TransType /\ said' \in SaidType /\ trans'.rcpts = trans.rcpts
      BY <1>b, <3>1 DEF TransType, SaidType
    <3> QED
      BY <1>a, <2>1, <2>2, <3>1, <3>2 DEF CanSendData, Modes
  <2>3. CASE ~CanSendData
    BY <1>12, <1>a, <1>b, <1>c, <2>1, <2>3 DEF Data
  <2> QED
    BY <2>2, <2>3
<1>13. CASE Overflow
  BY <1>13, <1>a, <1>b DEF Overflow, Modes
<1>14. CASE EndTooLarge
  <2>1. mode' = "request" /\ trans' \in TransType /\ said' \in SaidType /\ UNCHANGED <<count, queue>>
    BY <1>14, <1>b DEF EndTooLarge, TransType, SaidType
  <2>2. replies' \in RepliesType /\ replies'.taken = replies.taken /\ replies'.dropped = replies.dropped
    BY <1>14, <1>b DEF EndTooLarge, Types, RepliesType, SaidType
  <2> QED
    BY <2>1, <2>2 DEF Types, Counted, AcceptedIsQueued, Modes
<1>15. ASSUME NEW last \in BOOLEAN, NEW fits \in BOOLEAN, Bdat(last, fits) PROVE (Types /\ Counted)'
  BY <1>15, <1>a, <1>b DEF Bdat, Modes
<1>16. ASSUME NEW v \in Verdicts, EndOfData(v) PROVE (Types /\ Counted)'
  <2>1. [trans EXCEPT !.chunks = 1] \in TransType /\ [said EXCEPT !.chunks = 1] \in SaidType
    BY <1>b DEF TransType, SaidType
  <2>2. mode' = "request" /\ count.sent < MaxMessages
    BY <1>16 DEF EndOfData, Reads, Counted, CanSendData
  <2> QED
    BY <1>16, <2>1, <2>2, QueueMessageCounted DEF EndOfData
<1>17. ASSUME NEW v \in Verdicts, EndOfChunk(v) PROVE (Types /\ Counted)'
  <2>1. mode' = "request" /\ mode \in {"bdat", "bdat last"}
    BY <1>17 DEF EndOfChunk
  <2>2. /\ [trans EXCEPT !.chunks = @ + 1] \in TransType /\ [said EXCEPT !.chunks = @ + 1] \in SaidType
        /\ [trans EXCEPT !.chunks = 0] \in TransType
    BY <1>b DEF TransType, SaidType
  <2>3. CASE ~CanSendData
    BY <1>17, <1>a, <1>c, <2>1, <2>2, <2>3 DEF EndOfChunk, Modes
  <2>4. CASE CanSendData /\ mode = "bdat"
    BY <1>17, <1>a, <2>1, <2>2, <2>4 DEF EndOfChunk, Modes
  <2>5. CASE CanSendData /\ mode # "bdat"
    BY <1>17, <2>1, <2>2, <2>5, QueueMessageCounted DEF EndOfChunk, CanSendData
  <2> QED
    BY <2>3, <2>4, <2>5
<1> QED
  BY <1>1, <1>2, <1>3, <1>4, <1>5, <1>6, <1>7, <1>8, <1>9, <1>10, <1>11, <1>12, <1>13, <1>14, <1>15, <1>16, <1>17
     DEF Next

\* The initial state has all of it.
LEMMA InitHolds ==
  ASSUME Init
  PROVE  Types /\ Counted /\ InStep /\ Answered /\ OwnTransaction
<1> USE SessionAssumption
<1>1. Types
  BY DEF Init, Types, Modes, TransType, SaidType, CountType, RepliesType, NoTrans, NoSaid
<1>2. Counted
  BY DEF Init, Counted, AcceptedIsQueued
<1>3. InStep /\ Answered
  BY DEF Init, InStep, Fits, Answered, OneReplyEach, NoTrans, NoSaid
<1>4. OwnTransaction
  BY DEF Init, OwnTransaction, OwnRecipients, OwnParams, WholeContent, SenderKnown
<1> QED
  BY <1>1, <1>2, <1>3, <1>4

-------------------------------------------------------------------------------
(* What was said since the last reset. *)

\* A complete message of a transaction that fits what was said is its own; one reply is due for
\* each recipient if nothing was refused.
LEMMA QueueMessageOwn ==
  ASSUME Types, InStep, OwnTransaction, conn # "panic", NEW v, NEW t \in TransType, NEW s \in SaidType,
         Fits(t, s), s.refused = said.refused, ~t.from => s.refused,
         mode' = "request", QueueMessage(t, s, v)
  PROVE  InStep' /\ OwnTransaction' /\ (OneReplyEach /\ ~s.refused => OneReplyEach')
<1>1. CASE ~t.from
  <2>1. UNCHANGED <<trans, said, queue, replies>> /\ said.refused
    BY <1>1 DEF QueueMessage
  <2>2. InStep'
    BY <2>1 DEF InStep, Fits
  <2>3. OwnTransaction' /\ (OneReplyEach => OneReplyEach')
    BY <2>1 DEF OwnTransaction, OwnRecipients, OwnParams, WholeContent, SenderKnown, OneReplyEach
  <2> QED
    BY <2>2, <2>3
<1>2. CASE t.from
  <2>1. /\ conn' = IF v = "disconnect" THEN "closed" ELSE conn
        /\ queue' = IF v = "queue" THEN Append(queue, Queued(t, s)) ELSE queue
        /\ trans' = NoTrans /\ said' = NoSaid
    BY <1>2 DEF QueueMessage, Reset
  <2>2. InStep'
    BY <2>1 DEF InStep, Fits, NoTrans, NoSaid
  <2>3. /\ Queued(t, s).rcpts = t.rcpts /\ Queued(t, s).params = t.params
        /\ Queued(t, s).chunks = t.chunks /\ Queued(t, s).said = s
    BY DEF Queued
  <2>4. ASSUME NEW i \in DOMAIN queue'
        PROVE  (i \in DOMAIN queue /\ queue'[i] = queue[i]) \/ queue'[i] = Queued(t, s)
    BY <2>1, <2>4 DEF Types
  <2>5. OwnRecipients' /\ OwnParams' /\ WholeContent'
    <3>1. ASSUME NEW i \in DOMAIN queue'
          PROVE  LET m == queue'[i] IN
                 /\ m.rcpts = m.said.rcpts /\ m.params \subseteq m.said.asked /\ m.chunks <= m.said.chunks
                 /\ ~m.said.refused => m.params = m.said.asked /\ m.chunks = m.said.chunks
      <4>1. CASE queue'[i] = Queued(t, s)
        BY <2>3, <4>1 DEF Fits
      <4>2. CASE i \in DOMAIN queue /\ queue'[i] = queue[i]
        BY <4>2 DEF OwnTransaction, OwnRecipients, OwnParams, WholeContent
      <4> QED
        BY <2>4, <4>1, <4>2
    <3> QED
      BY <3>1 DEF OwnRecipients, OwnParams, WholeContent
  <2>6. SenderKnown'
    BY <2>1 DEF SenderKnown
  <2>7. ASSUME OneReplyEach, ~s.refused PROVE OneReplyEach'
    <3> DEFINE taken == IF Answer(v) THEN replies.taken + 1 ELSE replies.taken
               dropped == IF v \in {"spamdrop", "report", "discard"} THEN replies.dropped + 1 ELSE replies.dropped
               out == IF v = "disconnect" THEN replies.sent ELSE IF Lmtp THEN t.oks ELSE 1
               due == IF v = "disconnect" THEN replies.due ELSE IF Lmtp THEN s.oks ELSE 1
    <3>1. replies' = [replies EXCEPT !.taken = taken, !.dropped = dropped, !.sent = out, !.due = due]
      BY <1>2 DEF QueueMessage
    <3>2. out = due
      BY <2>7 DEF OneReplyEach, Fits
    <3> HIDE DEF taken, dropped, out, due
    <3>3. replies'.sent = out /\ replies'.due = due
      BY <3>1 DEF Types, RepliesType
    <3> QED
      BY <3>2, <3>3 DEF OneReplyEach
  <2> QED
    BY <2>2, <2>5, <2>6, <2>7 DEF OwnTransaction
<1> QED
  BY <1>1, <1>2

\* A session that has panicked does nothing more.
LEMMA PanicEnds ==
  ASSUME Next
  PROVE  conn # "panic"
<1>1. ASSUME NEW m, Reads(m) PROVE conn # "panic"
  BY <1>1 DEF Reads
<1>2. CASE Connect \/ Close \/ Expire
  BY <1>2 DEF Connect, Close, Expire
<1>3. CASE EhloInvalid \/ StartTls \/ Rset \/ Auth \/ LineTooLong
  BY <1>1, <1>3 DEF EhloInvalid, StartTls, Rset, Auth, LineTooLong, Command
<1>4. CASE RcptUnknown \/ Data \/ Overflow \/ EndTooLarge
  BY <1>1, <1>4 DEF RcptUnknown, Data, Overflow, EndTooLarge, Command
<1>5. CASE \E ok \in BOOLEAN : Ehlo(ok)
  BY <1>1, <1>5 DEF Ehlo, Command
<1>6. CASE \E result \in {"ok", "wrong", "more", "banned", "temporary"} : Sasl(result)
  BY <1>1, <1>6 DEF Sasl
<1>7. CASE \E asked \in SUBSET Params, stage \in MailStages : MailFrom(asked, stage)
  BY <1>1, <1>7 DEF MailFrom, Command
<1>8. CASE \E a \in Address, ok \in BOOLEAN : RcptTo(a, ok)
  BY <1>1, <1>8 DEF RcptTo, Command
<1>9. CASE \E last, fits \in BOOLEAN : Bdat(last, fits)
  BY <1>1, <1>9 DEF Bdat, Command
<1>10. CASE \E v \in Verdicts : EndOfData(v) \/ EndOfChunk(v)
  BY <1>1, <1>10 DEF EndOfData, EndOfChunk
<1> QED
  BY <1>2, <1>3, <1>4, <1>5, <1>6, <1>7, <1>8, <1>9, <1>10 DEF Next

\* The content that is complete fits what was said, and has a sender unless something was refused.
LEMMA CompleteFits ==
  ASSUME Types, InStep, trans.rcpts # {}, NEW n \in Nat, NEW k \in Nat, n <= k,
         ~said.refused => n = k
  PROVE  LET t == [trans EXCEPT !.chunks = n]
             s == [said EXCEPT !.chunks = k]
         IN  /\ t \in TransType /\ s \in SaidType /\ Fits(t, s) /\ s.refused = said.refused
             /\ t.from = trans.from /\ s.oks = said.oks /\ t.oks = trans.oks
             /\ ~t.from => s.refused
<1> DEFINE t == [trans EXCEPT !.chunks = n]
           s == [said EXCEPT !.chunks = k]
<1>1. trans \in TransType /\ said \in SaidType
  BY DEF Types
<1>2. /\ t.from = trans.from /\ t.rcpts = trans.rcpts /\ t.params = trans.params /\ t.oks = trans.oks
      /\ t.chunks = n /\ t \in TransType
  BY <1>1 DEF TransType
<1>3. /\ s.asked = said.asked /\ s.rcpts = said.rcpts /\ s.oks = said.oks /\ s.refused = said.refused
      /\ s.chunks = k /\ s \in SaidType
  BY <1>1 DEF SaidType
<1> HIDE DEF t, s
<1>4. Fits(t, s) /\ (~t.from => s.refused)
  BY <1>2, <1>3 DEF InStep, Fits
<1> QED
  BY <1>2, <1>3, <1>4 DEF t, s

\* Every step keeps the session's transaction what the client said since the last reset.
LEMMA InStepStep ==
  ASSUME Types, Counted, InStep, OwnTransaction, [Next]_vars
  PROVE  (InStep /\ OwnTransaction)'
<1> USE SessionAssumption
<1>a. trans \in TransType /\ said \in SaidType /\ mode \in Modes /\ trans.chunks \in Nat /\ said.chunks \in Nat
  BY DEF Types, TransType, SaidType
<1>0. CASE UNCHANGED vars
  BY <1>0 DEF vars, InStep, Fits, OwnTransaction, OwnRecipients, OwnParams, WholeContent, SenderKnown
<1> SUFFICES ASSUME Next PROVE (InStep /\ OwnTransaction)'
  BY <1>0
<1>b. ASSUME UNCHANGED queue, conn' # "panic" PROVE OwnTransaction'
  BY <1>b DEF OwnTransaction, OwnRecipients, OwnParams, WholeContent, SenderKnown
<1>c. conn # "panic"
  BY PanicEnds
<1>d. ASSUME Refuse, mode' = "request", trans'.rcpts = trans.rcpts, trans'.params = trans.params,
             trans'.chunks \in {0, trans.chunks}
      PROVE  InStep'
  <2>1. /\ said'.refused /\ said'.rcpts = said.rcpts /\ said'.asked = said.asked /\ said'.chunks = said.chunks
    BY <1>a, <1>d DEF Refuse, SaidType
  <2>2. trans'.chunks <= said'.chunks
    BY <1>a, <1>d, <2>1 DEF InStep, Fits
  <2> QED
    BY <1>d, <2>1, <2>2 DEF InStep, Fits
<1>e. ASSUME UNCHANGED <<trans, said>>, mode' = "request" \/ (Tidy => ~said.refused) PROVE InStep'
  BY <1>e DEF InStep, Fits
<1>f. ASSUME Reset, mode' = "request" PROVE InStep'
  BY <1>f DEF InStep, Fits, Reset, NoTrans, NoSaid
<1>1. CASE Connect \/ Close \/ Expire
  <2>1. UNCHANGED <<mode, trans, said, queue>> /\ conn' # "panic"
    BY <1>1, <1>c DEF Connect, Close, Expire
  <2> QED
    BY <1>b, <2>1 DEF InStep, Fits
<1>2. ASSUME NEW ok \in BOOLEAN, Ehlo(ok) PROVE (InStep /\ OwnTransaction)'
  <2>1. mode' = "request" /\ UNCHANGED <<conn, queue>>
    BY <1>2 DEF Ehlo, Command, Reads
  <2>2. CASE ~ok
    <3>1. Refuse /\ trans' = [trans EXCEPT !.from = FALSE]
      BY <1>2, <2>2 DEF Ehlo
    <3>2. trans'.rcpts = trans.rcpts /\ trans'.params = trans.params /\ trans'.chunks = trans.chunks
      BY <1>a, <3>1 DEF TransType
    <3> QED
      BY <1>b, <1>c, <1>d, <2>1, <3>1, <3>2
  <2>3. CASE ok /\ trans.from
    BY <1>2, <1>b, <1>c, <1>f, <2>1, <2>3 DEF Ehlo
  <2>4. CASE ok /\ ~trans.from
    BY <1>2, <1>e, <2>1, <2>4, <1>b, <1>c DEF Ehlo
  <2> QED
    BY <2>2, <2>3, <2>4
<1>3. CASE EhloInvalid
  BY <1>3, <1>b, <1>c, <1>d DEF EhloInvalid, Command, Reads
<1>4. CASE StartTls
  BY <1>4, <1>b, <1>c, <1>e DEF StartTls, Command, Reads
<1>5. CASE Rset
  BY <1>5, <1>b, <1>c, <1>f DEF Rset, Reads
<1>6. CASE Auth
  BY <1>6, <1>b, <1>c, <1>e DEF Auth, Command
<1>7. CASE LineTooLong
  BY <1>7, <1>b, <1>c, <1>e DEF LineTooLong, Command, Reads
<1>8. ASSUME NEW result \in {"ok", "wrong", "more", "banned", "temporary"}, Sasl(result)
      PROVE  (InStep /\ OwnTransaction)'
  <2>1. mode = "sasl" /\ UNCHANGED <<trans, said, queue>> /\ conn' \in {conn, "closed"}
    BY <1>8 DEF Sasl, AuthError, Reads
  <2>2. Tidy => ~said.refused
    BY <2>1 DEF InStep
  <2> QED
    BY <2>1, <2>2, <1>b, <1>c, <1>e
<1>9. ASSUME NEW asked \in SUBSET Params, NEW stage \in MailStages, MailFrom(asked, stage)
      PROVE  (InStep /\ OwnTransaction)'
  <2>1. mode' = "request" /\ UNCHANGED <<conn, queue>>
    BY <1>9 DEF MailFrom, Command, Reads
  <2>2. CASE MailRefused
    BY <1>9, <1>b, <1>c, <1>d, <2>1, <2>2 DEF MailFrom
  <2>3. CASE ~MailRefused
    <3>1. PICK new \in StoredParams(asked, stage) :
            trans' = [trans EXCEPT !.params = @ \cup new, !.from = (stage = "never")]
      BY <1>9, <2>3 DEF MailFrom
    <3>2. new \subseteq asked /\ (stage = "never" => new = asked)
      BY DEF StoredParams
    <3>3. /\ trans'.rcpts = trans.rcpts /\ trans'.params = trans.params \cup new /\ trans'.oks = trans.oks
          /\ trans'.chunks = trans.chunks /\ trans'.from = (stage = "never")
      BY <1>a, <3>1 DEF TransType
    <3>4. CASE stage # "never"
      <4>1. said' = [said EXCEPT !.asked = @ \cup asked, !.refused = TRUE]
        BY <1>9, <2>3, <3>4 DEF MailFrom
      <4>2. /\ said'.rcpts = said.rcpts /\ said'.asked = said.asked \cup asked /\ said'.chunks = said.chunks
            /\ said'.refused
        BY <1>a, <4>1 DEF SaidType
      <4> QED
        BY <1>b, <1>c, <2>1, <3>2, <3>3, <4>2 DEF InStep, Fits
    <3>5. CASE stage = "never"
      <4>1. said' = [said EXCEPT !.asked = @ \cup asked, !.oks = 0]
        BY <1>9, <2>3, <3>5 DEF MailFrom
      <4>2. /\ said'.rcpts = said.rcpts /\ said'.asked = said.asked \cup asked /\ said'.chunks = said.chunks
            /\ said'.oks = 0 /\ said'.refused = said.refused
        BY <1>a, <4>1 DEF SaidType
      <4>3. ~said.refused => trans.oks = 0
        BY <2>3 DEF InStep, MailRefused
      <4> QED
        BY <1>b, <1>c, <2>1, <3>2, <3>3, <3>5, <4>2, <4>3 DEF InStep, Fits
    <3> QED
      BY <3>4, <3>5
  <2> QED
    BY <2>2, <2>3
<1>10. ASSUME NEW a \in Address, NEW ok \in BOOLEAN, RcptTo(a, ok) PROVE (InStep /\ OwnTransaction)'
  <2>1. mode' = "request" /\ UNCHANGED queue /\ conn' \in {conn, "closed"}
    BY <1>10 DEF RcptTo, RcptError, Command, Reads
  <2>2. CASE UNCHANGED <<trans, said>>
    BY <1>b, <1>c, <1>e, <2>1, <2>2
  <2>3. CASE ~UNCHANGED <<trans, said>>
    <3>1. /\ trans.from
          /\ \/ /\ trans' = [trans EXCEPT !.oks = @ + 1] /\ said' = [said EXCEPT !.oks = @ + 1]
             \/ /\ trans' = [trans EXCEPT !.rcpts = @ \cup Expanded(a), !.oks = @ + 1]
                /\ said' = [said EXCEPT !.rcpts = @ \cup Expanded(a), !.oks = @ + 1]
      BY <1>10, <2>3 DEF RcptTo, RcptError, RcptRefused
    <3>2. /\ trans'.from /\ trans'.params = trans.params /\ trans'.chunks = trans.chunks
          /\ said'.asked = said.asked /\ said'.chunks = said.chunks /\ said'.refused = said.refused
          /\ trans'.oks = trans.oks + 1 /\ said'.oks = said.oks + 1
          /\ \/ trans'.rcpts = trans.rcpts /\ said'.rcpts = said.rcpts
             \/ trans'.rcpts = trans.rcpts \cup Expanded(a) /\ said'.rcpts = said.rcpts \cup Expanded(a)
      BY <1>a, <3>1 DEF TransType, SaidType
    <3> QED
      BY <1>b, <1>c, <2>1, <3>2 DEF InStep, Fits
  <2> QED
    BY <2>2, <2>3
<1>11. CASE RcptUnknown
  BY <1>11, <1>b, <1>c, <1>e DEF RcptUnknown, RcptError, Command, Reads
<1>12. CASE Data
  <2>1. mode = "request" /\ UNCHANGED <<conn, queue>> /\ (Tidy => ~said.refused)
    BY <1>12 DEF Data, Command, Reads
  <2>2. CASE CanSendData
    <3>1. trans' = [trans EXCEPT !.chunks = 0] /\ said' = [said EXCEPT !.chunks = 0]
      BY <1>12, <2>2 DEF Data
    <3>2. /\ trans'.from = trans.from /\ trans'.rcpts = trans.rcpts /\ trans'.params = trans.params
          /\ trans'.oks = trans.oks /\ trans'.chunks = 0 /\ said'.chunks = 0 /\ said'.rcpts = said.rcpts
          /\ said'.asked = said.asked /\ said'.oks = said.oks /\ said'.refused = said.refused
      BY <1>a, <3>1 DEF TransType, SaidType
    <3> QED
      BY <1>b, <1>c, <2>1, <3>2 DEF InStep, Fits
  <2>3. CASE ~CanSendData
    BY <1>12, <1>b, <1>c, <1>d, <2>1, <2>3 DEF Data
  <2> QED
    BY <2>2, <2>3
<1>13. CASE Overflow
  BY <1>13, <1>b, <1>c, <1>e DEF Overflow, Reads, InStep
<1>14. CASE EndTooLarge
  <2>1. Refuse /\ mode' = "request" /\ trans' = [trans EXCEPT !.chunks = 0] /\ UNCHANGED <<conn, queue>>
    BY <1>14 DEF EndTooLarge, Refuse
  <2>2. trans'.rcpts = trans.rcpts /\ trans'.params = trans.params /\ trans'.chunks = 0
    BY <1>a, <2>1 DEF TransType
  <2> QED
    BY <1>b, <1>c, <1>d, <2>1, <2>2
<1>15. ASSUME NEW last \in BOOLEAN, NEW fits \in BOOLEAN, Bdat(last, fits) PROVE (InStep /\ OwnTransaction)'
  BY <1>15, <1>b, <1>c, <1>e DEF Bdat, Command
<1>16. ASSUME NEW v \in Verdicts, EndOfData(v) PROVE (InStep /\ OwnTransaction)'
  <2> DEFINE t == [trans EXCEPT !.chunks = 1]
             s == [said EXCEPT !.chunks = 1]
  <2>1. mode = "data" /\ mode' = "request" /\ QueueMessage(t, s, v)
    BY <1>16 DEF EndOfData, Reads
  <2>2. trans.rcpts # {}
    BY <2>1 DEF Counted, CanSendData
  <2>3. t \in TransType /\ s \in SaidType /\ Fits(t, s) /\ s.refused = said.refused /\ (~t.from => s.refused)
    BY <2>2, CompleteFits
  <2> HIDE DEF t, s
  <2> QED
    BY <1>c, <2>1, <2>3, QueueMessageOwn
<1>17. ASSUME NEW v \in Verdicts, EndOfChunk(v) PROVE (InStep /\ OwnTransaction)'
  <2> DEFINE t == [trans EXCEPT !.chunks = trans.chunks + 1]
             s == [said EXCEPT !.chunks = said.chunks + 1]
  <2>1. mode' = "request" /\ mode \in {"bdat", "bdat last"}
    BY <1>17 DEF EndOfChunk
  <2>2. CASE ~CanSendData
    <3>1. Refuse /\ trans' = [trans EXCEPT !.chunks = 0] /\ UNCHANGED <<conn, queue>>
      BY <1>17, <2>2 DEF EndOfChunk
    <3>2. trans'.rcpts = trans.rcpts /\ trans'.params = trans.params /\ trans'.chunks = 0
      BY <1>a, <3>1 DEF TransType
    <3> QED
      BY <1>b, <1>c, <1>d, <2>1, <3>1, <3>2
  <2>3. CASE CanSendData
    <3>1. /\ trans.chunks + 1 \in Nat /\ said.chunks + 1 \in Nat /\ trans.chunks + 1 <= said.chunks + 1
          /\ ~said.refused => trans.chunks + 1 = said.chunks + 1
      BY <1>a DEF InStep, Fits
    <3>2. /\ t \in TransType /\ s \in SaidType /\ Fits(t, s) /\ s.refused = said.refused /\ t.from = trans.from
          /\ ~t.from => s.refused
      BY <2>3, <3>1, CompleteFits DEF CanSendData
    <3>3. (trans' = t /\ said' = s /\ UNCHANGED <<conn, queue>>) \/ QueueMessage(t, s, v)
      BY <1>17, <2>3 DEF EndOfChunk
    <3> HIDE DEF t, s
    <3>4. CASE QueueMessage(t, s, v)
      BY <1>c, <2>1, <3>2, <3>4, QueueMessageOwn
    <3>5. CASE trans' = t /\ said' = s /\ UNCHANGED <<conn, queue>>
      <4>1. InStep'
        BY <2>1, <3>2, <3>5 DEF InStep
      <4> QED
        BY <1>b, <1>c, <3>5, <4>1
    <3> QED
      BY <3>3, <3>4, <3>5
  <2> QED
    BY <2>2, <2>3
<1> QED
  BY <1>1, <1>2, <1>3, <1>4, <1>5, <1>6, <1>7, <1>8, <1>9, <1>10, <1>11, <1>12, <1>13, <1>14, <1>15, <1>16, <1>17
     DEF Next

-------------------------------------------------------------------------------
(* A client that sends RSET after a refusal. *)

\* Every step leaves one reply for each recipient that was accepted, as long as content that
\* is too large does not meet LMTP.
LEMMA AnsweredStep ==
  ASSUME Tidy, ~(Lmtp /\ Oversize), Types, Counted, InStep, OwnTransaction, Answered, [Next]_vars
  PROVE  Answered'
<1> USE SessionAssumption
<1>a. trans \in TransType /\ said \in SaidType
  BY DEF Types
<1>1. CASE \E v \in Verdicts : EndOfData(v)
  <2>1. PICK v \in Verdicts : EndOfData(v)
    BY <1>1
  <2> DEFINE t == [trans EXCEPT !.chunks = 1]
             s == [said EXCEPT !.chunks = 1]
  <2>2. mode = "data" /\ mode' = "request" /\ QueueMessage(t, s, v) /\ conn # "panic"
    BY <2>1 DEF EndOfData, Reads
  <2>3. trans.rcpts # {} /\ ~said.refused
    BY <2>2 DEF Counted, CanSendData, InStep
  <2>4. t \in TransType /\ s \in SaidType /\ Fits(t, s) /\ s.refused = said.refused /\ (~t.from => s.refused)
    BY <2>3, CompleteFits
  <2> HIDE DEF t, s
  <2> QED
    BY <2>2, <2>3, <2>4, QueueMessageOwn DEF Answered
<1>2. CASE \E v \in Verdicts : EndOfChunk(v)
  <2>1. PICK v \in Verdicts : EndOfChunk(v)
    BY <1>2
  <2> DEFINE t == [trans EXCEPT !.chunks = trans.chunks + 1]
             s == [said EXCEPT !.chunks = said.chunks + 1]
  <2>2. mode' = "request" /\ ~said.refused /\ conn # "panic"
    BY <2>1 DEF EndOfChunk, InStep, Reads
  <2>3. CASE UNCHANGED replies
    BY <2>2, <2>3 DEF Answered, OneReplyEach
  <2>4. CASE ~UNCHANGED replies
    <3>1. CanSendData /\ QueueMessage(t, s, v)
      BY <2>1, <2>4 DEF EndOfChunk
    <3>2. /\ trans.chunks + 1 \in Nat /\ said.chunks + 1 \in Nat /\ trans.chunks + 1 <= said.chunks + 1
          /\ ~said.refused => trans.chunks + 1 = said.chunks + 1
      BY <1>a DEF InStep, Fits, TransType, SaidType
    <3>3. t \in TransType /\ s \in SaidType /\ Fits(t, s) /\ s.refused = said.refused /\ (~t.from => s.refused)
      BY <3>1, <3>2, CompleteFits DEF CanSendData
    <3> HIDE DEF t, s
    <3> QED
      BY <2>2, <3>1, <3>3, QueueMessageOwn DEF Answered
  <2> QED
    BY <2>3, <2>4
<1>3. CASE EndTooLarge
  <2>1. mode' = "request" /\ replies' = [replies EXCEPT !.sent = 1, !.due = 1]
    BY <1>3 DEF EndTooLarge, Answered
  <2>2. replies'.sent = 1 /\ replies'.due = 1
    BY <2>1 DEF Types, RepliesType
  <2> QED
    BY <2>1, <2>2 DEF Answered, OneReplyEach
<1>4. CASE UNCHANGED replies /\ (mode' = "data too large" => mode = "data too large" \/ Oversize)
  BY <1>4 DEF Answered, OneReplyEach
<1>5. ASSUME NEW asked \in SUBSET Params, NEW stage \in MailStages, MailFrom(asked, stage) PROVE Answered'
  BY <1>4, <1>5 DEF MailFrom
<1>6. ASSUME NEW a \in Address, NEW ok \in BOOLEAN, RcptTo(a, ok) PROVE Answered'
  BY <1>4, <1>6 DEF RcptTo
<1>7. ASSUME NEW result \in {"ok", "wrong", "more", "banned", "temporary"}, Sasl(result) PROVE Answered'
  BY <1>4, <1>7 DEF Sasl
<1>8. ASSUME NEW ok \in BOOLEAN, Ehlo(ok) PROVE Answered'
  BY <1>4, <1>8 DEF Ehlo
<1>9. ASSUME NEW last \in BOOLEAN, NEW fits \in BOOLEAN, Bdat(last, fits) PROVE Answered'
  BY <1>4, <1>9 DEF Bdat
<1>10. CASE Connect \/ Close \/ Expire \/ EhloInvalid \/ StartTls \/ Rset \/ Auth \/ UNCHANGED vars
  BY <1>4, <1>10 DEF Connect, Close, Expire, EhloInvalid, StartTls, Rset, Auth, vars
<1>11. CASE LineTooLong \/ RcptUnknown \/ Data \/ Overflow
  <2>1. UNCHANGED replies
    BY <1>11 DEF LineTooLong, RcptUnknown, Data, Overflow
  <2>2. mode' = "data too large" => mode = "data too large" \/ Oversize
    BY <1>11 DEF LineTooLong, RcptUnknown, Data, Overflow
  <2> QED
    BY <1>4, <2>1, <2>2
<1> QED
  BY <1>1, <1>2, <1>3, <1>5, <1>6, <1>7, <1>8, <1>9, <1>10, <1>11 DEF Next

-------------------------------------------------------------------------------
(* Theorems. *)

\* Whatever a client sends, in whatever order, every 250 for content stands for a message
\* that is queued or that a filter asked to drop, and no more are queued than the session
\* may send (queue_message, can_send_data), if no MTA hook quarantines: the code answers
\* 250 for such a message and does not queue it.
THEOREM AnswersAreTrue ==
  ASSUME "quarantine" \notin Verdicts
  PROVE  Spec => [](AcceptedIsQueued /\ MessageLimit)
<1>1. Init => Types /\ Counted
  BY InitHolds
<1>2. Types /\ Counted /\ [Next]_vars => (Types /\ Counted)'
  BY CountedStep
<1>3. Types /\ Counted => AcceptedIsQueued /\ MessageLimit
  BY SessionAssumption DEF Types, Counted, MessageLimit, CountType
<1> QED
  BY <1>1, <1>2, <1>3, PTL DEF Spec

\* Whatever a client sends, and however it goes on after a refusal, a message has the recipients
\* accepted since the last reset and no others, no parameter asked for before it and no content
\* sent before it; if nothing was refused since, it has all that was asked for and sent, and
\* queue_message finds its sender (reset, handle_mail_from, handle_ehlo, ingest).
THEOREM TransactionsDoNotMix == Spec => []OwnTransaction
<1> DEFINE IInv == Types /\ Counted /\ InStep /\ OwnTransaction
<1>1. Init => IInv
  BY InitHolds
<1>2. IInv /\ [Next]_vars => IInv'
  BY CountedStep, InStepStep
<1>3. IInv => OwnTransaction
  OBVIOUS
<1> QED
  BY <1>1, <1>2, <1>3, PTL DEF Spec

\* For a client that sends RSET after a refusal all replies agree with what happened: also
\* LMTP's, one for each recipient it accepted, where content is never too large for LMTP.
THEOREM RepliesAgreeAlways ==
  ASSUME Tidy, "quarantine" \notin Verdicts, ~(Lmtp /\ Oversize)
  PROVE  Spec => []RepliesAgree
<1> DEFINE IInv == Types /\ Counted /\ InStep /\ OwnTransaction /\ Answered
<1>1. Init => IInv
  BY InitHolds
<1>2. IInv /\ [Next]_vars => IInv'
  BY CountedStep, InStepStep, AnsweredStep
<1>3. IInv => RepliesAgree
  <2> SUFFICES ASSUME IInv PROVE RepliesAgree
    OBVIOUS
  <2>1. Len(queue) \in Nat /\ count.sent \in Nat /\ MaxMessages \in Nat
    BY SessionAssumption DEF Types, CountType
  <2>2. AcceptedIsQueued /\ OneReplyEach /\ Len(queue) <= count.sent /\ count.sent <= MaxMessages
    BY DEF Counted, Answered
  <2> QED
    BY <2>1, <2>2 DEF RepliesAgree, MessageLimit
<1> QED
  BY <1>1, <1>2, <1>3, PTL DEF Spec
================================================================================
