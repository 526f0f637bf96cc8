------------------------------ MODULE SmtpSession ------------------------------
(***************************************************************************)
(* One inbound SMTP or LMTP session: the commands of the client, what the  *)
(* session remembers between them, and the messages it queues.             *)
(*                                                                         *)
(*   crates/smtp/src/inbound/spawn.rs    the connection                    *)
(*   crates/smtp/src/inbound/session.rs  ingest: commands and content      *)
(*   crates/smtp/src/inbound/{ehlo,auth,mail,rcpt,data}.rs  the handlers   *)
(*                                                                         *)
(* Filters (Sieve, milters, MTA hooks), SPF, DNS, the directory and the    *)
(* spam filter decide by a choice; what they decide about is modelled.     *)
(***************************************************************************)
EXTENDS Integers, FiniteSets, Sequences

CONSTANTS
    Address,         \* recipients
    Local,           \* those of local domains; relaying to others needs AUTH
    List,            \* local addresses that are lists
    Members,         \* the members of a list
    Lmtp,            \* is this an LMTP listener?
    EhloRequire, AuthRequire,       \* parameters of the session
    AuthErrorsMax, RcptErrorsMax, RcptMax, MaxMessages,
    TransferLimit,   \* reads the session may do (transfer_limit)
    Verdicts,        \* what may come of a message
    Oversize,        \* may content be too large?
    Tidy             \* does the client send RSET after a refusal?

\* What each stage of queue_message may make of a message, if it does not pass it on.
MailAuthentication == {"reject"}
ReportAnalysis == {"report"}
SpamFilter == {"spam", "spamdrop"}
Milters == {"reject", "discard", "disconnect"}
MtaHooks == {"reject", "discard", "quarantine"}
SieveScript == {"reject", "discard"}
Queueing == {"queue", "full", "fail"}

AllVerdicts ==
    UNION {MailAuthentication, ReportAnalysis, SpamFilter, Milters, MtaHooks, SieveScript, Queueing}

ASSUME SessionAssumption ==
    /\ Local \subseteq Address /\ List \subseteq Local /\ Members \subseteq Address
    /\ {Lmtp, EhloRequire, AuthRequire, Oversize, Tidy} \subseteq BOOLEAN
    /\ {AuthErrorsMax, RcptErrorsMax, RcptMax, MaxMessages, TransferLimit} \subseteq Nat
    /\ Verdicts \subseteq AllVerdicts

VARIABLES
    conn,     \* "new", "open", "closed", or "panic"
    mode,     \* what the next bytes are: the State of the session
    peer,     \* what is known of the client: EHLO said, TLS, authenticated
    trans,    \* the transaction: sender, recipients, chunks, parameters
    count,    \* errors, replies and messages so far
    left,     \* bytes_left
    late,     \* past valid_until?
    queue,    \* messages queued
    said,     \* what the client said since the last reset, for the properties
    replies   \* content of messages answered with 250, and what came of it

vars == <<conn, mode, peer, trans, count, left, late, queue, said, replies>>

Params == {"by", "priority", "hold"}

\* The transaction: `from' tells whether it has a sender.
NoTrans == [from |-> FALSE, rcpts |-> {}, chunks |-> 0, params |-> {}, oks |-> 0]
NoSaid == [asked |-> {}, rcpts |-> {}, oks |-> 0, chunks |-> 0, refused |-> FALSE]

Message == [rcpts: SUBSET Address, params: SUBSET Params, chunks: 0..TransferLimit, said: [
              asked: SUBSET Params, rcpts: SUBSET Address, oks: 0..TransferLimit,
              chunks: 0..TransferLimit, refused: BOOLEAN]]

\* Types.
TypeOK ==
    /\ conn \in {"new", "open", "closed", "panic"}
    /\ mode \in {"request", "data", "bdat", "bdat last", "sasl", "data too large", "chunk too large", "line too long"}
    /\ peer \in [ehlo: BOOLEAN, tls: BOOLEAN, auth: BOOLEAN]
    /\ trans \in [from: BOOLEAN, rcpts: SUBSET Address, chunks: 0..TransferLimit,
                  params: SUBSET Params, oks: 0..TransferLimit]
    /\ count \in [auth: 0..AuthErrorsMax, rcpt: 0..RcptErrorsMax, sent: 0..TransferLimit]
    /\ left \in 0..TransferLimit /\ late \in BOOLEAN
    /\ \A i \in DOMAIN queue : queue[i] \in Message
    /\ replies \in [taken: 0..TransferLimit, dropped: 0..TransferLimit, sent: 0..TransferLimit, due: 0..TransferLimit]

Init ==
    /\ conn = "new" /\ mode = "request" /\ left = TransferLimit /\ late = FALSE
    /\ peer = [ehlo |-> FALSE, tls |-> FALSE, auth |-> FALSE]
    /\ trans = NoTrans /\ count = [auth |-> 0, rcpt |-> 0, sent |-> 0]
    /\ queue = <<>> /\ said = NoSaid
    /\ replies = [taken |-> 0, dropped |-> 0, sent |-> 0, due |-> 0]

-------------------------------------------------------------------------------
(* The connection: spawn.rs. *)

\* Rate limit, filters and the greeting.
Connect ==
    /\ conn = "new" /\ conn' \in {"open", "closed"}
    /\ UNCHANGED <<mode, peer, trans, count, left, late, queue, said, replies>>

\* A read that the session still takes; a client that is tidy resets what was refused.
Reads(m) == conn = "open" /\ mode = m /\ left > 0 /\ ~late /\ left' = left - 1
Command == Reads("request") /\ ~(Tidy /\ said.refused)

\* Quota of bytes, time limit, idle timeout, shutdown, QUIT, or the client goes.
Close ==
    /\ conn = "open" /\ conn' = "closed"
    /\ UNCHANGED <<mode, peer, trans, count, left, late, queue, said, replies>>

Expire ==
    /\ conn = "open" /\ ~late /\ late' = TRUE
    /\ UNCHANGED <<conn, mode, peer, trans, count, left, queue, said, replies>>

Refuse == said' = [said EXCEPT !.refused = TRUE]

-------------------------------------------------------------------------------
(* Commands: ingest and the handlers. *)

\* Mutant: the parameters stay.
ResetMost == trans' = [trans EXCEPT !.from = FALSE, !.rcpts = {}, !.chunks = 0, !.oks = 0] /\ said' = NoSaid

\* Mutant: the replies due stay.
ResetButOks == trans' = [NoTrans EXCEPT !.oks = trans.oks] /\ said' = NoSaid

\* reset()
Reset == trans' = NoTrans /\ said' = NoSaid

\* EHLO, HELO or LHLO: one that is refused forgets the sender; one that is accepted
\* resets a transaction that has a sender.
Ehlo(ok) ==
    /\ Command
    /\ peer' = [peer EXCEPT !.ehlo = @ \/ ok]
    /\ IF ~ok THEN trans' = [trans EXCEPT !.from = FALSE] /\ Refuse
       ELSE IF trans.from THEN Reset ELSE UNCHANGED <<trans, said>>
    /\ UNCHANGED <<conn, mode, count, late, queue, replies>>

\* The EHLO domain is not a name: nothing happens.
EhloInvalid ==
    /\ Command /\ Refuse
    /\ UNCHANGED <<conn, mode, peer, trans, count, late, queue, replies>>

StartTls ==
    /\ Command /\ ~peer.tls /\ peer' = [peer EXCEPT !.tls = TRUE]
    /\ UNCHANGED <<conn, mode, trans, count, late, queue, said, replies>>

Rset ==
    /\ Reads("request") /\ Reset
    /\ UNCHANGED <<conn, mode, peer, count, late, queue, replies>>

\* AUTH; the credentials may take more lines.
Auth ==
    /\ Command /\ ~peer.auth /\ mode' = "sasl"
    /\ UNCHANGED <<conn, peer, trans, count, late, queue, said, replies>>

\* auth_error: the connection ends with the last error.
AuthError ==
    /\ count' = [count EXCEPT !.auth = @ + 1]
    /\ conn' = IF count'.auth < AuthErrorsMax THEN conn ELSE "closed"
    /\ UNCHANGED peer

\* handle_sasl_response and authenticate.
Sasl(result) ==
    /\ Reads("sasl")
    /\ mode' = IF result = "more" THEN "sasl" ELSE "request"
    /\ CASE result = "ok" -> peer' = [peer EXCEPT !.auth = TRUE] /\ UNCHANGED <<conn, count>>
         [] result = "wrong" -> AuthError
         [] result = "banned" -> conn' = "closed" /\ UNCHANGED <<peer, count>>
         [] OTHER -> UNCHANGED <<conn, peer, count>>
    /\ UNCHANGED <<trans, late, queue, said, replies>>

\* MAIL is out of order, or not for everybody.
MailRefused == (EhloRequire /\ ~peer.ehlo) \/ trans.from \/ (AuthRequire /\ ~peer.auth)

\* Where MAIL can fail: before the parameters (reverse DNS, sender not allowed,
\* filters, sender not the user's), at one of them, or after them (DSN, rate, SPF).
MailStages == {"before", "at", "after", "never"}

\* The parameters are stored one by one as they are checked.
StoredParams(asked, stage) ==
    CASE stage = "before" -> {{}} [] stage = "at" -> SUBSET asked [] OTHER -> {asked}

\* MAIL: what fails takes back the sender, and leaves the parameters.
MailFrom(asked, stage) ==
    /\ Command
    /\ IF MailRefused
       THEN Refuse /\ UNCHANGED trans
       ELSE /\ \E new \in StoredParams(asked, stage) :
                 trans' = [trans EXCEPT !.params = @ \cup new, !.from = (stage = "never")]
            /\ said' = IF stage = "never" THEN [said EXCEPT !.asked = @ \cup asked, !.oks = 0]
                       ELSE [said EXCEPT !.asked = @ \cup asked, !.refused = TRUE]
    /\ UNCHANGED <<conn, mode, peer, count, late, queue, replies>>

\* rcpt_error: the connection ends with the last error.
RcptError ==
    /\ count' = [count EXCEPT !.rcpt = @ + 1]
    /\ conn' = IF count'.rcpt < RcptErrorsMax THEN conn ELSE "closed"
    /\ UNCHANGED <<trans, said>>

\* RCPT without a sender, or one too many.
RcptRefused == ~trans.from \/ Cardinality(trans.rcpts) >= RcptMax

\* Only an authenticated client may send to other domains.
RelayNotAllowed(a) == a \notin Local /\ ~peer.auth

\* A list is replaced by its members.
Expanded(a) == IF a \in List THEN Members \ {a} ELSE {a}

\* RCPT; a filter, the directory, the rate limit or the grey list may refuse it
\* (ok = FALSE); a duplicate is accepted, and counts.
RcptTo(a, ok) ==
    /\ Command
    /\ \/ /\ \/ RcptRefused
             \/ ~ok /\ a \notin trans.rcpts /\ ~RelayNotAllowed(a)
          /\ UNCHANGED <<conn, trans, count, said>>
       \/ /\ ~RcptRefused /\ a \in trans.rcpts
          /\ trans' = [trans EXCEPT !.oks = @ + 1] /\ said' = [said EXCEPT !.oks = @ + 1]
          /\ UNCHANGED <<conn, count>>
       \/ ~RcptRefused /\ a \notin trans.rcpts /\ RelayNotAllowed(a) /\ RcptError
       \/ /\ ~RcptRefused /\ a \notin trans.rcpts /\ ~RelayNotAllowed(a) /\ ok
          /\ trans' = [trans EXCEPT !.rcpts = @ \cup Expanded(a), !.oks = @ + 1]
          /\ said' = [said EXCEPT !.rcpts = @ \cup Expanded(a), !.oks = @ + 1]
          /\ UNCHANGED <<conn, count>>
    /\ UNCHANGED <<mode, peer, late, queue, replies>>

\* A local address that is nobody's mailbox.
RcptUnknown ==
    /\ Command /\ ~RcptRefused /\ RcptError
    /\ UNCHANGED <<mode, peer, late, queue, replies>>

\* can_send_data
CanSendData == trans.rcpts # {} /\ count.sent < MaxMessages

\* DATA
Data ==
    /\ Command
    /\ IF CanSendData
       THEN /\ mode' = "data" /\ trans' = [trans EXCEPT !.chunks = 0]
            /\ said' = [said EXCEPT !.chunks = 0]
       ELSE Refuse /\ UNCHANGED <<mode, trans>>
    /\ UNCHANGED <<conn, peer, count, late, queue, replies>>

\* BDAT with a chunk that fits or not.
Bdat(last, fits) ==
    /\ Command /\ (Oversize \/ fits)
    /\ mode' = IF ~fits THEN "chunk too large" ELSE IF last THEN "bdat last" ELSE "bdat"
    /\ UNCHANGED <<conn, peer, trans, count, late, queue, said, replies>>

\* A line that is too long, and the end of it.
LineTooLong ==
    /\ \/ Command /\ mode' = "line too long"
       \/ Reads("line too long") /\ mode' = "request"
    /\ UNCHANGED <<conn, peer, trans, count, late, queue, said, replies>>

-------------------------------------------------------------------------------
(* The content of a message: ingest and queue_message. *)

\* The verdicts that are answered with 250.
Answer(v) == v \in {"queue", "spamdrop", "report", "discard", "quarantine"}

\* queue_message takes the sender for granted; what it queues has all recipients.
Queued(t, s) == [rcpts |-> t.rcpts, params |-> t.params, chunks |-> t.chunks, said |-> s]

\* The content is complete: it is queued, refused or dropped, and answered once or,
\* in LMTP, for each recipient that was accepted.
QueueMessage(t, s, v) ==
    /\ IF ~t.from
       THEN conn' = "panic" /\ UNCHANGED <<trans, said, count, queue, replies>>
       ELSE /\ conn' = IF v = "disconnect" THEN "closed" ELSE conn
            /\ queue' = IF v = "queue" THEN Append(queue, Queued(t, s)) ELSE queue
            /\ count' = IF v \in {"queue", "spam", "spamdrop", "report"} THEN [count EXCEPT !.sent = @ + 1] ELSE count
            /\ replies' = [replies EXCEPT !.taken = IF Answer(v) THEN @ + 1 ELSE @,
                                          !.dropped = IF v \in {"spamdrop", "report", "discard"} THEN @ + 1 ELSE @,
                                          !.sent = IF v = "disconnect" THEN @ ELSE IF Lmtp THEN t.oks ELSE 1,
                                          !.due = IF v = "disconnect" THEN @ ELSE IF Lmtp THEN s.oks ELSE 1]
            /\ Reset
    /\ UNCHANGED <<peer, late>>

\* The end of the content that DATA announced.
EndOfData(v) ==
    /\ Reads("data") /\ mode' = "request"
    /\ QueueMessage([trans EXCEPT !.chunks = 1], [said EXCEPT !.chunks = 1], v)

\* The chunk is complete.
EndOfChunk(v) ==
    /\ mode \in {"bdat", "bdat last"} /\ Reads(mode) /\ mode' = "request"
    /\ IF ~CanSendData
       THEN /\ trans' = [trans EXCEPT !.chunks = 0] /\ Refuse
            /\ UNCHANGED <<conn, peer, count, late, queue, replies>>
       ELSE LET t == [trans EXCEPT !.chunks = @ + 1]
                s == [said EXCEPT !.chunks = @ + 1]
            IN IF mode = "bdat"
               THEN trans' = t /\ said' = s /\ UNCHANGED <<conn, peer, count, late, queue, replies>>
               ELSE QueueMessage(t, s, v)

\* The content grows past the limit: the rest is read and dropped.
Overflow ==
    /\ Oversize /\ Reads("data") /\ mode' = "data too large"
    /\ UNCHANGED <<conn, peer, trans, count, late, queue, said, replies>>

\* The end of what was too large: one reply, and the transaction stays.
EndTooLarge ==
    /\ mode \in {"data too large", "chunk too large"} /\ Reads(mode) /\ mode' = "request"
    /\ trans' = [trans EXCEPT !.chunks = 0]
    /\ said' = [said EXCEPT !.refused = TRUE]
    /\ replies' = [replies EXCEPT !.sent = 1, !.due = IF Lmtp /\ mode = "data too large" THEN said.oks ELSE 1]
    /\ UNCHANGED <<conn, peer, count, late, queue>>

Next ==
    \/ Connect \/ Close \/ Expire
    \/ \E ok \in BOOLEAN : Ehlo(ok)
    \/ EhloInvalid \/ StartTls \/ Rset \/ Auth \/ LineTooLong
    \/ \E result \in {"ok", "wrong", "more", "banned", "temporary"} : Sasl(result)
    \/ \E asked \in SUBSET Params, stage \in MailStages : MailFrom(asked, stage)
    \/ \E a \in Address, ok \in BOOLEAN : RcptTo(a, ok)
    \/ RcptUnknown \/ Data \/ Overflow \/ EndTooLarge
    \/ \E last, fits \in BOOLEAN : Bdat(last, fits)
    \/ \E v \in Verdicts : EndOfData(v) \/ EndOfChunk(v)

\* Every wait for the client ends, with bytes or with the idle timeout.
Spec == Init /\ [][Next]_vars /\ WF_vars(Next)

-------------------------------------------------------------------------------
(* Properties. *)

\* A message is queued for the recipients the session has accepted since the last reset, for
\* all of them and for none from before it (reset, handle_ehlo, handle_rcpt_to).
OwnRecipients == \A i \in DOMAIN queue : queue[i].rcpts = queue[i].said.rcpts

\* Delivery time, priority and release of a message are those the client asked for since the
\* last reset: all of them, unless something was refused in between, and never one from before
\* the reset (handle_mail_from stores each before it has accepted the command).
OwnParams ==
    \A i \in DOMAIN queue :
        /\ queue[i].params \subseteq queue[i].said.asked
        /\ ~queue[i].said.refused => queue[i].params = queue[i].said.asked

\* The content that is queued is all the client sent since the last reset, from the first chunk
\* to the last, unless something was refused, and never more (State::Bdat in ingest).
WholeContent ==
    \A i \in DOMAIN queue :
        /\ queue[i].chunks <= queue[i].said.chunks
        /\ ~queue[i].said.refused => queue[i].chunks = queue[i].said.chunks

\* queue_message finds a transaction without a sender, and panics, only after a refusal.
SenderKnown == conn = "panic" => said.refused

\* Every 250 for a message's content means that it is in the queue, or that a filter
\* asked to drop it.
AcceptedIsQueued == replies.taken = Len(queue) + replies.dropped

\* In LMTP there is one reply for each recipient that was accepted.
OneReplyEach == replies.sent = replies.due

\* A session queues no more messages than it may.
MessageLimit == Len(queue) <= MaxMessages

\* What a session queues is what the client said since the last reset.  For every client, also
\* one that goes on after a refusal: nothing from before the reset is in the message, neither
\* recipient nor parameter nor content.  Where nothing was refused since, the message has
\* exactly the parameters asked for and the whole content, and its sender is known
\* (reset, handle_mail_from, handle_ehlo, State::Bdat in ingest).
OwnTransaction == OwnRecipients /\ OwnParams /\ WholeContent /\ SenderKnown

\* The replies to content are true: 250 for what is queued or was to be dropped, one for each
\* recipient in LMTP, and no more messages than the session may send (queue_message).
RepliesAgree == AcceptedIsQueued /\ OneReplyEach /\ MessageLimit

================================================================================
