------------------------------ MODULE MCSessions ------------------------------
(***************************************************************************)
(* What clients and messages do to an account, checked together: SMTP and  *)
(* LMTP sessions, an IMAP session, and the scripts of ManageSieve and      *)
(* JMAP and their runs at delivery.  The components share no variables,    *)
(* so it is enough to let one move at a time: part is chosen at the start. *)
(***************************************************************************)
EXTENDS SmtpSession

VARIABLES
    part,   \* the instance that moves
    \* ImapMailbox
    box, dest, flags, born, given, cids, log, oth, open, st, next, dels, cache, saved, jobs,
    fails, view, known,
    \* SieveScripts
    scripts, links, used, unlogged, req,
    \* SieveDelivery
    now, faults, status, stored, sent, seen, runs, job

\* Scripts: redirect; answer once; keep one of each id; discard; keep and file an edited copy.
Run(test, first, again) == [test |-> test, last |-> FALSE, on |-> [b \in BOOLEAN |-> IF b THEN again ELSE first]]
Keep == [event |-> "keep", part |-> 1]
Redirect == Run(FALSE, <<[event |-> "send"], Keep>>, <<[event |-> "send"], Keep>>)
Vacation == Run(TRUE, <<[event |-> "send"], Keep>>, <<Keep>>)
Once     == Run(TRUE, <<Keep>>, <<[event |-> "discard"]>>)
Drop     == Run(FALSE, <<[event |-> "discard"]>>, <<[event |-> "discard"]>>)
Copy     == [event |-> "fileinto", part |-> 2, box |-> "copies"]
Edit     == Run(FALSE, <<Keep, [event |-> "created"], Copy>>, <<Keep>>)
Mails == {"m1", "m2", "m3"}

Smtp == INSTANCE SmtpSession WITH
    Lmtp <- FALSE, MaxMessages <- 1, Oversize <- TRUE, Verdicts <- AllVerdicts \ {"quarantine"}

\* The client goes on after a refusal.
Untidy == INSTANCE SmtpSession WITH
    Lmtp <- FALSE, Tidy <- FALSE, Oversize <- TRUE, AuthErrorsMax <- 1, RcptErrorsMax <- 1,
    Address <- {"a", "b"}, Local <- {"a", "b"}, List <- {}, Members <- {},
    TransferLimit <- 8, Verdicts <- {"queue", "reject"}

Mailbox == INSTANCE ImapMailbox WITH
    N <- 3, Initial <- {2, 3}, Others <- {"o1"},
    OtherOps <- {"deliver", "flag", "move", "destroy"},
    Commands <- {"noop", "fetch", "body", "store", "expunge", "copy", "move"}, MaxChange <- 2,
    MaxFails <- 0, MaxRetries <- 0, QResync <- FALSE, Pipelined <- FALSE, Apart <- "no"

Appending == INSTANCE ImapMailbox WITH
    N <- 3, Initial <- {2, 3}, Others <- {"o1"}, OtherOps <- {"deliver", "destroy", "flag"},
    Commands <- {"noop", "store", "append", "select", "close"}, MaxChange <- 2, MaxFails <- 0,
    MaxRetries <- 1, QResync <- FALSE, Pipelined <- FALSE, Apart <- "no"

Saving == INSTANCE ImapMailbox WITH
    N <- 3, Initial <- {2, 3}, Others <- {"o1"}, OtherOps <- {"deliver", "move"},
    Commands <- {"noop", "store", "search", "expunge"}, MaxChange <- 2, MaxFails <- 1,
    MaxRetries <- 1, QResync <- FALSE, Pipelined <- FALSE, Apart <- "no"

Scripts == INSTANCE SieveScripts WITH
    Workers <- {"w1"}, Names <- {"a", "b"}, Size <- [x |-> 1, y |-> 2], MaxId <- 3,
    MaxScripts <- 3,
    Ops <- {"create", "update", "destroy", "activate", "put", "replace", "rename", "vacation", "run"},
    Serial <- FALSE, MayCrash <- FALSE

\* One request names or activates at a time, beside one that updates or deletes.
Beside == INSTANCE SieveScripts WITH
    Workers <- {"w1", "w2"}, Names <- {"a", "b"}, Size <- [x |-> 1], MaxId <- 2, MaxScripts <- 2,
    Ops <- {"create", "update", "destroy", "activate", "put", "rename"},
    Serial <- TRUE, MayCrash <- FALSE

Requests == INSTANCE SieveScripts WITH
    Workers <- {"w1", "w2"}, Names <- {"a", "b"}, Size <- [x |-> 1], MaxId <- 1, MaxScripts <- 3,
    Ops <- {"create", "update", "destroy", "activate", "put", "replace", "rename", "vacation", "run"},
    Serial <- FALSE, MayCrash <- TRUE

Answers == INSTANCE SieveDelivery WITH
    Workers <- {"w1"}, Messages <- Mails, Rcpts <- [m \in Mails |-> <<"y", "x">>],
    AccountOf <- [x |-> "X", y |-> "Y"], IdOf <- [m \in Mails |-> "id"],
    ScriptOf <- [X |-> Vacation, Y |-> Redirect], Expiry <- 2, MaxTime <- 4, MaxFaults <- 1,
    ParseFails <- FALSE

Discards == INSTANCE SieveDelivery WITH
    Workers <- {"w1"}, Messages <- Mails, Rcpts <- [m \in Mails |-> <<"y", "x">>],
    AccountOf <- [x |-> "X", y |-> "Y"], IdOf <- [m \in Mails |-> "id"],
    ScriptOf <- [X |-> Once, Y |-> Drop], Expiry <- 2, MaxTime <- 4, MaxFaults <- 1,
    ParseFails <- FALSE

\* Two deliveries at once; one account has two addresses, and its script files an edited copy.
Filing == INSTANCE SieveDelivery WITH
    Workers <- {"w1", "w2"}, Messages <- {"m1", "m2"}, Rcpts <- [m \in {"m1", "m2"} |-> <<"x", "y", "z", "none">>],
    AccountOf <- [x |-> "X", y |-> "Y", z |-> "X", none |-> "none"], IdOf <- [m \in {"m1", "m2"} |-> m],
    ScriptOf <- [X |-> Edit, Y |-> Redirect], Expiry <- 1, MaxTime <- 0, MaxFaults <- 2,
    ParseFails <- FALSE

ASSUME SumFit ==
    /\ Mailbox!MailboxAssumption /\ Appending!MailboxAssumption /\ Saving!MailboxAssumption
    /\ Scripts!ConstantsAssumption /\ Beside!ConstantsAssumption /\ Requests!ConstantsAssumption
    /\ Answers!ConstantsAssumption /\ Discards!ConstantsAssumption /\ Filing!ConstantsAssumption

imap == <<box, dest, flags, born, given, cids, log, oth, open, st, next, dels, cache, saved, jobs,
          fails, view, known>>
sieve == <<scripts, links, used, unlogged, req>>
local == <<now, faults, status, stored, sent, seen, runs, job>>
SumVars == <<part, vars, imap, sieve, local>>

SumInit ==
    /\ part \in {"lmtp", "smtp", "untidy", "imap", "append", "saved", "scripts", "beside",
                "requests", "answers", "discards", "filing"}
    /\ CASE part = "smtp" -> Smtp!Init [] part = "untidy" -> Untidy!Init [] OTHER -> Init
    /\ CASE part = "append" -> Appending!Init
         [] part = "saved" -> Saving!Init
         [] OTHER -> Mailbox!Init
    /\ CASE part = "requests" -> Requests!Init [] part = "beside" -> Beside!Init [] OTHER -> Scripts!Init
    /\ CASE part = "discards" -> Discards!Init [] part = "filing" -> Filing!Init [] OTHER -> Answers!Init

\* A step of one instance; nothing else moves.
Session(p, A) == part = p /\ A /\ UNCHANGED <<part, imap, sieve, local>>
Imap(p, A) == part = p /\ A /\ UNCHANGED <<part, vars, sieve, local>>
Sieve(p, A) == part = p /\ A /\ UNCHANGED <<part, vars, imap, local>>
Delivery(p, A) == part = p /\ A /\ UNCHANGED <<part, vars, imap, sieve>>

SumNext ==
    \/ Session("lmtp", Next) \/ Session("smtp", Smtp!Next)
    \/ Session("untidy", Untidy!Next)
    \/ Imap("imap", Mailbox!Next) \/ Imap("append", Appending!Next) \/ Imap("saved", Saving!Next)
    \/ Sieve("scripts", Scripts!Next) \/ Sieve("beside", Beside!Next) \/ Sieve("requests", Requests!Next)
    \/ Delivery("answers", Answers!Next) \/ Delivery("discards", Discards!Next)
    \/ Delivery("filing", Filing!Next)

SumSpec == SumInit /\ [][SumNext]_SumVars

-------------------------------------------------------------------------------
(* Properties. *)

\* Whatever others do to the mailbox, the numbers the session and the client use mean the
\* same messages, and a command works on the messages the client named (write_mailbox_changes,
\* sequence_to_ids): see ImapMailbox.
ImapAgrees ==
    /\ part = "imap" => Mailbox!NumbersAgree /\ Mailbox!ResponsesAgree
    /\ part = "append" => Appending!RightMessage
    /\ part = "saved" => Saving!RightMessage

================================================================================
