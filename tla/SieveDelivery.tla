--------------------------- MODULE SieveDelivery ---------------------------
(***************************************************************************)
(* Delivery of queued messages to local accounts: deliver_local of the     *)
(* queue, deliver_message, the run of an account's active Sieve script and *)
(* the list of ids it has seen.                                            *)
(*                                                                         *)
(* A script is what it makes of the answer to its duplicate test: a        *)
(* function from BOOLEAN to a sequence of events.  The interpreter is      *)
(* external; what is modelled is what the server does with its events.     *)
(* Storing one part of a message is one step, which may fail; the seen ids *)
(* are read before the run and written after the parts are stored.         *)
(***************************************************************************)
EXTENDS Integers, Sequences, FiniteSets, SequencesExt, TLC

CONSTANTS
  Workers,     \* deliveries in progress at one time
  Messages,    \* queued messages
  Rcpts,       \* the local recipients of each message, a sequence of addresses
  AccountOf,   \* the account of each address, or "none"
  IdOf,        \* the id a script tests for duplicates: the sender or message id
  ScriptOf,    \* the active script of each account, or NoScript
  Expiry,      \* how long a seen id is kept
  MaxTime,     \* bound on the clock
  MaxFaults,   \* bound on store and lookup errors
  ParseFails   \* TRUE: a message edited by a script may not parse

NoScript == [test |-> FALSE, last |-> FALSE, on |-> [b \in BOOLEAN |-> <<>>]]

ConstantsAssumption ==
  /\ Expiry \in Nat /\ MaxTime \in Nat /\ MaxFaults \in Nat
  /\ ParseFails \in BOOLEAN

VARIABLES
  now,      \* the clock
  faults,   \* errors met so far
  status,   \* the queue's status of each recipient of each message
  stored,   \* <<account, message, part, mailbox>>: the messages ingested
  sent,     \* <<message, account>> of every autogenerated message queued, a sequence
  seen,     \* account -> id -> expiry
  runs,     \* history: the runs of scripts that ended
  job       \* what each worker is doing

vars == <<now, faults, status, stored, sent, seen, runs, job>>

Accounts == {AccountOf[a] : a \in DOMAIN AccountOf} \ {"none"}
Final    == {"done", "failed"}
Idle     == [stage |-> "idle"]

TypeOK ==
  /\ now \in 0..MaxTime /\ faults \in 0..MaxFaults
  /\ \A m \in Messages : status[m] \in [DOMAIN Rcpts[m] -> {"scheduled", "delayed"} \cup Final]
  /\ \A w \in Workers : job[w].stage \in {"idle", "rcpt", "store", "save"}

Init ==
  /\ now = 0 /\ faults = 0
  /\ status = [m \in Messages |-> [i \in DOMAIN Rcpts[m] |-> "scheduled"]]
  /\ stored = {} /\ sent = <<>> /\ runs = {}
  /\ seen = [a \in Accounts |-> <<>>]
  /\ job = [w \in Workers |-> Idle]

(***************************************************************************)
(* deliver_local and the loop of deliver_message.                          *)
(***************************************************************************)

\* The recipients of the message that are not settled, in their order.
Pending(m) == SelectSeq([i \in DOMAIN Rcpts[m] |-> i], LAMBDA i : status[m][i] \notin Final)

\* The queue's lock keeps two workers from one message.
Start(w) ==
  /\ job[w] = Idle
  /\ \E m \in Messages :
       /\ \A v \in Workers : job[v] # Idle => job[v].msg # m
       /\ Pending(m) # <<>>
       /\ job' = [job EXCEPT ![w] =
            [stage |-> "rcpt", msg |-> m, todo |-> Pending(m), results |-> <<>>,
             uids |-> <<>>, auto |-> <<>>, out |-> <<>>]]
  /\ UNCHANGED <<now, faults, status, stored, sent, seen, runs>>

\* The recipient whose turn it is, and its account.
Turn(w)  == Len(job[w].results) + 1
Acct(w)  == AccountOf[Rcpts[job[w].msg][job[w].todo[Turn(w)]]]
AtRcpt(w) == job[w].stage = "rcpt" /\ Turn(w) <= Len(job[w].todo)

Push(j, result) == [j EXCEPT !.stage = "rcpt", !.results = Append(@, result)]

\* email_to_id knows no account of that address, or fails.
NoAccount(w) ==
  /\ AtRcpt(w) /\ Acct(w) = "none"
  /\ job' = [job EXCEPT ![w] = Push(@, "failed")]
  /\ UNCHANGED <<now, faults, status, stored, sent, seen, runs>>

LookupFails(w) ==
  /\ AtRcpt(w) /\ faults < MaxFaults
  /\ faults' = faults + 1
  /\ job' = [job EXCEPT ![w] = Push(@, "delayed")]
  /\ UNCHANGED <<now, status, stored, sent, seen, runs>>

\* A second address of an account takes the result of the first.
Cached(w) ==
  /\ AtRcpt(w) /\ Acct(w) \in DOMAIN job[w].uids
  /\ job' = [job EXCEPT ![w] = Push(@, job[w].results[job[w].uids[Acct(w)]])]
  /\ UNCHANGED <<now, faults, status, stored, sent, seen, runs>>

(***************************************************************************)
(* The run of the script: its events, handled one after the other.         *)
(***************************************************************************)

\* What the loop over the events collects: the mailboxes each part is filed
\* into, the messages to send, and what became of the message itself.
NoEvents == [parts |-> <<{}>>, sends |-> 0, deliver |-> FALSE, discard |-> FALSE,
             reject |-> FALSE]

Filed(s, p, box) ==
  IF p \in DOMAIN s.parts
  THEN [s EXCEPT !.parts[p] = @ \cup {box}, !.deliver = TRUE]
  ELSE s

Handle(s, e) ==
  CASE e.event = "discard"  -> [s EXCEPT !.discard = TRUE]
    [] e.event = "reject"   -> [s EXCEPT !.discard = TRUE, !.reject = TRUE]
    [] e.event = "keep"     -> Filed(s, e.part, "inbox")
    [] e.event = "fileinto" -> Filed(s, e.part, e.box)
    [] e.event = "send"     -> [s EXCEPT !.sends = @ + 1]
    [] e.event = "created"  -> [s EXCEPT !.parts = Append(@, {})]
    [] e.event = "error"    -> s

\* No discard and no keep seen: file anyway.
FailSafe(s) == IF ~s.deliver /\ ~s.discard THEN [s EXCEPT !.parts[1] = {"inbox"}] ELSE s

Outcome(script, dup) ==
  IF script = NoScript THEN [NoEvents EXCEPT !.parts = <<{"inbox"}>>]
  ELSE FailSafe(FoldLeft(Handle, NoEvents, script.on[dup]))

\* The ids that have not expired when the list is read.
Valid(a) == [i \in {k \in DOMAIN seen[a] : seen[a][k] > now} |-> seen[a][i]]

\* The list as the run leaves it: an id goes in when it was not there, or the
\* script asks for the last one to count; inserting an id that is there keeps
\* the old entry.
IsNew(known, script, id) == script.test /\ (id \notin DOMAIN known \/ script.last)
Extended(known, script, id) ==
  IF IsNew(known, script, id)
  THEN known @@ (id :> (now + Expiry))
  ELSE known

\* sieve_script_get_active, and sieve_script_ingest up to the deliveries.
Run(w) ==
  /\ AtRcpt(w) /\ Acct(w) # "none" /\ Acct(w) \notin DOMAIN job[w].uids
  /\ LET a     == Acct(w)
         s     == ScriptOf[a]
         known == Valid(a)
         dup   == s.test /\ IdOf[job[w].msg] \in DOMAIN known
         o     == Outcome(s, dup)
     IN job' = [job EXCEPT ![w] = [
          stage |-> "store", msg |-> @.msg, todo |-> @.todo, results |-> @.results,
          uids |-> @.uids, out |-> @.out, acct |-> a, at |-> now, dup |-> dup,
          parts |-> o.parts, part |-> 1, reject |-> o.reject,
          delivered |-> FALSE, failed |-> FALSE,
          list |-> Extended(known, s, IdOf[@.msg]),
          changed |-> IsNew(known, s, IdOf[@.msg]) \/ known # seen[a],
          auto |-> @.auto \o [k \in 1..o.sends |-> <<@.msg, a>>]]]
  /\ UNCHANGED <<now, faults, status, stored, sent, seen, runs>>

\* Each part that is filed anywhere is ingested; one that was edited is parsed
\* first and skipped when that fails.
Storing(w) == job[w].stage = "store" /\ job[w].part <= Len(job[w].parts)
Boxes(w)   == job[w].parts[job[w].part]
Skipped(w) == Boxes(w) = {} \/ (job[w].part > 1 /\ ParseFails)

SkipPart(w) ==
  /\ Storing(w) /\ Skipped(w) = TRUE
  /\ job' = [job EXCEPT ![w].part = @ + 1]
  /\ UNCHANGED <<now, faults, status, stored, sent, seen, runs>>

StorePart(w) ==
  /\ Storing(w) /\ Boxes(w) # {}
  /\ stored' = stored \cup {<<job[w].acct, job[w].msg, job[w].part, b>> : b \in Boxes(w)}
  /\ job' = [job EXCEPT ![w].part = @ + 1, ![w].delivered = TRUE]
  /\ UNCHANGED <<now, faults, status, sent, seen, runs>>

\* The store or the quota of the account refuses the part.
PartFails(w) ==
  /\ Storing(w) /\ Boxes(w) # {} /\ faults < MaxFaults
  /\ faults' = faults + 1
  /\ job' = [job EXCEPT ![w].part = @ + 1, ![w].failed = TRUE]
  /\ UNCHANGED <<now, status, stored, sent, seen, runs>>

StoredAll(w) ==
  /\ job[w].stage = "store" /\ job[w].part > Len(job[w].parts)
  /\ job' = [job EXCEPT ![w].stage = "save"]
  /\ UNCHANGED <<now, faults, status, stored, sent, seen, runs>>

\* What the run amounts to: rejected, stored or discarded, or to be retried.
Result(j) ==
  IF j.reject THEN "failed"
  ELSE IF j.delivered \/ ~j.failed THEN "done" ELSE "delayed"

\* The list is written back whole, whatever became of the message, and the
\* result is kept for other addresses of the account.
Save(w) ==
  /\ job[w].stage = "save"
  /\ seen' = IF job[w].changed THEN [seen EXCEPT ![job[w].acct] = job[w].list] ELSE seen
  /\ runs' = runs \cup {[acct |-> job[w].acct, msg |-> job[w].msg, at |-> job[w].at,
                         dup |-> job[w].dup, result |-> Result(job[w])]}
  /\ job' = [job EXCEPT ![w] =
       [stage |-> "rcpt", msg |-> @.msg, todo |-> @.todo,
        results |-> Append(@.results, Result(@)),
        uids |-> @.uids @@ (@.acct :> Turn(w)),
        auto |-> @.auto, out |-> @.out @@ (@.acct :> Result(@))]]
  /\ UNCHANGED <<now, faults, status, stored, sent>>

\* deliver_local takes over the results and queues the autogenerated messages.
Finish(w) ==
  /\ job[w].stage = "rcpt" /\ Turn(w) > Len(job[w].todo)
  /\ status' = [status EXCEPT ![job[w].msg] =
       [i \in DOMAIN @ |-> IF \E k \in DOMAIN job[w].todo : job[w].todo[k] = i
                           THEN job[w].results[CHOOSE k \in DOMAIN job[w].todo :
                                                 job[w].todo[k] = i]
                           ELSE @[i]]]
  /\ sent' = sent \o job[w].auto
  /\ job' = [job EXCEPT ![w] = Idle]
  /\ UNCHANGED <<now, faults, stored, seen, runs>>

Tick ==
  /\ now < MaxTime /\ now' = now + 1
  /\ UNCHANGED <<faults, status, stored, sent, seen, runs, job>>

Step(w) ==
  \/ Start(w) \/ NoAccount(w) \/ Cached(w) \/ Run(w)
  \/ SkipPart(w) \/ StorePart(w) \/ StoredAll(w) \/ Save(w) \/ Finish(w)

Next == Tick \/ \E w \in Workers : Step(w) \/ LookupFails(w) \/ PartFails(w)

Spec == Init /\ [][Next]_vars

\* Workers go on and the queue retries what is delayed.
FairSpec == Spec /\ \A w \in Workers : WF_vars(Step(w))

(***************************************************************************)
(* Properties.                                                             *)
(***************************************************************************)

InAccount(a, m) == \E t \in stored : t[1] = a /\ t[2] = m
Discards(a, dup) == Outcome(ScriptOf[a], dup).discard

\* A run of the account's script for the message ended, and nothing of it could be stored.
StoreFailed(a, m) == \E r \in runs : r.acct = a /\ r.msg = m /\ r.result = "delayed"

\* A message reported as delivered to an address has a part in its account, or the
\* account's script discards all, or it is the duplicate of a message that is
\* there; an error of the store on the way makes it vanish in one case only:
\* the id is in the list of the first run, and the script that tests for it
\* takes the message of the second for its own duplicate.
NotLost ==
  \A m \in Messages : \A i \in DOMAIN Rcpts[m] :
    LET a == AccountOf[Rcpts[m][i]] IN
    status[m][i] = "done" =>
      \/ InAccount(a, m) \/ Discards(a, FALSE)
      \/ /\ Discards(a, TRUE)
         /\ \/ \E n \in Messages \ {m} : IdOf[n] = IdOf[m] /\ (InAccount(a, n) \/ StoreFailed(a, n))
            \/ StoreFailed(a, m)

\* However often a message is tried, what a script sends for it is sent once
\* for each account, unless the message itself could not be stored there.
SentOnce ==
  \A i, j \in DOMAIN sent : sent[i] = sent[j] /\ i # j => StoreFailed(sent[i][2], sent[i][1])

\* Two messages of one sender are both treated as the first one, and answered,
\* only when the list's entry had expired between them.
AnsweredOnce ==
  \A r, s \in runs :
    ( /\ r.acct = s.acct /\ IdOf[r.msg] = IdOf[s.msg] /\ r.msg # s.msg
      /\ ScriptOf[r.acct].test /\ ~r.dup /\ ~s.dup )
    => r.at - s.at >= Expiry \/ s.at - r.at >= Expiry

\* Every recipient gets the outcome of its own account, whatever recipients
\* before it failed, and an account is delivered to once in an attempt.
OwnOutcome ==
  \A w \in Workers : job[w].stage = "rcpt" =>
    \A k \in DOMAIN job[w].results :
      LET a == AccountOf[Rcpts[job[w].msg][job[w].todo[k]]] IN
      job[w].results[k] = "done" => a \in DOMAIN job[w].out /\ job[w].out[a] = "done"

=============================================================================
