------------------------------ MODULE EmailTasks ------------------------------
(***************************************************************************)
(* Background work on the messages of an account: every node takes tasks   *)
(* (full-text indexing, training of the spam filter) from a queue in the   *)
(* data store and does them under a lock; a purge removes the messages     *)
(* that were deleted, with their full-text terms.  A document id is given  *)
(* to another message once the purge has freed it.                         *)
(*                                                                         *)
(*   crates/jmap/src/services/index.rs   the task loop, reindex            *)
(*   crates/jmap/src/email/delete.rs     tombstones and the purge          *)
(*   crates/store/src/fts/index.rs       fts_index, fts_remove             *)
(*   crates/email/src/ingest.rs          the batch that stores a message   *)
(*                                                                         *)
(* A message is its contents' hash; the terms of a document are the set of *)
(* the contents that were indexed under its id.                            *)
(***************************************************************************)
EXTENDS Integers, FiniteSets, SequencesExt

CONSTANTS
    Node,               \* nodes of the cluster
    Doc,                \* document ids
    Hash,               \* contents
    NoEmail,            \* a document id that is free
    IndexExpiry,        \* FTS_LOCK_EXPIRY
    TrainExpiry,        \* BAYES_LOCK_EXPIRY
    PurgeExpiry,        \* seconds purge_account locks the account for
    MaxSeq,             \* bound: tasks ever queued
    MaxTime,            \* bound: the clock stops there
    Horizon,            \* later times are all the same
    Faults,             \* what may fail: "scan", "lock", "read", "index", "clear", "purge", "crash"
    MaxFaults,          \* bound: failures
    PurgeMeetsIndexer,  \* may a document be indexed while it is purged?
    LocksOutlasted      \* may a round of tasks or a purge outlast its locks?

ASSUME TaskAssumption ==
    /\ IsFiniteSet(Doc)
    /\ IndexExpiry \in Nat \ {0} /\ TrainExpiry \in Nat \ {0} /\ PurgeExpiry \in Nat \ {0}
    /\ MaxSeq \in Nat /\ MaxTime \in Nat /\ Horizon \in Nat /\ MaxFaults \in Nat
    /\ NoEmail \notin [hash: Hash, tomb: BOOLEAN]
    /\ {PurgeMeetsIndexer, LocksOutlasted} \subseteq BOOLEAN

VARIABLES
    now,      \* seconds
    email,    \* document id -> message, with its tombstone, or NoEmail
    terms,    \* document id -> contents indexed under it
    tasks,    \* the TaskQueue keys
    seq,      \* snowflake ids drawn
    locks,    \* lock key -> time it expires
    plock,    \* the same for KV_LOCK_PURGE_ACCOUNT
    permit,   \* node -> index_tx has been notified
    loop,     \* node -> its task loop
    purge,    \* node -> its purge of the account
    reindex,  \* what a reindex request has found and not written
    trained,  \* history: task -> times it trained the filter, up to 2
    faults    \* history: failures

Symmetry == Permutations(Node) \cup Permutations(Hash) \cup Permutations(Doc)

vars == <<now, email, terms, tasks, seq, locks, plock, permit, loop, purge, reindex, trained, faults>>

Task == [seq: 1..MaxSeq, doc: Doc, hash: Hash, action: {"index", "train"}]

\* lock_key: of the task for indexing, of the document for training.
LockKey(t) == IF t.action = "index" THEN <<"index", t.seq>> ELSE <<"train", t.doc>>

LockKeys == ({"index"} \X (1..MaxSeq)) \cup ({"train"} \X Doc)

LockExpiry(t) == IF t.action = "index" THEN IndexExpiry ELSE TrainExpiry

At(t) == IF t < Horizon THEN t ELSE Horizon

\* `skip' is locked_seq_ids, 0 where there is none.
IdleLoop == [pc |-> "wait", entries |-> <<>>, unlock |-> {}, skip |-> [s \in 1..MaxSeq |-> 0]]

IdlePurge == [pc |-> "idle", ids |-> {}]

Live(d) == email[d] # NoEmail /\ ~email[d].tomb

\* Types; a sequence number belongs to one task, whose lock it names.
TypeOK ==
    /\ now \in 0..MaxTime /\ seq \in 0..MaxSeq /\ faults \in 0..MaxFaults
    /\ email \in [Doc -> [hash: Hash, tomb: BOOLEAN] \cup {NoEmail}]
    /\ terms \in [Doc -> SUBSET Hash] /\ tasks \subseteq Task
    /\ \A t, u \in tasks : t.seq = u.seq => t = u
    /\ locks \in [LockKeys -> 0..Horizon] /\ plock \in 0..Horizon
    /\ permit \in [Node -> BOOLEAN]
    /\ loop \in [Node -> [pc: {"wait", "lock", "read", "apply", "clear"}, entries: Seq(Task),
                          unlock: SUBSET LockKeys, skip: [1..MaxSeq -> 0..Horizon]]]
    /\ purge \in [Node -> [pc: {"idle", "terms", "delete", "end"}, ids: SUBSET Doc]]
    /\ reindex \subseteq Doc \X Hash /\ trained \in [1..MaxSeq -> 0..2]

\* The task loop runs once before it waits for the first time.
Init ==
    /\ now = 0 /\ email = [d \in Doc |-> NoEmail] /\ terms = [d \in Doc |-> {}]
    /\ tasks = {} /\ seq = 0 /\ locks = [k \in LockKeys |-> 0] /\ plock = 0
    /\ permit = [n \in Node |-> TRUE] /\ loop = [n \in Node |-> IdleLoop]
    /\ purge = [n \in Node |-> IdlePurge] /\ reindex = {} /\ faults = 0
    /\ trained = [s \in 1..MaxSeq |-> 0]

store == <<email, terms, tasks, seq>>
clocks == <<now, locks, plock>>

\* A failure of the given kind.
Fault(kind) == kind \in Faults /\ faults < MaxFaults /\ faults' = faults + 1

\* notify_task_queue on node n.
Notify(n) == permit' = [permit EXCEPT ![n] = TRUE]

-------------------------------------------------------------------------------
(* Requests, on some node: messages come, are deleted, marked as spam. *)

\* The batch of email_ingest: a free document id, the message and its tasks.
Ingest(n, d, h, train) ==
    LET new(k, a) == [seq |-> seq + k, doc |-> d, hash |-> h, action |-> a]
    IN /\ email[d] = NoEmail
       /\ seq' = seq + (IF train THEN 2 ELSE 1) /\ seq' <= MaxSeq
       /\ email' = [email EXCEPT ![d] = [hash |-> h, tomb |-> FALSE]]
       /\ tasks' = tasks \cup {new(1, "index")} \cup (IF train THEN {new(2, "train")} ELSE {})
       /\ Notify(n)
       /\ UNCHANGED <<terms, clocks, loop, purge, reindex, trained, faults>>

\* A message is moved to or from the junk folder, or flagged.
Train(n, d) ==
    /\ Live(d) /\ seq < MaxSeq /\ seq' = seq + 1
    /\ tasks' = tasks \cup {[seq |-> seq', doc |-> d, hash |-> email[d].hash, action |-> "train"]}
    /\ Notify(n)
    /\ UNCHANGED <<email, terms, clocks, loop, purge, reindex, trained, faults>>

\* emails_tombstone: the message leaves its mailboxes; the rest waits for the purge.
Tombstone(d) ==
    /\ Live(d)
    /\ email' = [email EXCEPT ![d].tomb = TRUE]
    /\ UNCHANGED <<terms, tasks, seq, clocks, permit, loop, purge, reindex, trained, faults>>

\* reindex: the links of all messages are collected ...
CollectLinks ==
    /\ reindex = {} /\ \E d \in Doc : email[d] # NoEmail
    /\ reindex' = {<<d, email[d].hash>> : d \in {x \in Doc : email[x] # NoEmail}}
    /\ UNCHANGED <<store, clocks, permit, loop, purge, trained, faults>>

\* ... and a task queued for each.
QueueIndexing(n) ==
    /\ reindex # {} /\ seq + Cardinality(reindex) <= MaxSeq
    /\ seq' = seq + Cardinality(reindex)
    /\ \E order \in SetToSeqs(reindex) :
         tasks' = tasks \cup {[seq |-> seq + i, doc |-> order[i][1], hash |-> order[i][2],
                               action |-> "index"] : i \in DOMAIN order}
    /\ reindex' = {} /\ Notify(n)
    /\ UNCHANGED <<email, terms, clocks, loop, purge, trained, faults>>

\* Other accounts' messages, and peers that went away (gossip), notify too.
OtherNews(n) ==
    /\ ~permit[n] /\ Notify(n)
    /\ UNCHANGED <<store, clocks, loop, purge, reindex, trained, faults>>

-------------------------------------------------------------------------------
(* The task loop: email_task_queued. *)

Current(n) == Head(loop[n].entries)

\* On to the next entry.
Continue(n) == loop' = [loop EXCEPT ![n].pc = "lock", ![n].entries = Tail(@)]

\* Queued tasks, oldest first, without those found locked a while ago; a scan
\* that fails returns what it has read.
Scan(n) ==
    LET due == {t \in tasks : loop[n].skip[t.seq] = 0 \/ now >= loop[n].skip[t.seq]}
    IN /\ loop[n].pc = "wait" /\ permit[n]
       /\ permit' = [permit EXCEPT ![n] = FALSE]
       /\ \E sorted \in SetToSeqs(due), k \in 0..Cardinality(due) :
            /\ \A i, j \in DOMAIN sorted : i < j => sorted[i].seq < sorted[j].seq
            /\ loop' = [loop EXCEPT ![n].pc = "lock", ![n].entries = SubSeq(sorted, 1, k)]
            /\ IF k = Len(sorted) THEN UNCHANGED faults ELSE Fault("scan")
       /\ UNCHANGED <<store, clocks, purge, reindex, trained>>

\* try_lock_index: a task whose lock is taken, or cannot be had, is left alone
\* until the lock would have expired.
TryLock(n) ==
    /\ loop[n].pc = "lock" /\ loop[n].entries # <<>>
    /\ LET t == Current(n)
           key == LockKey(t)
       IN \/ /\ locks[key] <= now
             /\ locks' = [locks EXCEPT ![key] = At(now + LockExpiry(t))]
             /\ loop' = [loop EXCEPT ![n].pc = "read",
                                     ![n].unlock = IF t.action = "index" THEN @ \cup {key} ELSE @]
             /\ UNCHANGED faults
          \/ /\ (locks[key] > now /\ UNCHANGED faults) \/ Fault("lock")
             /\ loop' = [loop EXCEPT ![n].entries = Tail(@),
                                     ![n].skip[t.seq] = At(now + LockExpiry(t) + 1)]
             /\ UNCHANGED locks
    /\ UNCHANGED <<store, now, plock, permit, purge, reindex, trained>>

\* Mutant: whatever message has the document id now will do.
ReadAnyContents(n) ==
    /\ loop[n].pc = "read" /\ \A m \in Node : Current(n).doc \notin purge[m].ids
    /\ loop' = [loop EXCEPT ![n].pc = IF email[Current(n).doc] # NoEmail THEN "apply" ELSE "clear"]
    /\ UNCHANGED <<store, clocks, permit, purge, reindex, trained, faults>>

\* The metadata and the contents are fetched; a document that is gone or has
\* other contents ends the task, a failure leaves it for later.
Read(n) ==
    /\ loop[n].pc = "read"
    /\ LET t == Current(n)
           found == email[t.doc] # NoEmail /\ email[t.doc].hash = t.hash
       IN \/ /\ PurgeMeetsIndexer \/ \A m \in Node : t.doc \notin purge[m].ids
             /\ loop' = [loop EXCEPT ![n].pc = IF found THEN "apply" ELSE "clear"]
             /\ UNCHANGED faults
          \/ Fault("read") /\ Continue(n)
    /\ UNCHANGED <<store, clocks, permit, purge, reindex, trained>>

\* fts_index: the words of the message are added under the document's id.
FtsIndex(t) == [terms EXCEPT ![t.doc] = @ \cup {t.hash}]

\* The filter has learnt from task t once more.
Trained(t) == trained' = [trained EXCEPT ![t.seq] = IF @ < 2 THEN @ + 1 ELSE @]

\* email_bayes_train trains the filter, or fts_index adds the terms.  A failure
\* to index leaves the task, and any part of the terms.
Apply(n) ==
    /\ loop[n].pc = "apply"
    /\ LET t == Current(n)
       IN \/ /\ t.action = "train" /\ Trained(t)
             /\ loop' = [loop EXCEPT ![n].pc = "clear"] /\ UNCHANGED <<terms, faults>>
          \/ /\ t.action = "index" /\ terms' = FtsIndex(t)
             /\ loop' = [loop EXCEPT ![n].pc = "clear"] /\ UNCHANGED <<trained, faults>>
          \/ /\ t.action = "index" /\ Fault("index") /\ Continue(n)
             /\ terms' \in {terms, FtsIndex(t)} /\ UNCHANGED trained
    /\ UNCHANGED <<email, tasks, seq, clocks, permit, purge, reindex>>

\* Mutant: the next entry is taken, and this one kept.
ClearNothing(n) ==
    /\ loop[n].pc = "clear" /\ Continue(n)
    /\ UNCHANGED <<store, clocks, permit, purge, reindex, trained, faults>>

\* The entry is removed from the queue; a failure is only logged.
Clear(n) ==
    /\ loop[n].pc = "clear" /\ Continue(n)
    /\ \/ tasks' = tasks \ {Current(n)} /\ UNCHANGED faults
       \/ Fault("clear") /\ UNCHANGED tasks
    /\ UNCHANGED <<email, terms, seq, clocks, permit, purge, reindex, trained>>

\* The list of locked tasks without those whose time has come.
StillSkipped(n) == [s \in 1..MaxSeq |-> IF loop[n].skip[s] > now THEN loop[n].skip[s] ELSE 0]

\* The end of a round: all its locks but those of trainings are removed.
Unlock(n) ==
    /\ loop[n].pc = "lock" /\ loop[n].entries = <<>>
    /\ locks' = [k \in LockKeys |-> IF k \in loop[n].unlock THEN 0 ELSE locks[k]]
    /\ loop' = [loop EXCEPT ![n].pc = "wait", ![n].unlock = {}, ![n].skip = StillSkipped(n)]
    /\ UNCHANGED <<store, now, plock, permit, purge, reindex, trained, faults>>

\* A node dies and starts again; what it had locked stays locked.
Crash(n) ==
    /\ Fault("crash")
    /\ loop' = [loop EXCEPT ![n] = IdleLoop] /\ permit' = [permit EXCEPT ![n] = TRUE]
    /\ purge' = [purge EXCEPT ![n] = IdlePurge]
    /\ UNCHANGED <<store, clocks, reindex, trained>>

-------------------------------------------------------------------------------
(* The purge of an account: purge_account, emails_purge_tombstoned. *)

\* A node has read a message it is going to index under d.
BeingIndexed(d) ==
    \E n \in Node : loop[n].pc = "apply" /\ Current(n).doc = d /\ Current(n).action = "index"

\* emails_auto_expunge: the messages that are too old for the trash or the junk
\* folder, any of the live ones, get a tombstone.
AutoExpunge ==
    \E old \in SUBSET {d \in Doc : Live(d)} :
        email' = [d \in Doc |-> IF d \in old THEN [email[d] EXCEPT !.tomb = TRUE] ELSE email[d]]

\* purge_account, under the account's lock.
StartPurge(n) ==
    /\ purge[n].pc = "idle" /\ plock <= now /\ AutoExpunge
    /\ plock' = At(now + PurgeExpiry)
    /\ purge' = [purge EXCEPT ![n].pc = "terms"]
    /\ UNCHANGED <<terms, tasks, seq, now, locks, permit, loop, reindex, trained, faults>>

\* get_bitmap of the tombstone tag.
Tombstoned == {d \in Doc : email[d] # NoEmail /\ email[d].tomb}

\* fts_remove: all words under the given ids.
FtsRemove(ids) == [d \in Doc |-> IF d \in ids THEN {} ELSE terms[d]]

\* emails_purge_tombstoned: first fts_remove, for all tombstoned documents.
RemoveTerms(n) ==
    /\ purge[n].pc = "terms"
    /\ PurgeMeetsIndexer \/ ~(\E d \in Tombstoned : BeingIndexed(d))
    /\ terms' = FtsRemove(Tombstoned)
    /\ purge' = [purge EXCEPT ![n] = [pc |-> "delete", ids |-> Tombstoned]]
    /\ UNCHANGED <<email, tasks, seq, clocks, permit, loop, reindex, trained, faults>>

\* Then each document is deleted, whatever message it is by now, which frees
\* its id; one without metadata is passed over.
DeleteDocument(n, d) ==
    /\ purge[n].pc = "delete" /\ d \in purge[n].ids
    /\ email' = [email EXCEPT ![d] = NoEmail]
    /\ purge' = [purge EXCEPT ![n].ids = @ \ {d}]
    /\ UNCHANGED <<terms, tasks, seq, clocks, permit, loop, reindex, trained, faults>>

\* A failure ends the purge of the messages; the next one takes the rest.
AbandonPurge(n) ==
    /\ purge[n].pc \in {"terms", "delete"} /\ Fault("purge")
    /\ purge' = [purge EXCEPT ![n] = [pc |-> "end", ids |-> {}]]
    /\ UNCHANGED <<store, clocks, permit, loop, reindex, trained>>

EndPurge(n) ==
    /\ purge[n].pc \in {"delete", "end"} /\ purge[n].ids = {}
    /\ purge' = [purge EXCEPT ![n] = IdlePurge] /\ plock' = 0
    /\ UNCHANGED <<store, now, locks, permit, loop, reindex, trained, faults>>

Tick ==
    /\ now < MaxTime /\ now' = now + 1
    /\ ~LocksOutlasted => \A n \in Node :
         /\ purge[n].pc # "idle" => plock > now'
         /\ \A t \in ToSet(loop[n].entries) : locks[LockKey(t)] # now'
    /\ UNCHANGED <<store, locks, plock, permit, loop, purge, reindex, trained, faults>>

Request(n) ==
    \/ \E d \in Doc, h \in Hash, train \in BOOLEAN : Ingest(n, d, h, train)
    \/ \E d \in Doc : Train(n, d)
    \/ QueueIndexing(n) \/ OtherNews(n)

Loop(n) == Scan(n) \/ TryLock(n) \/ Read(n) \/ Apply(n) \/ Clear(n) \/ Unlock(n)

Purge(n) ==
    \/ StartPurge(n) \/ RemoveTerms(n) \/ AbandonPurge(n) \/ EndPurge(n)
    \/ \E d \in Doc : DeleteDocument(n, d)

Next ==
    \/ \E n \in Node : Request(n) \/ Loop(n) \/ Purge(n) \/ Crash(n)
    \/ \E d \in Doc : Tombstone(d)
    \/ CollectLinks \/ Tick

\* Tasks that can run do: the runtime polls the loop, and time passes.
Fairness == WF_vars(Tick) /\ \A n \in Node : WF_vars(Loop(n))

Spec == Init /\ [][Next]_vars /\ Fairness

-------------------------------------------------------------------------------
(* Properties. *)

\* A search never finds a message by the words of another one: the terms under
\* the id of a message are its own, although ids are used again (the hash in
\* the task, compared in email_task_queued, and fts_remove before the id is
\* freed).
NoStaleTerms == \A d \in Doc : Live(d) => terms[d] \subseteq {email[d].hash}

\* A message that is not in the index is still to be indexed: its task stays
\* queued until its terms are written, whatever fails and whoever dies.
NeverForgotten ==
    \A d \in Doc : Live(d) /\ email[d].hash \notin terms[d] =>
        \E t \in tasks : t.action = "index" /\ t.doc = d /\ t.hash = email[d].hash

\* A purge deletes what was deleted before: a message that has come since, under
\* a document id that was free again, is never removed (the account's purge lock
\* in purge_account).
LiveStays == [][\A d \in Doc : Live(d) => email'[d] # NoEmail]_vars

\* The filter learns from a task once, unless something fails: a node whose list
\* of tasks is older than another node's training still finds the lock, which
\* is left to expire (remove_lock) and outlasts the round.
TrainedOnce == faults = 0 => \A s \in 1..MaxSeq : trained[s] <= 1

\* What the index and the filter know of the messages is right, although document ids are
\* used again, tasks are tried again and nodes work side by side (email_task_queued).
IndexHolds == NoStaleTerms /\ NeverForgotten /\ TrainedOnce

\* As long as every node is notified again and again, every task leaves the
\* queue, also one that was found locked or whose holder died.  (Without
\* further notifications it need not: the loop looks at the queue only then.)
TasksEnd ==
    (\A n \in Node : []<>permit[n]) =>
        \A s \in 1..MaxSeq : (\E t \in tasks : t.seq = s) ~> (\A t \in tasks : t.seq # s)
===============================================================================
