------------------------------ MODULE MailThreads ------------------------------
(***************************************************************************)
(* The messages of one account and the conversations they form.  A message *)
(* that is stored joins the conversation (thread) of the messages it shares *)
(* a reference with, and merges their threads if there are several; a       *)
(* thread whose last message is deleted is deleted.  Thread ids are read    *)
(* from a cache that is as good as the last change of a thread.             *)
(*                                                                         *)
(*   crates/email/src/ingest.rs      email_ingest, find_or_merge_thread    *)
(*   crates/email/src/cache.rs       get_cached_thread_ids                 *)
(*   crates/jmap/src/email/delete.rs emails_tombstone, the purge           *)
(*                                                                         *)
(* Every write is one atomic batch of the store, and everything between two *)
(* writes or reads may be interleaved with other requests.                  *)
(***************************************************************************)
EXTENDS Integers, FiniteSets

CONSTANTS
    Proc,            \* requests at work at the same time
    Msg,             \* messages, by their Message-ID
    Refs(_),         \* the references of a message with its Message-ID
    Doc,             \* document ids of messages, numbers
    Thread,          \* document ids of threads
    NoMail, NoThread,
    MaxRetries,      \* MAX_RETRIES
    MaxIds,          \* bound: change ids ever drawn
    IngestsOverlap,  \* may messages be stored at the same time?
    Deletes          \* are messages deleted: "none", "alone", or "any" time?

ASSUME MailAssumption ==
    /\ Doc \subseteq Nat /\ IsFiniteSet(Doc) /\ MaxRetries \in Nat /\ MaxIds \in Nat
    /\ IngestsOverlap \in BOOLEAN /\ Deletes \in {"none", "alone", "any"}
    /\ NoThread \notin Thread /\ NoMail \notin [msg: Msg, thread: Thread \cup {NoThread}, tomb: BOOLEAN, uid: Nat]

VARIABLES
    mail,     \* document id -> message or NoMail
    tag,      \* thread -> documents with its tag (the bitmap of ThreadId)
    threads,  \* threads that exist
    log,      \* change ids logged for threads
    ids,      \* change ids drawn
    uids,     \* UIDs given
    cache,    \* the cached thread ids, and the change they are as of
    proc      \* request -> what it does

vars == <<mail, tag, threads, log, ids, uids, cache, proc>>
store == <<mail, tag, threads>>

MaybeThread == Thread \cup {NoThread}

Mail == [msg: Msg, thread: MaybeThread, tomb: BOOLEAN, uid: 1..MaxIds]

\* A request: `found' are the matching documents, `moves' the documents to move
\* with the thread each was in, `docs' those to delete.
Idle == [pc |-> "idle", msg |-> NoMail, found |-> {}, thread |-> NoThread, moves |-> {}, id |-> 0, uid |-> 0,
         tries |-> 0, dead |-> {}]

Steps == {"idle", "find", "threads", "merge", "assign", "insert", "tombstone", "commit"}

Request == [pc: Steps, msg: Msg \cup {NoMail}, found: SUBSET Doc, thread: MaybeThread,
            moves: SUBSET (Doc \X MaybeThread), id: 0..MaxIds, uid: 0..MaxIds, tries: 0..MaxRetries,
            dead: SUBSET Thread]

Stored(d) == mail[d] # NoMail
Live(d) == Stored(d) /\ ~mail[d].tomb

MaxOf(S) == CHOOSE x \in S : \A y \in S : y <= x

\* Types; a UID is given once.
TypeOK ==
    /\ mail \in [Doc -> Mail \cup {NoMail}] /\ tag \in [Thread -> SUBSET Doc] /\ threads \subseteq Thread
    /\ log \subseteq 1..MaxIds /\ ids \in 0..MaxIds /\ uids \in 0..MaxIds
    /\ cache \in [modseq: 0..MaxIds, map: [Doc -> MaybeThread]]
    /\ proc \in [Proc -> Request]
    /\ \A c, d \in Doc : Stored(c) /\ Stored(d) /\ mail[c].uid = mail[d].uid => c = d

Init ==
    /\ mail = [d \in Doc |-> NoMail] /\ tag = [t \in Thread |-> {}] /\ threads = {}
    /\ log = {} /\ ids = 0 /\ uids = 0
    /\ cache = [modseq |-> 0, map |-> [d \in Doc |-> NoThread]]
    /\ proc = [p \in Proc |-> Idle]

Ingesting(p) == proc[p].pc \in {"find", "threads", "merge", "assign", "insert"}
Deleting(p) == proc[p].pc \in {"tombstone", "commit"}

-------------------------------------------------------------------------------
(* Storing a message: email_ingest. *)

\* A message comes; one that is in the mailbox already is not stored again.
StartIngest(p, m) ==
    /\ proc[p].pc = "idle"
    /\ \A q \in Proc : (Ingesting(q) => IngestsOverlap) /\ (Deleting(q) => Deletes = "any")
    /\ ~ \E d \in Doc : Live(d) /\ mail[d].msg = m
    /\ proc' = [proc EXCEPT ![p] = [Idle EXCEPT !.pc = "find", !.msg = m]]
    /\ UNCHANGED <<store, log, ids, uids, cache>>

\* The messages that share a reference; deleted ones are indexed until they are
\* purged.
FindMatches(p) ==
    LET found == {d \in Doc : Stored(d) /\ Refs(mail[d].msg) \cap Refs(proc[p].msg) # {}}
    IN /\ proc[p].pc = "find"
       /\ proc' = [proc EXCEPT ![p].found = found,
                               ![p].thread = NoThread,
                               ![p].pc = IF found = {} THEN "assign" ELSE "threads"]
       /\ UNCHANGED <<store, log, ids, uids, cache>>

LastChange == IF log = {} THEN 0 ELSE MaxOf(log)

\* get_cached_thread_ids: the cache, read anew unless it is as of the last change.
CachedThreads ==
    IF cache.modseq >= LastChange THEN cache
    ELSE [modseq |-> LastChange, map |-> [d \in Doc |-> IF Stored(d) THEN mail[d].thread ELSE NoThread]]

\* The documents found that the cache puts in thread t, and the threads there are.
InThread(t, found, map) == {d \in found : map[d] = t}

Hits(found, map) == {t \in Thread : InThread(t, found, map) # {}}

\* The most common thread: of two, the one whose count got there first.
MostCommon(found, map) ==
    LET count(t) == Cardinality(InThread(t, found, map))
        most == {t \in Hits(found, map) : \A u \in Hits(found, map) : count(u) <= count(t)}
    IN CHOOSE t \in most :
         \A u \in most : MaxOf(InThread(t, found, map)) <= MaxOf(InThread(u, found, map))

\* find_or_merge_thread: no thread, the only one, or the most common one, into
\* which the others are to be merged.
ChooseThread(p) ==
    LET c == CachedThreads
        hits == Hits(proc[p].found, c.map)
        first == MostCommon(proc[p].found, c.map)
    IN /\ proc[p].pc = "threads" /\ cache' = c
       /\ \/ /\ hits = {} /\ proc' = [proc EXCEPT ![p].pc = "assign"] /\ UNCHANGED ids
          \/ /\ Cardinality(hits) = 1
             /\ proc' = [proc EXCEPT ![p].pc = "assign", ![p].thread = CHOOSE t \in hits : TRUE]
             /\ UNCHANGED ids
          \/ /\ Cardinality(hits) > 1 /\ ids < MaxIds /\ ids' = ids + 1
             /\ proc' = [proc EXCEPT ![p].pc = "merge", ![p].thread = first, ![p].id = ids',
                                     ![p].dead = hits \ {first},
                                     ![p].moves = UNION {tag[u] \X {u} : u \in hits \ {first}}]
       /\ UNCHANGED <<store, log, uids>>

\* The batch that moves documents to thread t, whatever thread they are in.
MoveTo(t, moves, dead) ==
    LET docs == {mv[1] : mv \in moves}
    IN /\ threads' = threads \ dead
       /\ mail' = [d \in Doc |-> IF d \in docs THEN [mail[d] EXCEPT !.thread = t] ELSE mail[d]]
       /\ tag' = [u \in Thread |-> IF u = t THEN tag[u] \cup docs
                                   ELSE tag[u] \ {mv[1] : mv \in {x \in moves : x[2] = u}}]

\* Mutant: the thread of the documents is not asserted.
MergeThreadsBlindly(p) ==
    /\ proc[p].pc = "merge"
    /\ MoveTo(proc[p].thread, {mv \in proc[p].moves : Stored(mv[1])}, proc[p].dead)
    /\ log' = log \cup {proc[p].id} /\ proc' = [proc EXCEPT ![p].pc = "assign"]
    /\ UNCHANGED <<ids, uids, cache>>

\* The other threads are deleted and their messages moved, if each is still where
\* it was; else all is tried again, and given up in the end.
MergeThreads(p) ==
    LET r == proc[p]
        still == \A mv \in r.moves : Stored(mv[1]) /\ mail[mv[1]].thread = mv[2]
    IN /\ r.pc = "merge"
       /\ \/ /\ still /\ MoveTo(r.thread, r.moves, r.dead)
             /\ log' = log \cup {r.id} /\ proc' = [proc EXCEPT ![p].pc = "assign"]
          \/ /\ ~still /\ r.tries < MaxRetries
             /\ proc' = [proc EXCEPT ![p] = [Idle EXCEPT !.pc = "find", !.msg = r.msg, !.tries = r.tries + 1]]
             /\ UNCHANGED <<store, log>>
          \/ /\ ~still /\ r.tries = MaxRetries
             /\ proc' = [proc EXCEPT ![p] = Idle] /\ UNCHANGED <<store, log>>
       /\ UNCHANGED <<ids, uids, cache>>

\* A change id and a UID are drawn (assign_change_id, assign_imap_uid).
AssignIds(p) ==
    /\ proc[p].pc = "assign" /\ ids < MaxIds /\ uids < MaxIds
    /\ ids' = ids + 1 /\ uids' = uids + 1
    /\ proc' = [proc EXCEPT ![p].pc = "insert", ![p].id = ids', ![p].uid = uids']
    /\ UNCHANGED <<store, log, cache>>

\* The batch that stores the message under a free document id, in its thread or
\* a new one.
InsertMail(p, d, t) ==
    /\ proc[p].pc = "insert" /\ ~Stored(d)
    /\ IF proc[p].thread = NoThread THEN t \notin threads ELSE t = proc[p].thread
    /\ threads' = IF proc[p].thread = NoThread THEN threads \cup {t} ELSE threads
    /\ mail' = [mail EXCEPT ![d] = [msg |-> proc[p].msg, thread |-> t, tomb |-> FALSE, uid |-> proc[p].uid]]
    /\ tag' = [tag EXCEPT ![t] = @ \cup {d}]
    /\ log' = log \cup {proc[p].id}
    /\ proc' = [proc EXCEPT ![p] = Idle]
    /\ UNCHANGED <<ids, uids, cache>>

-------------------------------------------------------------------------------
(* Deleting messages: emails_tombstone and its callers, the purge. *)

\* Mutant: a thread is dead when a message of it is deleted.
StartDeleteThread(p, docs) ==
    /\ proc[p].pc = "idle"
    /\ Deletes # "none" /\ \A q \in Proc : (Ingesting(q) \/ Deleting(q)) => Deletes = "any"
    /\ docs # {} /\ \A d \in docs : Live(d)
    /\ proc' = [proc EXCEPT ![p] = [Idle EXCEPT !.pc = "tombstone", !.moves = {<<d, mail[d].thread>> : d \in docs},
                                                !.dead = {mail[d].thread : d \in docs}]]
    /\ UNCHANGED <<store, log, ids, uids, cache>>

\* The threads of the messages are read, and the members of those threads
\* counted: a thread is to be deleted if all of them are.
StartDelete(p, docs) ==
    /\ proc[p].pc = "idle"
    /\ Deletes # "none" /\ \A q \in Proc : (Ingesting(q) \/ Deleting(q)) => Deletes = "any"
    /\ docs # {} /\ \A d \in docs : Live(d)
    /\ LET of == {mail[d].thread : d \in docs}
           dead == {t \in of : Cardinality({d \in docs : mail[d].thread = t}) = Cardinality(tag[t])}
       IN proc' = [proc EXCEPT ![p] = [Idle EXCEPT !.pc = "tombstone", !.dead = dead,
                                                   !.moves = {<<d, mail[d].thread>> : d \in docs}]]
    /\ UNCHANGED <<store, log, ids, uids, cache>>

\* The batch: the tags that were read are removed, whatever they are now.
Tombstone(p) ==
    LET r == proc[p]
        docs == {mv[1] : mv \in r.moves}
    IN /\ r.pc = "tombstone"
       /\ mail' = [d \in Doc |-> IF d \in docs /\ Stored(d)
                                 THEN [mail[d] EXCEPT !.thread = NoThread, !.tomb = TRUE] ELSE mail[d]]
       /\ tag' = [t \in Thread |-> tag[t] \ {mv[1] : mv \in {x \in r.moves : x[2] = t}}]
       /\ threads' = threads \ r.dead
       /\ proc' = [proc EXCEPT ![p].pc = "commit"]
       /\ UNCHANGED <<log, ids, uids, cache>>

\* The caller logs the changes.
CommitChanges(p) ==
    /\ proc[p].pc = "commit" /\ ids < MaxIds /\ ids' = ids + 1
    /\ log' = log \cup {ids'}
    /\ proc' = [proc EXCEPT ![p] = Idle]
    /\ UNCHANGED <<store, uids, cache>>

\* emails_purge_tombstoned frees the document.
Purge(d) ==
    /\ Stored(d) /\ mail[d].tomb
    /\ Deletes = "any" \/ \A p \in Proc : ~Ingesting(p) /\ ~Deleting(p)
    /\ mail' = [mail EXCEPT ![d] = NoMail]
    /\ UNCHANGED <<tag, threads, log, ids, uids, cache, proc>>

Next ==
    \/ \E p \in Proc :
         \/ \E m \in Msg : StartIngest(p, m)
         \/ FindMatches(p) \/ ChooseThread(p) \/ MergeThreads(p) \/ AssignIds(p)
         \/ \E d \in Doc, t \in Thread : InsertMail(p, d, t)
         \/ \E docs \in SUBSET Doc : StartDelete(p, docs)
         \/ Tombstone(p) \/ CommitChanges(p)
    \/ \E d \in Doc : Purge(d)

Spec == Init /\ [][Next]_vars

-------------------------------------------------------------------------------
(* Properties. *)

\* The two ways to store the thread of a message agree, also when threads are
\* merged while messages come: the members of a thread, found by their tags, are
\* the messages that name it (the assertion in find_or_merge_thread).
TagsMatch == \A t \in Thread : tag[t] = {d \in Doc : Stored(d) /\ mail[d].thread = t}

\* The thread of a message exists (delete_document of a thread, in
\* find_or_merge_thread and emails_tombstone, happens only when nobody is in it).
ThreadExists == \A d \in Doc : Live(d) => mail[d].thread \in threads

\* A thread goes with its last message.
NoEmptyThread ==
    (\A p \in Proc : proc[p].pc = "idle") => \A t \in threads : \E d \in Doc : Live(d) /\ mail[d].thread = t

\* Messages that share a reference are in one conversation (the cache is current
\* when a message looks for its thread).
Together ==
    \A c, d \in Doc : Live(c) /\ Live(d) /\ Refs(mail[c].msg) \cap Refs(mail[d].msg) # {} =>
        mail[c].thread = mail[d].thread

\* A message is in a conversation that exists, no conversation is empty, and messages that
\* share a reference are in one, for requests that run one after the other (find_or_merge_thread).
ThreadsHold == ThreadExists /\ NoEmptyThread /\ Together

================================================================================
