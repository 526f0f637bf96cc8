------------------------------- MODULE BlobStore -------------------------------
(***************************************************************************)
(* Blobs (message contents) and the keys that keep them alive.  A blob is  *)
(* stored under the hash of its contents, so equal contents share it.  The *)
(* data store keeps, for each hash, reservations that lapse, a Commit key  *)
(* once the blob is stored, and one link per document or queued message.   *)
(* A purge, run by the housekeeper beside everything else, deletes the     *)
(* blobs nobody links or reserves.                                         *)
(*                                                                         *)
(*   crates/store/src/write/blob.rs          the purge                     *)
(*   crates/common/src/core.rs               put_blob, for documents       *)
(*   crates/smtp/src/queue/spool.rs          Message::queue and remove     *)
(*   crates/email/src/{ingest,index}.rs      linking and unlinking         *)
(*   crates/common/src/enterprise/undelete.rs   hold_undelete              *)
(*                                                                         *)
(* The protocol leaves gaps.  Nothing is closed off here: the history      *)
(* variable exposed collects the contents that met one of them, and the    *)
(* properties are about all the others.                                    *)
(***************************************************************************)
EXTENDS Integers, FiniteSets

CONSTANTS
    Hash,                \* contents
    Doc,                 \* documents, numbered: they sort before queue ids
    Qid,                 \* queue ids
    AllOnes,             \* queue ids whose low 32 bits are all ones
    UploadTtl,           \* jmap.upload_tmp_ttl
    QueueTtl,            \* the 120 seconds queue() reserves for
    Retention,           \* undelete retention, 0: not configured
    MaxTime,             \* bound: the clock stops there
    MaxFailures          \* bound: purges that fail

ASSUME BlobAssumption ==
    /\ Doc \subseteq Nat /\ Qid \subseteq Nat /\ AllOnes \subseteq Qid
    /\ \A d \in Doc, q \in Qid : d < q
    /\ UploadTtl \in Nat \ {0} /\ QueueTtl \in Nat \ {0} /\ Retention \in Nat
    /\ MaxTime \in Nat /\ MaxFailures \in Nat

VARIABLES
    now,       \* seconds
    blobs,     \* hashes in the blob store
    commits,   \* BlobOp::Commit keys
    links,     \* BlobOp::Link and LinkId keys
    reserves,  \* BlobOp::Reserve keys
    writers,   \* requests that are storing contents
    purge,     \* the purge in progress
    used,      \* history: documents and queue ids used
    failures,  \* history: purges that failed
    exposed    \* history: contents that met a gap of the protocol

vars == <<now, blobs, commits, links, reserves, writers, purge, used, failures, exposed>>

Id == Doc \cup Qid

Link == [hash: Hash, id: Id]

\* The queue writes its reservations without an account.  The key then starts
\* with the largest account id, and the purge's scan ends before it.
Reserve == [scope: {"account", "queue"}, hash: Hash, until: Nat, held: BOOLEAN]

Writer == [kind: {"account", "queue"}, id: Id, hash: Hash, until: Nat,
           pc: {"exists", "put", "commit", "link"}]

Purge == [pc: {"idle", "links", "delete"}, expired: SUBSET Reserve,
          active: SUBSET Hash, garbage: SUBSET Hash, todo: SUBSET Hash]

IdlePurge == [pc |-> "idle", expired |-> {}, active |-> {}, garbage |-> {}, todo |-> {}]

Init ==
    /\ now = 1
    /\ blobs = {} /\ commits = {} /\ links = {} /\ reserves = {}
    /\ writers = {} /\ purge = IdlePurge /\ used = {} /\ failures = 0
    /\ exposed = {}

Becomes(w, v) == writers' = (writers \ {w}) \cup {v}

LinksOf(h) == {l \in links : l.hash = h}

-------------------------------------------------------------------------------
(* Storing the contents of a document: put_blob and the batch that links it. *)

\* A reservation that comes after the purge has read the reservations and
\* before it is done with the contents.
Late(h) == \/ purge.pc = "links" /\ h \notin purge.active
           \/ purge.pc = "delete" /\ h \in purge.garbage

ExposeLate(h) == exposed' = IF Late(h) THEN exposed \cup {h} ELSE exposed

ReserveFor(id, h) ==
    /\ id \in Doc \ used
    /\ reserves' = reserves \cup
         {[scope |-> "account", hash |-> h, until |-> now + UploadTtl, held |-> FALSE]}
    /\ writers' = writers \cup
         {[kind |-> "account", id |-> id, hash |-> h, until |-> now + UploadTtl, pc |-> "exists"]}
    /\ used' = used \cup {id}
    /\ ExposeLate(h)
    /\ UNCHANGED <<now, blobs, commits, links, purge, failures>>

\* Mutant: contents are taken to be stored when somebody reserved them.
BlobExistsReserved(w) ==
    /\ w.pc = "exists"
    /\ Becomes(w, [w EXCEPT !.pc = IF \E k \in reserves : k.hash = w.hash /\ k.until # w.until
                                   THEN "link" ELSE "put"])
    /\ UNCHANGED <<now, blobs, commits, links, reserves, purge, used, failures, exposed>>

\* blob_exists: contents that are committed are not stored again.
BlobExists(w) ==
    /\ w.pc = "exists"
    /\ Becomes(w, [w EXCEPT !.pc = IF w.hash \in commits THEN "link" ELSE "put"])
    /\ UNCHANGED <<now, blobs, commits, links, reserves, purge, used, failures, exposed>>

PutBlob(w) ==
    /\ w.pc = "put"
    /\ blobs' = blobs \cup {w.hash}
    /\ Becomes(w, [w EXCEPT !.pc = IF w.kind = "queue" THEN "link" ELSE "commit"])
    /\ UNCHANGED <<now, commits, links, reserves, purge, used, failures, exposed>>

CommitBlob(w) ==
    /\ w.pc = "commit"
    /\ commits' = commits \cup {w.hash}
    /\ Becomes(w, [w EXCEPT !.pc = "link"])
    /\ UNCHANGED <<now, blobs, links, reserves, purge, used, failures, exposed>>

\* The batch that stores the document links the blob; the reservation is left
\* to lapse.
LinkDocument(w) ==
    /\ w.pc = "link" /\ w.kind = "account"
    /\ links' = links \cup {[hash |-> w.hash, id |-> w.id]}
    /\ writers' = writers \ {w}
    /\ UNCHANGED <<now, blobs, commits, reserves, purge, used, failures, exposed>>

-------------------------------------------------------------------------------
(* Queueing a message: Message::queue. *)

\* The purge does not see this reservation: what it is deleting is exposed.
ReserveForQueue(q, h) ==
    /\ q \in Qid \ used
    /\ reserves' = reserves \cup
         {[scope |-> "queue", hash |-> h, until |-> now + QueueTtl, held |-> FALSE]}
    /\ writers' = writers \cup
         {[kind |-> "queue", id |-> q, hash |-> h, until |-> now + QueueTtl, pc |-> "put"]}
    /\ used' = used \cup {q}
    /\ exposed' = exposed \cup ({h} \cap purge.garbage)
    /\ UNCHANGED <<now, blobs, commits, links, purge, failures>>

\* One batch clears the reservation, links and commits the blob.
LinkQueued(w) ==
    /\ w.pc = "link" /\ w.kind = "queue"
    /\ reserves' = {k \in reserves :
                      ~(k.scope = "queue" /\ k.hash = w.hash /\ k.until = w.until)}
    /\ links' = links \cup {[hash |-> w.hash, id |-> w.id]}
    /\ commits' = commits \cup {w.hash}
    /\ writers' = writers \ {w}
    /\ UNCHANGED <<now, blobs, purge, used, failures, exposed>>

\* A store error or a crash ends the request where it is.
Abandon(w) ==
    /\ writers' = writers \ {w}
    /\ UNCHANGED <<now, blobs, commits, links, reserves, purge, used, failures, exposed>>

-------------------------------------------------------------------------------
(* Deleting a document or a queued message. *)

\* Mutant: the blob of a deleted document is not held.
UnlinkUnheld(l) ==
    /\ links' = links \ {l}
    /\ reserves' = IF l.id \in Doc /\ Retention > 0
                   THEN reserves \cup
                          {[scope |-> "queue", hash |-> l.hash, until |-> now + Retention,
                            held |-> TRUE]}
                   ELSE reserves
    /\ UNCHANGED <<now, blobs, commits, writers, purge, used, failures, exposed>>

\* A deleted document is unlinked and, when undelete is configured, its blob is
\* held for the retention time, in one batch.  A message that leaves the queue
\* is unlinked.
Unlink(l) ==
    /\ links' = links \ {l}
    /\ \/ /\ l.id \in Doc /\ Retention > 0
          /\ reserves' = reserves \cup
               {[scope |-> "account", hash |-> l.hash, until |-> now + Retention, held |-> TRUE]}
          /\ ExposeLate(l.hash)
       \/ /\ l.id \in Qid \/ Retention = 0
          /\ UNCHANGED <<reserves, exposed>>
    /\ UNCHANGED <<now, blobs, commits, writers, purge, used, failures>>

-------------------------------------------------------------------------------
(* purge_blobs.  The housekeeper's lock lets one run at a time. *)

\* Remove expired temporary blobs: the first scan.
ScanReserves ==
    /\ purge.pc = "idle"
    /\ LET seen == {k \in reserves : k.scope = "account"}
       IN purge' = [purge EXCEPT !.pc = "links",
                                 !.expired = {k \in seen : k.until <= now},
                                 !.active = {k.hash : k \in {j \in seen : j.until > now}}]
    /\ UNCHANGED <<now, blobs, commits, links, reserves, writers, used, failures, exposed>>

\* The scan of the links of h, in key order.  A link whose last 32 bits are all
\* ones looks like the Commit key, which is the last one; such a key condemns
\* the blob unless an ordinary link came before it.
IsGarbage(h) ==
    LET ordinary == {l \in LinksOf(h) : l.id \notin AllOnes}
    IN /\ h \notin purge.active
       /\ \/ h \in commits /\ ordinary = {}
          \/ \E k \in LinksOf(h) \ ordinary : \A l \in ordinary : k.id < l.id

\* What the queue is storing or has linked under such an id may be condemned
\* all the same: it is exposed.
ScanLinks ==
    /\ purge.pc = "links"
    /\ LET garbage == {h \in Hash : IsGarbage(h)}
       IN /\ purge' = [purge EXCEPT !.pc = "delete", !.garbage = garbage, !.todo = garbage]
          /\ exposed' = exposed \cup {h \in garbage :
               LinksOf(h) # {} \/ \E w \in writers : w.kind = "queue" /\ w.hash = h}
    /\ UNCHANGED <<now, blobs, commits, links, reserves, writers, used, failures>>

DeleteBlob ==
    /\ purge.pc = "delete"
    /\ \E h \in purge.todo :
         /\ blobs' = blobs \ {h}
         /\ purge' = [purge EXCEPT !.todo = @ \ {h}]
    /\ UNCHANGED <<now, commits, links, reserves, writers, used, failures, exposed>>

\* Mutant: the Commit keys of the deleted blobs stay.
ClearKeysReserves ==
    /\ purge.pc = "delete" /\ purge.todo = {}
    /\ reserves' = reserves \ purge.expired
    /\ purge' = IdlePurge
    /\ UNCHANGED <<now, blobs, commits, links, writers, used, failures, exposed>>

\* Delete hashes: the lapsed reservations and the Commit keys.
ClearKeys ==
    /\ purge.pc = "delete" /\ purge.todo = {}
    /\ reserves' = reserves \ purge.expired
    /\ commits' = commits \ purge.garbage
    /\ purge' = IdlePurge
    /\ UNCHANGED <<now, blobs, links, writers, used, failures, exposed>>

\* A store error or a crash ends the purge where it is.  The blobs it has
\* deleted keep their Commit keys: they are exposed.
FailPurge ==
    /\ purge.pc # "idle"
    /\ failures < MaxFailures
    /\ failures' = failures + 1
    /\ purge' = IdlePurge
    /\ exposed' = exposed \cup (purge.garbage \ purge.todo)
    /\ UNCHANGED <<now, blobs, commits, links, reserves, writers, used>>

\* Time.  A request that takes longer than its reservation lasts exposes what
\* it stores.
Tick ==
    /\ now < MaxTime
    /\ now' = now + 1
    /\ exposed' = exposed \cup {w.hash : w \in {v \in writers : v.until <= now + 1}}
    /\ UNCHANGED <<blobs, commits, links, reserves, writers, purge, used, failures>>

Write(w) ==
    \/ BlobExists(w) \/ PutBlob(w) \/ CommitBlob(w) \/ LinkDocument(w)
    \/ LinkQueued(w) \/ Abandon(w)

PurgeStep == ScanReserves \/ ScanLinks \/ DeleteBlob \/ ClearKeys

Next ==
    \/ \E d \in Doc, h \in Hash : ReserveFor(d, h)
    \/ \E q \in Qid, h \in Hash : ReserveForQueue(q, h)
    \/ \E w \in writers : Write(w)
    \/ \E l \in links : Unlink(l)
    \/ PurgeStep \/ FailPurge
    \/ Tick

\* The housekeeper runs the purge again and again, the clock goes on and a
\* request ends, one way or the other.
Fairness ==
    /\ WF_vars(PurgeStep) /\ WF_vars(Tick)
    /\ \A i \in Id : WF_vars(\E w \in writers : w.id = i /\ Write(w))

Spec == Init /\ [][Next]_vars /\ Fairness

-------------------------------------------------------------------------------
(* Properties. *)

TypeOK ==
    /\ now \in Nat
    /\ blobs \subseteq Hash /\ commits \subseteq Hash
    /\ links \subseteq Link /\ reserves \subseteq Reserve /\ writers \subseteq Writer
    /\ purge \in Purge /\ used \subseteq Id /\ failures \in Nat /\ exposed \subseteq Hash

\* What a document or a queued message links is in the blob store: the purge
\* deletes no contents that somebody refers to, and no request links contents
\* that are not there, unless the contents once met a gap of the protocol: they
\* were reserved after the purge had read the reservations, or for longer than
\* the reservation lasts, or by the queue while a purge condemned them; or a
\* purge broke off after it had deleted them, or a queue id looked like a
\* Commit key (put_blob, Message::queue and purge_blobs).
LinkedBlobExists == \A l \in links : l.hash \in blobs \cup exposed

\* A deleted document can be restored until the end of its retention time: the
\* blob that hold_undelete reserved is there, with the same exceptions.
HeldBlobExists == \A k \in reserves : k.held /\ k.until > now => k.hash \in blobs \cup exposed

\* Committed contents nobody links or reserves are deleted in the end, unless
\* somebody refers to them again.
GarbageCollected ==
    \A h \in Hash :
        LET Referred == LinksOf(h) # {} \/ \E k \in reserves : k.hash = h
        IN (h \in commits /\ ~Referred) ~> (h \notin commits \/ Referred)

-------------------------------------------------------------------------------
(* The inductive invariant, all of it about contents that are not exposed. *)

Safe(h) == h \notin exposed

\* A request's reservation is in the store and has not lapsed.
ReservedWriters ==
    \A w \in writers : Safe(w.hash) =>
        /\ w.until > now
        /\ w.kind = "account" => \E k \in reserves :
               k.scope = "account" /\ k.hash = w.hash /\ k.until = w.until

\* Blobs are held for an account.
HoldsHaveAccount == \A k \in reserves : k.held => k.scope = "account"

\* The purge in progress has seen every reservation that has not lapsed, or is
\* not going to delete what it is for.
ReservesSeen ==
    \A k \in reserves : k.scope = "account" /\ k.until > now /\ Safe(k.hash) =>
        /\ purge.pc = "links" => k.hash \in purge.active
        /\ k.hash \notin purge.garbage

\* What the purge is going to delete is committed, and nobody links or stores it.
GarbageIsDead ==
    /\ purge.todo \subseteq purge.garbage
    /\ purge.pc # "delete" => purge.garbage = {}
    /\ \A h \in purge.garbage : Safe(h) => h \in commits
    /\ \A l \in links : Safe(l.hash) => l.hash \notin purge.garbage
    /\ \A w \in writers : Safe(w.hash) => w.hash \notin purge.garbage

\* The Commit key says that the blob is there, except while a purge that is
\* about to clear the key has deleted it.
CommittedBlobs ==
    \A h \in commits : Safe(h) => h \in blobs \/ h \in purge.garbage \ purge.todo

\* A request that goes on to commit or to link has its blob, and only accounts
\* look whether it is there.
StoredByWriter ==
    \A w \in writers :
        /\ w.pc \in {"commit", "link"} /\ Safe(w.hash) => w.hash \in blobs
        /\ w.kind = "queue" => w.pc \in {"put", "link"}

\* A lapsed reservation is the only kind the purge clears.
ExpiredLapsed == \A k \in purge.expired : k.until <= now

Inv ==
    /\ TypeOK /\ LinkedBlobExists /\ HeldBlobExists
    /\ ReservedWriters /\ HoldsHaveAccount /\ ReservesSeen /\ GarbageIsDead /\ CommittedBlobs
    /\ StoredByWriter /\ ExpiredLapsed
===============================================================================
