---------------------------- MODULE BlobStoreProofs ----------------------------
(***************************************************************************)
(* Proofs that the reservation protocol of BlobStore protects what is      *)
(* linked and what is held for undelete, for every set of hashes and ids   *)
(* and all times to live: contents are lost only after they met one of the *)
(* gaps that the module records in exposed, whatever the requests, the     *)
(* purge and the clock do.  No assumption keeps those gaps from occurring. *)
(***************************************************************************)
EXTENDS BlobStore, TLAPS

\* The empty store satisfies the invariant.
LEMMA InitInv == Init => Inv
  BY DEF Init, Inv, TypeOK, LinkedBlobExists, HeldBlobExists, HoldsHaveAccount, ReservedWriters,
         ReservesSeen, GarbageIsDead, CommittedBlobs, StoredByWriter, ExpiredLapsed, IdlePurge,
         Purge

\* put_blob's first batch: the reservation comes before everything else, and
\* one that the purge in progress cannot see exposes its contents.
LEMMA ReserveForStep ==
  ASSUME Inv, NEW d \in Doc, NEW h \in Hash, ReserveFor(d, h)
  PROVE  Inv'
<1> DEFINE key == [scope |-> "account", hash |-> h, until |-> now + UploadTtl, held |-> FALSE]
<1> DEFINE new == [kind |-> "account", id |-> d, hash |-> h, until |-> now + UploadTtl,
                   pc |-> "exists"]
<1> USE BlobAssumption DEF Inv, Safe
<1>1. /\ now \in Nat /\ now + UploadTtl \in Nat /\ now + UploadTtl > now
      /\ key \in Reserve /\ new \in Writer
  BY DEF TypeOK, Reserve, Writer, Id
<1>2. /\ reserves' = reserves \cup {key} /\ writers' = writers \cup {new}
      /\ UNCHANGED <<now, blobs, commits, links, purge, failures>>
      /\ exposed \subseteq exposed' /\ exposed' \subseteq exposed \cup {h}
      /\ Late(h) => h \in exposed'
  BY DEF ReserveFor, ExposeLate
<1>3. h \notin exposed' => /\ purge.pc = "links" => h \in purge.active
                           /\ h \notin purge.garbage
  BY <1>2 DEF Late, GarbageIsDead
<1>4. TypeOK'
  BY <1>1, <1>2 DEF TypeOK, ReserveFor, Id
<1>5. LinkedBlobExists' /\ HeldBlobExists' /\ HoldsHaveAccount'
  BY <1>2 DEF LinkedBlobExists, HeldBlobExists, HoldsHaveAccount
<1>6. ReservedWriters'
  BY <1>1, <1>2 DEF ReservedWriters
<1>7. ReservesSeen'
  BY <1>2, <1>3 DEF ReservesSeen
<1>8. GarbageIsDead' /\ CommittedBlobs' /\ ExpiredLapsed'
  BY <1>2, <1>3 DEF GarbageIsDead, CommittedBlobs, ExpiredLapsed
<1>9. StoredByWriter'
  BY <1>2 DEF StoredByWriter
<1> QED
  BY <1>4, <1>5, <1>6, <1>7, <1>8, <1>9

\* queue()'s first batch: the purge sees nothing of it, so that contents which
\* are being deleted are exposed.
LEMMA ReserveForQueueStep ==
  ASSUME Inv, NEW q \in Qid, NEW h \in Hash, ReserveForQueue(q, h)
  PROVE  Inv'
<1> DEFINE key == [scope |-> "queue", hash |-> h, until |-> now + QueueTtl, held |-> FALSE]
<1> DEFINE new == [kind |-> "queue", id |-> q, hash |-> h, until |-> now + QueueTtl,
                   pc |-> "put"]
<1> USE BlobAssumption DEF Inv, Safe
<1>1. /\ now \in Nat /\ now + QueueTtl \in Nat /\ now + QueueTtl > now
      /\ key \in Reserve /\ new \in Writer
  BY DEF TypeOK, Reserve, Writer, Id
<1>2. /\ reserves' = reserves \cup {key} /\ writers' = writers \cup {new}
      /\ UNCHANGED <<now, blobs, commits, links, purge, failures>>
      /\ exposed \subseteq exposed' /\ exposed' \subseteq exposed \cup {h}
      /\ h \notin exposed' => h \notin purge.garbage
  BY DEF ReserveForQueue
<1>3. TypeOK'
  BY <1>1, <1>2 DEF TypeOK, ReserveForQueue, Id
<1>4. LinkedBlobExists' /\ HeldBlobExists' /\ HoldsHaveAccount'
  BY <1>2 DEF LinkedBlobExists, HeldBlobExists, HoldsHaveAccount
<1>5. ReservedWriters'
  BY <1>1, <1>2 DEF ReservedWriters
<1>6. ReservesSeen' /\ GarbageIsDead' /\ CommittedBlobs' /\ ExpiredLapsed'
  BY <1>2 DEF ReservesSeen, GarbageIsDead, CommittedBlobs, ExpiredLapsed
<1>7. StoredByWriter'
  BY <1>2 DEF StoredByWriter
<1> QED
  BY <1>3, <1>4, <1>5, <1>6, <1>7

\* A request that goes on keeps everything but its place.
LEMMA Advance ==
  ASSUME NEW w \in Writer, NEW pc \in {"exists", "put", "commit", "link"}
  PROVE  \E v \in Writer :
           /\ v = [w EXCEPT !.pc = pc] /\ v.pc = pc
           /\ v.hash = w.hash /\ v.until = w.until /\ v.kind = w.kind /\ v.id = w.id
<1> DEFINE v == [w EXCEPT !.pc = pc]
<1>1. /\ v \in Writer /\ v.pc = pc
      /\ v.hash = w.hash /\ v.until = w.until /\ v.kind = w.kind /\ v.id = w.id
  BY DEF Writer
<1> QED
  BY <1>1

\* The step of a request: blob_exists, the upload, the commit, the link, or an
\* early end.
LEMMA WriteStep ==
  ASSUME Inv, NEW w \in writers, Write(w)
  PROVE  Inv'
<1> USE DEF Inv, Safe
<1>0. w \in Writer /\ (w.hash \notin exposed => w.hash \notin purge.garbage)
  BY DEF TypeOK, GarbageIsDead
<1>1. CASE BlobExists(w)
  <2>0. PICK p \in {"put", "link"} : p = IF w.hash \in commits THEN "link" ELSE "put"
    OBVIOUS
  <2>1. /\ writers' = (writers \ {w}) \cup {[w EXCEPT !.pc = p]} /\ w.kind # "queue"
        /\ UNCHANGED <<now, blobs, commits, links, reserves, purge, used, failures, exposed>>
    BY <1>1, <2>0 DEF BlobExists, Becomes, StoredByWriter
  <2>2. p \in {"exists", "put", "commit", "link"} /\ (p = "link" => w.hash \in commits)
    BY <2>0
  <2>3. PICK v \in Writer :
          /\ v = [w EXCEPT !.pc = p] /\ v.pc = p
          /\ v.hash = w.hash /\ v.until = w.until /\ v.kind = w.kind /\ v.id = w.id
    BY <1>0, <2>2, Advance
  <2>4. writers' = (writers \ {w}) \cup {v}
    BY Zenon, <2>1, <2>3
  <2>a. /\ v.hash = w.hash /\ v.until = w.until /\ v.kind = w.kind
        /\ UNCHANGED <<now, reserves, exposed>>
    BY <2>1, <2>3
  <2>5. TypeOK' /\ LinkedBlobExists' /\ HeldBlobExists' /\ HoldsHaveAccount' /\ ReservesSeen'
        /\ GarbageIsDead' /\ CommittedBlobs' /\ ExpiredLapsed'
    BY <2>1, <2>3, <2>4 DEF TypeOK, LinkedBlobExists, HeldBlobExists, HoldsHaveAccount,
                ReservesSeen, GarbageIsDead, CommittedBlobs, ExpiredLapsed
  <2>6. ReservedWriters'
    BY <2>4, <2>a DEF ReservedWriters
  <2>7. StoredByWriter'
    BY <1>0, <2>1, <2>2, <2>3, <2>4 DEF StoredByWriter, CommittedBlobs
  <2> QED
    BY <2>5, <2>6, <2>7
<1>2. CASE PutBlob(w)
  <2>0. PICK p \in {"link", "commit"} : p = IF w.kind = "queue" THEN "link" ELSE "commit"
    OBVIOUS
  <2>1. /\ writers' = (writers \ {w}) \cup {[w EXCEPT !.pc = p]}
        /\ blobs' = blobs \cup {w.hash}
        /\ UNCHANGED <<now, commits, links, reserves, purge, used, failures, exposed>>
    BY <1>2, <2>0 DEF PutBlob, Becomes
  <2>2. w.kind = "queue" => p = "link"
    BY <2>0
  <2>3. PICK v \in Writer :
        /\ v = [w EXCEPT !.pc = p] /\ v.pc = p
        /\ v.hash = w.hash /\ v.until = w.until /\ v.kind = w.kind /\ v.id = w.id
    BY <1>0, <2>0, Advance
  <2>4. writers' = (writers \ {w}) \cup {v} /\ (v.kind = "queue" => v.pc = "link")
    BY <2>1, <2>2, <2>3
  <2>a. /\ v.hash = w.hash /\ v.until = w.until /\ v.kind = w.kind
        /\ UNCHANGED <<now, reserves, exposed>>
    BY <2>1, <2>3
  <2>5. TypeOK' /\ LinkedBlobExists' /\ HeldBlobExists' /\ HoldsHaveAccount' /\ ReservesSeen'
        /\ GarbageIsDead' /\ CommittedBlobs' /\ ExpiredLapsed'
    BY <1>0, <2>1, <2>3, <2>4 DEF TypeOK, LinkedBlobExists, HeldBlobExists, HoldsHaveAccount,
                ReservesSeen, GarbageIsDead, CommittedBlobs, ExpiredLapsed, Writer
  <2>6. ReservedWriters'
    BY <2>4, <2>a DEF ReservedWriters
  <2>7. StoredByWriter'
    BY <2>1, <2>3, <2>4 DEF StoredByWriter
  <2> QED
    BY <2>5, <2>6, <2>7
<1>3. CASE CommitBlob(w)
  <2>1. PICK v \in Writer :
        /\ writers' = (writers \ {w}) \cup {v}
        /\ v.hash = w.hash /\ v.until = w.until /\ v.kind = w.kind /\ v.id = w.id
        /\ commits' = commits \cup {w.hash} /\ w.hash \in blobs \cup exposed /\ w.kind # "queue"
        /\ UNCHANGED <<now, blobs, links, reserves, purge, used, failures, exposed>>
    BY <1>0, <1>3, Advance DEF CommitBlob, Becomes, StoredByWriter
  <2>2. TypeOK' /\ LinkedBlobExists' /\ HeldBlobExists' /\ HoldsHaveAccount' /\ ReservesSeen'
        /\ GarbageIsDead' /\ CommittedBlobs' /\ ExpiredLapsed'
    BY <1>0, <2>1 DEF TypeOK, LinkedBlobExists, HeldBlobExists, HoldsHaveAccount, ReservesSeen,
                GarbageIsDead, CommittedBlobs, ExpiredLapsed, Writer
  <2>3. ReservedWriters'
    BY <2>1 DEF ReservedWriters
  <2>4. StoredByWriter'
    BY <2>1 DEF StoredByWriter
  <2> QED
    BY <2>2, <2>3, <2>4
<1>4. CASE LinkDocument(w)
  <2>1. /\ writers' = writers \ {w} /\ w.hash \in blobs \cup exposed
        /\ w.id \in Id /\ w.hash \in Hash
        /\ links' = links \cup {[hash |-> w.hash, id |-> w.id]}
        /\ UNCHANGED <<now, blobs, commits, reserves, purge, used, failures, exposed>>
    BY <1>0, <1>4 DEF LinkDocument, StoredByWriter, Writer
  <2>2. TypeOK'
    BY <2>1 DEF TypeOK, Link
  <2>3. LinkedBlobExists' /\ HeldBlobExists' /\ HoldsHaveAccount' /\ ReservesSeen'
        /\ GarbageIsDead' /\ CommittedBlobs' /\ ExpiredLapsed'
    BY <1>0, <2>1 DEF LinkedBlobExists, HeldBlobExists, HoldsHaveAccount, ReservesSeen,
                GarbageIsDead, CommittedBlobs, ExpiredLapsed
  <2>4. ReservedWriters' /\ StoredByWriter'
    BY <2>1 DEF ReservedWriters, StoredByWriter
  <2> QED
    BY <2>2, <2>3, <2>4
<1>5. CASE LinkQueued(w)
  <2>1. /\ writers' = writers \ {w} /\ w.hash \in blobs \cup exposed
        /\ w.id \in Id /\ w.hash \in Hash
        /\ links' = links \cup {[hash |-> w.hash, id |-> w.id]}
        /\ commits' = commits \cup {w.hash}
        /\ reserves' \subseteq reserves
        /\ \A k \in reserves : k.scope = "account" => k \in reserves'
        /\ UNCHANGED <<now, blobs, purge, used, failures, exposed>>
    BY <1>0, <1>5 DEF LinkQueued, StoredByWriter, Writer
  <2>2. TypeOK'
    BY <2>1 DEF TypeOK, Link
  <2>3. LinkedBlobExists' /\ HeldBlobExists' /\ HoldsHaveAccount' /\ ReservesSeen'
        /\ GarbageIsDead' /\ CommittedBlobs' /\ ExpiredLapsed'
    BY <1>0, <2>1 DEF LinkedBlobExists, HeldBlobExists, HoldsHaveAccount, ReservesSeen,
                GarbageIsDead, CommittedBlobs, ExpiredLapsed
  <2>4. ReservedWriters' /\ StoredByWriter'
    BY <2>1 DEF ReservedWriters, StoredByWriter
  <2> QED
    BY <2>2, <2>3, <2>4
<1>6. CASE Abandon(w)
  BY <1>6 DEF Abandon, TypeOK, LinkedBlobExists, HeldBlobExists, HoldsHaveAccount,
              ReservedWriters, ReservesSeen, GarbageIsDead, CommittedBlobs, StoredByWriter,
              ExpiredLapsed
<1> QED
  BY <1>1, <1>2, <1>3, <1>4, <1>5, <1>6 DEF Write

\* Deleting a document or a queued message; the blob that is held was linked.
LEMMA UnlinkStep ==
  ASSUME Inv, NEW l \in links, Unlink(l)
  PROVE  Inv'
<1> USE BlobAssumption DEF Inv, Safe
<1> DEFINE key == [scope |-> "account", hash |-> l.hash, until |-> now + Retention, held |-> TRUE]
<1>0. key \in Reserve /\ l.hash \in blobs \cup exposed /\ l.hash \in Hash
  BY DEF TypeOK, Link, Reserve, LinkedBlobExists
<1>1. /\ links' = links \ {l}
      /\ UNCHANGED <<now, blobs, commits, writers, purge, used, failures>>
      /\ exposed \subseteq exposed' /\ exposed' \subseteq exposed \cup {l.hash}
      /\ \/ reserves' = reserves
         \/ reserves' = reserves \cup {key} /\ (Late(l.hash) => l.hash \in exposed')
  BY DEF Unlink, ExposeLate
<1>2. TypeOK' /\ LinkedBlobExists' /\ GarbageIsDead' /\ CommittedBlobs' /\ StoredByWriter'
      /\ ExpiredLapsed'
  BY <1>0, <1>1 DEF TypeOK, LinkedBlobExists, GarbageIsDead, CommittedBlobs, StoredByWriter,
                    ExpiredLapsed
<1>3. HeldBlobExists' /\ HoldsHaveAccount' /\ ReservedWriters'
  BY <1>0, <1>1 DEF HeldBlobExists, HoldsHaveAccount, ReservedWriters
<1>4. ReservesSeen'
  BY <1>0, <1>1 DEF ReservesSeen, Late, GarbageIsDead
<1> QED
  BY <1>2, <1>3, <1>4

\* The purge: its two scans, the deletion of the blobs and of the keys.
LEMMA PurgeStepInv ==
  ASSUME Inv, PurgeStep \/ FailPurge
  PROVE  Inv'
<1> USE DEF Inv, Safe
<1>0. purge \in Purge
  BY DEF TypeOK
<1>1. CASE ScanReserves
  <2> DEFINE seen == {k \in reserves : k.scope = "account"}
  <2> DEFINE lapsed == {k \in seen : k.until <= now}
  <2> DEFINE live == {k.hash : k \in {j \in seen : j.until > now}}
  <2>1. /\ purge' = [purge EXCEPT !.pc = "links", !.expired = lapsed, !.active = live]
        /\ UNCHANGED <<now, blobs, commits, links, reserves, writers, used, failures, exposed>>
        /\ purge.pc = "idle"
    BY <1>1 DEF ScanReserves
  <2>2. lapsed \subseteq Reserve /\ live \subseteq Hash
    BY DEF TypeOK, Reserve
  <2>3. /\ purge'.pc = "links" /\ purge'.expired = lapsed /\ purge'.active = live
        /\ purge'.garbage = purge.garbage /\ purge'.todo = purge.todo
        /\ purge' \in Purge /\ purge.garbage = {}
    BY <1>0, <2>1, <2>2 DEF Purge, GarbageIsDead
  <2>4. TypeOK' /\ LinkedBlobExists' /\ HeldBlobExists' /\ HoldsHaveAccount' /\ ReservedWriters'
        /\ GarbageIsDead' /\ CommittedBlobs' /\ StoredByWriter'
    BY <2>1, <2>3 DEF TypeOK, LinkedBlobExists, HeldBlobExists, HoldsHaveAccount,
                      ReservedWriters, GarbageIsDead, CommittedBlobs, StoredByWriter
  <2>5. ReservesSeen' /\ ExpiredLapsed'
    BY <2>1, <2>3 DEF ReservesSeen, ExpiredLapsed
  <2> QED
    BY <2>4, <2>5
<1>2. CASE ScanLinks
  <2> DEFINE garbage == {h \in Hash : IsGarbage(h)}
  <2> DEFINE bare == {h \in garbage :
               LinksOf(h) # {} \/ \E w \in writers : w.kind = "queue" /\ w.hash = h}
  <2>1. /\ purge' = [purge EXCEPT !.pc = "delete", !.garbage = garbage, !.todo = garbage]
        /\ exposed' = exposed \cup bare
        /\ UNCHANGED <<now, blobs, commits, links, reserves, writers, used, failures>>
        /\ purge.pc = "links"
    BY <1>2 DEF ScanLinks
  <2>2. /\ purge'.pc = "delete" /\ purge'.garbage = garbage /\ purge'.todo = garbage
        /\ purge'.active = purge.active /\ purge'.expired = purge.expired /\ purge' \in Purge
    BY <1>0, <2>1 DEF Purge
  <2>3. \A h \in garbage : h \notin purge.active /\ (LinksOf(h) = {} => h \in commits)
    BY DEF IsGarbage
  <2>4. exposed \subseteq exposed' /\ exposed' \subseteq Hash
    BY <2>1 DEF TypeOK
  <2>5. \A l \in links : l.hash \notin exposed' => l.hash \notin garbage
    BY <2>1 DEF LinksOf
  <2>6. \A k \in reserves : k.scope = "account" /\ k.until > now /\ k.hash \notin exposed'
                              => k.hash \notin garbage
    BY <2>1, <2>3, <2>4 DEF ReservesSeen
  <2>7. \A w \in writers : w.hash \notin exposed' => w.hash \notin garbage
    <3>1. SUFFICES ASSUME NEW w \in writers, w.hash \notin exposed' PROVE w.hash \notin garbage
      OBVIOUS
    <3>2. CASE w.kind = "queue"
      BY <2>1, <3>1, <3>2
    <3>3. CASE w.kind = "account"
      BY <2>4, <2>6, <3>1, <3>3 DEF ReservedWriters
    <3> QED
      BY <3>2, <3>3 DEF TypeOK, Writer
  <2>8. GarbageIsDead'
    <3>1. \A h \in garbage : h \notin exposed' => h \in commits
      BY <2>1, <2>3
    <3> QED
      BY <2>1, <2>2, <2>5, <2>7, <3>1 DEF GarbageIsDead
  <2>9. CommittedBlobs'
    BY <2>1, <2>2, <2>4 DEF CommittedBlobs, GarbageIsDead
  <2>10. TypeOK' /\ LinkedBlobExists' /\ HeldBlobExists' /\ HoldsHaveAccount'
         /\ ReservedWriters' /\ StoredByWriter' /\ ExpiredLapsed'
    BY <2>1, <2>2, <2>4 DEF TypeOK, LinkedBlobExists, HeldBlobExists, HoldsHaveAccount,
                      ReservedWriters, StoredByWriter, ExpiredLapsed
  <2>11. ReservesSeen'
    BY <2>1, <2>2, <2>6 DEF ReservesSeen
  <2> QED
    BY <2>8, <2>9, <2>10, <2>11
<1>3. CASE DeleteBlob
  <2>1. PICK h \in purge.todo : /\ blobs' = blobs \ {h}
                                /\ purge' = [purge EXCEPT !.todo = @ \ {h}]
    BY <1>3 DEF DeleteBlob
  <2>2. /\ UNCHANGED <<now, commits, links, reserves, writers, used, failures, exposed>>
        /\ purge.pc = "delete" /\ h \in purge.garbage
    BY <1>3 DEF DeleteBlob, GarbageIsDead
  <2>3. /\ purge'.pc = "delete" /\ purge'.garbage = purge.garbage
        /\ purge'.todo = purge.todo \ {h} /\ purge'.active = purge.active
        /\ purge'.expired = purge.expired /\ purge' \in Purge
    BY <1>0, <2>1, <2>2 DEF Purge
  <2>4. TypeOK' /\ GarbageIsDead' /\ CommittedBlobs' /\ ReservedWriters' /\ ReservesSeen'
        /\ ExpiredLapsed' /\ HoldsHaveAccount'
    BY <2>1, <2>2, <2>3 DEF TypeOK, HoldsHaveAccount, GarbageIsDead, CommittedBlobs,
                            ReservedWriters, ReservesSeen, ExpiredLapsed
  <2>5. LinkedBlobExists'
    BY <2>1, <2>2 DEF LinkedBlobExists, GarbageIsDead
  <2>6. StoredByWriter'
    BY <2>1, <2>2 DEF StoredByWriter, GarbageIsDead
  <2>7. HeldBlobExists'
    BY <2>1, <2>2 DEF HeldBlobExists, ReservesSeen, HoldsHaveAccount
  <2> QED
    BY <2>4, <2>5, <2>6, <2>7
<1>4. CASE ClearKeys
  <2>1. /\ reserves' = reserves \ purge.expired /\ commits' = commits \ purge.garbage
        /\ purge' = IdlePurge
        /\ UNCHANGED <<now, blobs, links, writers, used, failures, exposed>>
    BY <1>4 DEF ClearKeys
  <2>2. /\ purge'.pc = "idle" /\ purge'.garbage = {} /\ purge'.todo = {}
        /\ purge'.active = {} /\ purge'.expired = {} /\ purge' \in Purge
    BY <2>1 DEF IdlePurge, Purge
  <2>3. TypeOK' /\ LinkedBlobExists' /\ HeldBlobExists' /\ HoldsHaveAccount' /\ ReservesSeen'
        /\ GarbageIsDead' /\ CommittedBlobs' /\ StoredByWriter' /\ ExpiredLapsed'
    BY <2>1, <2>2 DEF TypeOK, LinkedBlobExists, HeldBlobExists, HoldsHaveAccount, ReservesSeen,
                      GarbageIsDead, CommittedBlobs, StoredByWriter, ExpiredLapsed
  <2>4. ReservedWriters'
    <3>1. \A k \in purge.expired : ~(k.until > now)
      BY DEF ExpiredLapsed, TypeOK, Purge, Reserve
    <3> QED
      BY <2>1, <3>1 DEF ReservedWriters
  <2> QED
    BY <2>3, <2>4
<1>5. CASE FailPurge
  <2>1. /\ purge' = IdlePurge /\ failures' = failures + 1
        /\ exposed' = exposed \cup (purge.garbage \ purge.todo)
        /\ UNCHANGED <<now, blobs, commits, links, reserves, writers, used>>
    BY <1>5 DEF FailPurge
  <2>2. /\ purge'.pc = "idle" /\ purge'.garbage = {} /\ purge'.todo = {}
        /\ purge'.active = {} /\ purge'.expired = {} /\ purge' \in Purge
        /\ purge.garbage \subseteq Hash
    BY <1>0, <2>1 DEF IdlePurge, Purge
  <2> QED
    BY <2>1, <2>2 DEF TypeOK, LinkedBlobExists, HeldBlobExists, HoldsHaveAccount,
                      ReservedWriters, ReservesSeen, GarbageIsDead, CommittedBlobs,
                      StoredByWriter, ExpiredLapsed
<1> QED
  BY <1>1, <1>2, <1>3, <1>4, <1>5 DEF PurgeStep

\* Time: reservations lapse, and a request that is still at work is exposed.
LEMMA TickStep ==
  ASSUME Inv, Tick
  PROVE  Inv'
<1> USE DEF Inv, Safe
<1>1. /\ now' = now + 1 /\ now \in Nat
      /\ exposed' = exposed \cup {w.hash : w \in {v \in writers : v.until <= now + 1}}
      /\ UNCHANGED <<blobs, commits, links, reserves, writers, purge, used, failures>>
  BY DEF Tick, TypeOK
<1>2. /\ exposed \subseteq exposed' /\ exposed' \subseteq Hash
      /\ \A w \in writers : w.hash \notin exposed' => w.until > now'
  BY <1>1 DEF TypeOK, Writer
<1>3. /\ \A k \in reserves : k.until \in Nat /\ (k.until > now' => k.until > now)
      /\ \A k \in purge.expired : k.until \in Nat
  BY <1>1 DEF TypeOK, Reserve, Purge
<1>4. TypeOK' /\ LinkedBlobExists' /\ HeldBlobExists' /\ HoldsHaveAccount' /\ GarbageIsDead'
      /\ CommittedBlobs' /\ StoredByWriter'
  BY <1>1, <1>2, <1>3 DEF TypeOK, LinkedBlobExists, HeldBlobExists, HoldsHaveAccount,
                    GarbageIsDead, CommittedBlobs, StoredByWriter
<1>5. ReservedWriters' /\ ReservesSeen' /\ ExpiredLapsed'
  BY <1>1, <1>2, <1>3 DEF ReservedWriters, ReservesSeen, ExpiredLapsed
<1> QED
  BY <1>4, <1>5

\* The invariant of the blob store, about contents that are not exposed:
\* reservations protect requests at work, the purge's garbage is dead, a Commit
\* key means a stored blob (put_blob, Message::queue, purge_blobs).
THEOREM BlobInvariant == Spec => []Inv
<1>1. Init => Inv
  BY InitInv
<1>2. Inv /\ [Next]_vars => Inv'
  <2>1. SUFFICES ASSUME Inv, [Next]_vars PROVE Inv'
    OBVIOUS
  <2>2. CASE Next
    BY <2>1, <2>2, ReserveForStep, ReserveForQueueStep, WriteStep, UnlinkStep, PurgeStepInv,
       TickStep DEF Next
  <2>3. CASE UNCHANGED vars
    BY <2>1, <2>3 DEF vars, Inv, Safe, TypeOK, LinkedBlobExists, HeldBlobExists,
       HoldsHaveAccount, ReservedWriters, ReservesSeen, GarbageIsDead, CommittedBlobs,
       StoredByWriter, ExpiredLapsed
  <2> QED
    BY <2>1, <2>2, <2>3
<1> QED
  BY <1>1, <1>2, PTL DEF Spec

\* Linked contents are there or are exposed: purge_blobs deletes nothing else
\* that a document or a queued message refers to, and put_blob links nothing
\* else that is gone.
THEOREM LinkedBlobsAreSafe == Spec => []LinkedBlobExists
<1>1. Inv => LinkedBlobExists
  BY DEF Inv
<1> QED
  BY <1>1, BlobInvariant, PTL

\* What hold_undelete keeps can be restored until its retention time ends,
\* unless it is exposed.
THEOREM HeldBlobsAreSafe == Spec => []HeldBlobExists
<1>1. Inv => HeldBlobExists
  BY DEF Inv
<1> QED
  BY <1>1, BlobInvariant, PTL
===============================================================================
