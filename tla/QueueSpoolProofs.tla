--------------------------- MODULE QueueSpoolProofs ---------------------------
(***************************************************************************)
(* Proofs about QueueSpool for any number of nodes and messages, any       *)
(* configuration, any contents of the store and any number of faults.      *)
(*                                                                         *)
(* First the spool: a message has one worker at a time, is never stranded, *)
(* and does not come back once it is gone; the copies workers change never *)
(* forget what the spool records as final, so nobody is delivered to again *)
(* whom the spool holds as delivered; the quota counters count what is in  *)
(* the spool; and the managers count their workers.                        *)
(*                                                                         *)
(* Then the fate of each recipient: a message is looked at again no later  *)
(* than its retry schedule says, no recipient is lost silently, and a      *)
(* sender is told once.  There the first lemmas say what each operation of *)
(* QueueMessage does to a message, in terms of the statuses and marks of   *)
(* its domains and recipients, and the next ones what each step of the     *)
(* queue does to the versions of a message, the one in the spool and the   *)
(* copy of the worker at it.                                               *)
(***************************************************************************)
EXTENDS QueueSpool, FiniteSetTheorems, WellFoundedInduction, TLAPS

\* Workers end before their lock expires, no management request interferes, a
\* failed read is not mistaken for a missing message, and the times the clock
\* reaches are told apart.
Sound ==
    /\ ~AttemptsOutliveLocks /\ ApiOps = {} /\ "read" \notin Faults
    /\ MaxTime < Horizon /\ MaxTime > 0

\* The empty spool satisfies the invariant.
LEMMA InitInv == ASSUME Sound PROVE Init => SpoolInv
  BY SpoolAssumption DEF Sound, Init, SpoolInv, SpoolTypes, KnownIds, LockHeld,
     OneWorkerPerMessage, WorkersAgree, NoStrandedMessage

\* A step that leaves the spool and the locks alone, and starts workers only
\* for events that are in the spool, or ends some.
LEMMA QuietStep ==
  ASSUME Sound, SpoolInv, UNCHANGED <<now, message, events, lock, queued, api>>,
         \A w \in workers' : w \in workers \/ (\E n \in Node, e \in events : w = NewWorker(n, e))
  PROVE  SpoolInv'
<1> USE DEF SpoolInv
<1>1. \A w \in workers' : w \in workers \/
        (HasWorkerFields(w) /\ w.until = 0 /\ w.pc = "lock" /\ w.q \in queued)
  BY DEF NewWorker, HasWorkerFields, KnownIds
<1>2. SpoolTypes'
  BY <1>1 DEF SpoolTypes
<1>3. KnownIds'
  BY <1>1 DEF KnownIds
<1>4. \A w \in workers' : w.pc \in Working \/ w.pc = "orphan" => w \in workers
  BY <1>1 DEF Working
<1>5. LockHeld' /\ OneWorkerPerMessage' /\ NoStrandedMessage'
  BY <1>4 DEF LockHeld, OneWorkerPerMessage, NoStrandedMessage
<1>6. WorkersAgree'
  BY <1>4 DEF WorkersAgree, Working
<1> QED
  BY <1>2, <1>3, <1>5, <1>6

\* The loop of a manager starts workers for events it scanned.
LEMMA DeliverStarts ==
  ASSUME NEW n \in Node, NEW g, NEW refresh, Deliver(n, g, refresh)
  PROVE  \A w \in workers' : w \in workers \/ (\E e \in events : w = NewWorker(n, e))
<1>1. CASE workers' = workers
  BY <1>1
<1>2. ASSUME NEW scan, scan.due \subseteq events, ProcessQueue(n, g, scan)
      PROVE  \A w \in workers' : w \in workers \/ (\E e \in events : w = NewWorker(n, e))
  BY <1>2 DEF ProcessQueue
<1>3. \A scan \in FullScans \cup PartialScans : scan.due \subseteq events
  BY DEF FullScans, PartialScans
<1> QED
  BY <1>1, <1>2, <1>3 DEF Deliver, Sleep

\* A turn of a manager's loop, woken by its channel or by the clock.
LEMMA ManagerStep ==
  ASSUME Sound, SpoolInv, NEW n \in Node, Receive(n) \/ WakeUp(n)
  PROVE  SpoolInv'
<1>1. UNCHANGED <<now, message, events, lock, queued, api>>
  BY DEF Receive, WakeUp, store, history
<1>2. \A w \in workers' : w \in workers \/ (\E e \in events : w = NewWorker(n, e))
  BY DeliverStarts DEF Receive, WakeUp
<1> QED
  BY <1>1, <1>2, QuietStep

\* Queueing a message, submitted or generated, beside a worker that changes.
LEMMA QueueStep ==
  ASSUME SpoolInv, NEW q \in QueueId \ queued, NEW m, Queue(q, m)
  PROVE  /\ DOMAIN message' = QueueId /\ queued' \subseteq QueueId /\ queued \subseteq queued'
         /\ \A p \in QueueId : p # q => message'[p] = message[p]
         /\ \A e \in events' : e.q \in queued'
         /\ \A p \in QueueId : message'[p] # NoMessage => p \in queued'
         /\ NoStrandedMessage'
<1> USE DEF SpoolInv
<1>1. /\ message' = [message EXCEPT ![q] = m] /\ DOMAIN message = QueueId
      /\ queued' = queued \cup {q} /\ queued \subseteq QueueId
  BY DEF Queue, SpoolTypes, KnownIds
<1> DEFINE new == [q |-> q, due |-> NextEvent(m)]
<1>2. events' = events \cup {new} /\ new.q = q
  BY DEF Queue
<1> HIDE DEF new
<1>3. DOMAIN message' = QueueId /\ \A p \in QueueId : p # q => message'[p] = message[p]
  BY <1>1
<1>4. \A f \in events' : f.q \in queued'
  BY <1>1, <1>2 DEF KnownIds
<1>5. NoStrandedMessage'
  BY <1>2, <1>3 DEF NoStrandedMessage
<1> QED
  BY <1>1, <1>3, <1>4, <1>5 DEF KnownIds

\* A session accepts a message.
LEMMA SubmitStep ==
  ASSUME Sound, SpoolInv, NEW n \in Node, Submit(n)
  PROVE  SpoolInv'
<1> USE DEF SpoolInv
<1>1. PICK q \in QueueId \ queued, env \in Envelopes : Queue(q, BuildMessage(env, now))
  BY DEF Submit
<1>2. UNCHANGED <<now, lock, workers, api>>
  BY DEF Submit
<1>3. /\ DOMAIN message' = QueueId /\ queued' \subseteq QueueId /\ queued \subseteq queued'
      /\ \A p \in QueueId : p # q => message'[p] = message[p]
      /\ \A e \in events' : e.q \in queued'
      /\ \A p \in QueueId : message'[p] # NoMessage => p \in queued'
      /\ NoStrandedMessage'
  BY <1>1, QueueStep
<1>4. SpoolTypes' /\ KnownIds' /\ LockHeld' /\ OneWorkerPerMessage'
  BY <1>2, <1>3 DEF SpoolTypes, KnownIds, LockHeld, OneWorkerPerMessage
<1>5. \A w \in workers : w.q \in QueueId /\ w.q # q
  BY <1>1 DEF KnownIds
<1>6. WorkersAgree'
  BY <1>2, <1>3, <1>5 DEF WorkersAgree
<1> QED
  BY <1>3, <1>4, <1>6

\* A shutdown request, and a crash and restart.
LEMMA NodeStep ==
  ASSUME Sound, SpoolInv, NEW n \in Node, Shutdown(n) \/ Restart(n)
  PROVE  SpoolInv'
<1>1. UNCHANGED <<now, message, events, lock, queued, api>> /\ workers' \subseteq workers
  BY DEF Shutdown, Restart, store, history, SpoolInv, SpoolTypes
<1> QED
  BY <1>1, QuietStep

\* Time: no lock of a worker at work expires.
LEMMA TickStep ==
  ASSUME Sound, SpoolInv, Tick
  PROVE  SpoolInv'
<1> USE DEF SpoolInv
<1>1. /\ now \in 1 .. MaxTime /\ now < MaxTime /\ now' = now + 1
      /\ \A w \in workers : w.pc \in Working => ~(w.until <= now + 1)
      /\ UNCHANGED <<message, events, lock, workers, queued, api>>
  BY DEF Tick, LockLost, Sound, store, history, SpoolTypes
<1>2. SpoolTypes' /\ KnownIds' /\ OneWorkerPerMessage' /\ WorkersAgree' /\ NoStrandedMessage'
  BY <1>1, SpoolAssumption
     DEF SpoolTypes, KnownIds, OneWorkerPerMessage, WorkersAgree, NoStrandedMessage
<1>3. LockHeld'
  BY <1>1 DEF LockHeld, SpoolTypes
<1> QED
  BY <1>2, <1>3

-------------------------------------------------------------------------------
(* The worker.  Its record is replaced; what the steps keep of it is stated once. *)

\* The steps before the last write keep the message a worker is for and its
\* lock, and leave what other workers rely on alone.
LEMMA SameLock ==
  ASSUME SpoolInv, NEW w \in workers, NEW v,
         workers' = (workers \ {w}) \cup {v}, UNCHANGED <<now, lock, api>>,
         HasWorkerFields(v), v.q = w.q, v.until = w.until,
         v.pc \in Working, w.pc \in Working
  PROVE  LockHeld' /\ OneWorkerPerMessage'
<1>1. LockHeld'
  BY DEF SpoolInv, LockHeld
<1>2. OneWorkerPerMessage'
  BY DEF SpoolInv, OneWorkerPerMessage
<1> QED
  BY <1>1, <1>2

\* A worker takes the lock, or is refused.
LEMMA TryLockStep ==
  ASSUME Sound, SpoolInv, NEW w \in workers, TryLock(w)
  PROVE  SpoolInv'
<1> USE DEF SpoolInv
<1>0. /\ HasWorkerFields(w) /\ w.q \in QueueId /\ now \in 1 .. MaxTime /\ w.pc = "lock"
      /\ UNCHANGED <<now, message, events, queued, api>>
  BY DEF SpoolTypes, KnownIds, TryLock, store, history
<1>1. CASE lock[w.q] <= now /\ lock' = [lock EXCEPT ![w.q] = At(now + LockExpiry)]
           /\ Becomes(w, [w EXCEPT !.pc = "read", !.until = At(now + LockExpiry)])
  <2> DEFINE v == [w EXCEPT !.pc = "read", !.until = At(now + LockExpiry)]
  <2>1. At(now + LockExpiry) \in Nat /\ At(now + LockExpiry) > now
    BY <1>0, SpoolAssumption, MessageAssumption DEF At, Sound
  <2>2. /\ HasWorkerFields(v) /\ v.q = w.q /\ v.pc = "read" /\ v.until = At(now + LockExpiry)
        /\ workers' = (workers \ {w}) \cup {v}
    BY <1>0, <1>1 DEF HasWorkerFields, Becomes
  <2> HIDE DEF v
  <2>3. \A u \in workers : u.pc \in Working => u.q # w.q
    BY <1>0, <1>1 DEF LockHeld, SpoolTypes
  <2>4. /\ lock' \in [QueueId -> Nat] /\ lock'[w.q] = v.until
        /\ \A q \in QueueId : q # w.q => lock'[q] = lock[q]
    BY <1>0, <1>1, <2>1, <2>2 DEF SpoolTypes
  <2>5. SpoolTypes'
    BY <1>0, <2>1, <2>2, <2>4 DEF SpoolTypes, Working
  <2>6. KnownIds' /\ NoStrandedMessage'
    BY <1>0, <2>2 DEF KnownIds, NoStrandedMessage
  <2>7. LockHeld'
    BY <1>0, <2>1, <2>2, <2>3, <2>4 DEF LockHeld, KnownIds
  <2>8. OneWorkerPerMessage'
    BY <2>2, <2>3 DEF OneWorkerPerMessage
  <2>9. WorkersAgree'
    BY <1>0, <2>2 DEF WorkersAgree
  <2> QED
    BY <2>5, <2>6, <2>7, <2>8, <2>9
<1>2. CASE UNCHANGED lock
           /\ Becomes(w, [w EXCEPT !.pc = "done", !.status = "Locked",
                                   !.until = At(now + LockExpiry + LockBackoff)])
  <2> DEFINE v == [w EXCEPT !.pc = "done", !.status = "Locked",
                            !.until = At(now + LockExpiry + LockBackoff)]
  <2>1. At(now + LockExpiry + LockBackoff) \in Nat
    BY <1>0, SpoolAssumption, MessageAssumption DEF At, Sound
  <2>2. /\ HasWorkerFields(v) /\ v.q = w.q /\ v.pc = "done" /\ v.until \in Nat
        /\ workers' = (workers \ {w}) \cup {v} /\ v.pc \notin Working
    BY <1>0, <1>2, <2>1 DEF HasWorkerFields, Becomes, Working
  <2> HIDE DEF v
  <2>3. SpoolTypes' /\ KnownIds' /\ NoStrandedMessage'
    BY <1>0, <1>2, <2>2 DEF SpoolTypes, KnownIds, NoStrandedMessage
  <2>4. LockHeld' /\ OneWorkerPerMessage' /\ WorkersAgree'
    BY <1>0, <1>2, <2>2 DEF LockHeld, OneWorkerPerMessage, WorkersAgree
  <2> QED
    BY <2>3, <2>4
<1> QED
  BY <1>1, <1>2 DEF TryLock

\* A worker finds no message.
LEMMA ReadNothingStep ==
  ASSUME Sound, SpoolInv, NEW w \in workers, ReadNothing(w)
  PROVE  SpoolInv'
<1> USE DEF SpoolInv
<1> DEFINE v == [w EXCEPT !.pc = "orphan", !.status = "Completed"]
<1>1. HasWorkerFields(w) /\ w.q \in QueueId
  BY DEF SpoolTypes, KnownIds
<1>2. /\ w.pc = "read" /\ message[w.q] = NoMessage
      /\ UNCHANGED <<now, message, events, lock, queued, api>>
  BY DEF ReadNothing, UseFault, Sound, store, history
<1>3. /\ HasWorkerFields(v) /\ v.q = w.q /\ v.pc = "orphan" /\ v.until = w.until
      /\ workers' = (workers \ {w}) \cup {v}
  BY <1>1 DEF HasWorkerFields, ReadNothing, Becomes
<1> HIDE DEF v
<1>4. SpoolTypes' /\ KnownIds' /\ NoStrandedMessage' /\ WorkersAgree'
  BY <1>2, <1>3 DEF SpoolTypes, KnownIds, NoStrandedMessage, WorkersAgree, Working
<1>5. LockHeld' /\ OneWorkerPerMessage'
  BY <1>2, <1>3, SameLock DEF Working
<1> QED
  BY <1>4, <1>5

\* A notification, when one is sent, is queued under a new id.
LEMMA SendDsnQueues ==
  ASSUME NEW w, NEW m, SendDsn(w, m)
  PROVE  \/ UNCHANGED <<message, events, queued>>
         \/ \E q \in QueueId \ queued : \E n : Queue(q, n)
  BY DEF SendDsn, store

\* A worker that has read its message goes on with it, and may queue another.
LEMMA TaskStep ==
  ASSUME SpoolInv, NEW w \in workers, NEW v,
         workers' = (workers \ {w}) \cup {v}, UNCHANGED <<now, lock, api>>,
         HasWorkerFields(v), v.q = w.q, v.until = w.until,
         v.pc \in {"attempt", "save", "remove"}, w.pc \in Working,
         message[w.q] # NoMessage,
         \/ UNCHANGED <<message, events, queued>>
         \/ \E q \in QueueId \ queued : \E n : Queue(q, n)
  PROVE  SpoolInv'
<1> USE DEF SpoolInv
<1>1. LockHeld' /\ OneWorkerPerMessage'
  BY SameLock DEF Working
<1>2. w.q \in queued /\ w.q \in QueueId
  BY DEF KnownIds
<1>3. CASE UNCHANGED <<message, events, queued>>
  <2>1. SpoolTypes' /\ KnownIds' /\ NoStrandedMessage'
    BY <1>2, <1>3 DEF SpoolTypes, KnownIds, NoStrandedMessage, Working
  <2>2. WorkersAgree'
    BY <1>3 DEF WorkersAgree
  <2> QED
    BY <1>1, <2>1, <2>2
<1>4. CASE \E q \in QueueId \ queued : \E n : Queue(q, n)
  <2> PICK q \in QueueId \ queued : \E n : Queue(q, n)
    BY <1>4
  <2>1. PICK n : Queue(q, n)
    OBVIOUS
  <2>2. /\ DOMAIN message' = QueueId /\ queued' \subseteq QueueId /\ queued \subseteq queued'
        /\ \A p \in QueueId : p # q => message'[p] = message[p]
        /\ \A e \in events' : e.q \in queued'
        /\ \A p \in QueueId : message'[p] # NoMessage => p \in queued'
        /\ NoStrandedMessage'
    BY <2>1, QueueStep
  <2>3. SpoolTypes' /\ KnownIds'
    BY <1>2, <2>2 DEF SpoolTypes, KnownIds, Working
  <2>4. \A u \in workers' : u.q \in QueueId /\ message'[u.q] = message[u.q]
    BY <1>2, <2>1, <2>2 DEF KnownIds
  <2>5. WorkersAgree'
    BY <2>4 DEF WorkersAgree
  <2> QED
    BY <1>1, <2>2, <2>3, <2>5
<1> QED
  BY <1>3, <1>4

\* The records a worker goes on with.
Goes(w, v) ==
    /\ HasWorkerFields(v) /\ v.q = w.q /\ v.until = w.until
    /\ v.pc \in {"attempt", "save", "remove"}

\* deliver_task up to the delivery: the message is put back, removed or tried.
LEMMA StartTaskStep ==
  ASSUME SpoolInv, NEW w \in workers, StartTask(w)
  PROVE  SpoolInv'
<1> DEFINE p == HasPendingDelivery(message[w.q], now)
<1> DEFINE m == AfterDsn(p, now)
<1> HIDE DEF p, m
<1>1. /\ w.pc = "read" /\ message[w.q] # NoMessage /\ SendDsn(w, p)
      /\ UNCHANGED <<now, lock, api>> /\ HasWorkerFields(w) /\ w.pc \in Working
  BY DEF StartTask, p, SpoolInv, SpoolTypes, Working
<1>2. \/ Becomes(w, [w EXCEPT !.pc = "remove", !.msg = m, !.status = "Completed"])
      \/ \E t : Becomes(w, [w EXCEPT !.pc = "save", !.msg = m, !.next = t, !.status = "Deferred"])
      \/ Becomes(w, [w EXCEPT !.pc = "attempt", !.msg = m, !.todo = DOMAIN m.domains])
  BY DEF StartTask, p, m
<1>3. PICK v : Becomes(w, v) /\ Goes(w, v)
  <2>1. Goes(w, [w EXCEPT !.pc = "remove", !.msg = m, !.status = "Completed"])
    BY <1>1 DEF HasWorkerFields, Goes
  <2>2. \A t : Goes(w, [w EXCEPT !.pc = "save", !.msg = m, !.next = t, !.status = "Deferred"])
    BY <1>1 DEF HasWorkerFields, Goes
  <2>3. Goes(w, [w EXCEPT !.pc = "attempt", !.msg = m, !.todo = DOMAIN m.domains])
    BY <1>1 DEF HasWorkerFields, Goes
  <2> QED
    BY <1>2, <2>1, <2>2, <2>3
<1>4. \/ UNCHANGED <<message, events, queued>>
      \/ \E q \in QueueId \ queued : \E n : Queue(q, n)
  BY <1>1, SendDsnQueues
<1> QED
  BY <1>1, <1>3, <1>4, TaskStep DEF Becomes, Goes

\* The delivery of one domain.
LEMMA AttemptStep ==
  ASSUME SpoolInv, NEW w \in workers, Attempt(w)
  PROVE  SpoolInv'
<1>1. /\ w.pc = "attempt" /\ message[w.q] # NoMessage
      /\ UNCHANGED <<now, lock, api>> /\ HasWorkerFields(w) /\ w.pc \in Working
  BY DEF Attempt, SpoolInv, SpoolTypes, WorkersAgree, Working
<1>2. \E m, todo, next :
        \/ /\ Becomes(w, [w EXCEPT !.msg = m, !.todo = todo])
           /\ UNCHANGED <<message, events, queued>>
        \/ /\ \E n : SendDsn(w, n)
           /\ \/ Becomes(w, [w EXCEPT !.pc = "save", !.msg = m, !.todo = todo, !.next = next,
                                      !.status = "Deferred"])
              \/ Becomes(w, [w EXCEPT !.pc = "remove", !.msg = m, !.todo = todo,
                                      !.status = "Completed"])
  <2>1. PICK d, res :
          \/ /\ Becomes(w, [w EXCEPT !.msg = res.msg, !.todo = @ \ {d}])
             /\ UNCHANGED <<message, events, queued>>
          \/ /\ SendDsn(w, res.msg)
             /\ Becomes(w, [w EXCEPT !.pc = "save", !.msg = AfterDsn(res.msg, now), !.todo = {},
                                     !.next = NextEvent(AfterDsn(res.msg, now)),
                                     !.status = "Deferred"])
          \/ /\ SendDsn(w, res.msg)
             /\ Becomes(w, [w EXCEPT !.pc = "remove", !.msg = AfterDsn(res.msg, now), !.todo = {},
                                     !.status = "Completed"])
    BY DEF Attempt, store
  <2>2. [w EXCEPT !.msg = res.msg, !.todo = @ \ {d}]
          = [w EXCEPT !.msg = res.msg, !.todo = w.todo \ {d}]
    BY <1>1 DEF HasWorkerFields
  <2> QED
    BY <2>1, <2>2
<1>3. PICK v : Becomes(w, v) /\ Goes(w, v)
  <2>1. PICK m, todo, next :
          \/ Becomes(w, [w EXCEPT !.msg = m, !.todo = todo])
          \/ Becomes(w, [w EXCEPT !.pc = "save", !.msg = m, !.todo = todo, !.next = next,
                                  !.status = "Deferred"])
          \/ Becomes(w, [w EXCEPT !.pc = "remove", !.msg = m, !.todo = todo,
                                  !.status = "Completed"])
    BY <1>2
  <2>2. Goes(w, [w EXCEPT !.msg = m, !.todo = todo])
    BY <1>1 DEF HasWorkerFields, Goes
  <2>3. Goes(w, [w EXCEPT !.pc = "save", !.msg = m, !.todo = todo, !.next = next,
                          !.status = "Deferred"])
    BY <1>1 DEF HasWorkerFields, Goes
  <2>4. Goes(w, [w EXCEPT !.pc = "remove", !.msg = m, !.todo = todo, !.status = "Completed"])
    BY <1>1 DEF HasWorkerFields, Goes
  <2> QED
    BY <2>1, <2>2, <2>3, <2>4
<1>4. \/ UNCHANGED <<message, events, queued>>
      \/ \E q \in QueueId \ queued : \E n : Queue(q, n)
  BY <1>2, SendDsnQueues
<1> QED
  BY <1>1, <1>3, <1>4, TaskStep DEF Becomes, Goes

\* The worker's last write.
LEMMA WriteStep ==
  ASSUME SpoolInv, NEW w \in workers, Write(w)
  PROVE  SpoolInv'
<1> USE DEF SpoolInv
<1> DEFINE v == [w EXCEPT !.pc = "unlock", !.msg = NoMessage, !.next = 0]
<1>1. /\ HasWorkerFields(w) /\ w.q \in queued /\ w.q \in QueueId
      /\ w.pc \in {"save", "remove", "orphan"} /\ w.pc \in Working
      /\ UNCHANGED <<now, lock, api, queued>>
  BY DEF Write, SpoolTypes, KnownIds, Working, history
<1>2. /\ HasWorkerFields(v) /\ v.q = w.q /\ v.until = w.until /\ v.pc = "unlock"
      /\ workers' = (workers \ {w}) \cup {v}
  BY <1>1 DEF Write, Becomes, HasWorkerFields
<1> HIDE DEF v
<1>3. LockHeld' /\ OneWorkerPerMessage'
  BY <1>1, <1>2, SameLock DEF Working
<1>4. /\ DOMAIN message' = QueueId
      /\ \A q \in QueueId : q # w.q => message'[q] = message[q]
      /\ \A e \in events' : e \in events \/ e.q = w.q
      /\ \A e \in events : e.q # w.q => e \in events'
      /\ message'[w.q] # NoMessage => \E e \in events' : e.q = w.q
  <2>1. CASE w.pc = "save" /\ SaveChanges(w.q, w.msg, w.due, w.next)
    <3> DEFINE new == [q |-> w.q, due |-> w.next]
    <3> DEFINE old == [q |-> w.q, due |-> w.due]
    <3>1. /\ events' = (events \ {old}) \cup {new} /\ old.q = w.q /\ new.q = w.q
          /\ message' = [message EXCEPT ![w.q] = ReleaseQuota(w.msg)]
      BY <2>1 DEF SaveChanges
    <3> HIDE DEF new, old
    <3> QED
      BY <1>1, <3>1 DEF SpoolTypes
  <2>2. CASE w.pc = "remove" /\ RemoveMessage(w.q, w.msg, w.due)
    BY <1>1, <2>2 DEF RemoveMessage, SpoolTypes
  <2>3. CASE w.pc = "orphan" /\ events' = events \ {[q |-> w.q, due |-> w.due]}
             /\ UNCHANGED <<message, quota>>
    BY <1>1, <2>3 DEF SpoolTypes, WorkersAgree
  <2>4. CASE UNCHANGED store
    BY <1>1, <2>4 DEF store, SpoolTypes, NoStrandedMessage
  <2> QED
    BY <2>1, <2>2, <2>3, <2>4 DEF Write
<1>5. SpoolTypes' /\ KnownIds'
  BY <1>1, <1>2, <1>4 DEF SpoolTypes, KnownIds, Working
<1>6. NoStrandedMessage'
  BY <1>1, <1>4 DEF NoStrandedMessage
<1>7. WorkersAgree'
  <2>1. \A u \in workers' : u.pc \in Working /\ u # v => u.q # w.q
    BY <1>1, <1>2 DEF OneWorkerPerMessage
  <2> QED
    BY <1>1, <1>2, <1>4, <2>1 DEF WorkersAgree, KnownIds, Working
<1> QED
  BY <1>3, <1>5, <1>6, <1>7

\* The worker unlocks and reports.
LEMMA FinishStep ==
  ASSUME SpoolInv, NEW w \in workers, Finish(w)
  PROVE  SpoolInv'
<1> USE DEF SpoolInv
<1>1. /\ workers' = workers \ {w} /\ w.q \in QueueId
      /\ UNCHANGED <<now, message, events, queued, api>>
      /\ \/ w.pc = "unlock" /\ lock' = [lock EXCEPT ![w.q] = 0]
         \/ UNCHANGED lock
  BY DEF Finish, KnownIds, store, history
<1>2. SpoolTypes' /\ KnownIds' /\ OneWorkerPerMessage' /\ WorkersAgree' /\ NoStrandedMessage'
  BY <1>1 DEF SpoolTypes, KnownIds, OneWorkerPerMessage, WorkersAgree, NoStrandedMessage
<1>3. LockHeld'
  <2>1. CASE UNCHANGED lock
    BY <1>1, <2>1 DEF LockHeld
  <2>2. CASE w.pc = "unlock" /\ lock' = [lock EXCEPT ![w.q] = 0]
    <3>1. \A u \in workers' : u.pc \in Working => u.q # w.q /\ u.q \in QueueId
      BY <1>1, <2>2 DEF OneWorkerPerMessage, KnownIds, Working
    <3> QED
      BY <1>1, <2>2, <3>1 DEF LockHeld, SpoolTypes
  <2> QED
    BY <1>1, <2>1, <2>2
<1> QED
  BY <1>2, <1>3

\* Without management requests, their steps do not happen.
LEMMA NoApiStep ==
  ASSUME Sound, SpoolInv, NEW n \in Node
  PROVE  ~HandleManageQueue(n) /\ ~Api
  BY DEF Sound, SpoolInv, SpoolTypes, IdleApi, HandleManageQueue, StartRequest, SetQueueStatus, Api,
         ReadRequest, WriteRequest, EndRequest

-------------------------------------------------------------------------------
(* The theorems. *)

\* Every step keeps the invariant, one case per action.
LEMMA NextInv ==
  ASSUME Sound, SpoolInv, [Next]_vars
  PROVE  SpoolInv'
<1>1. CASE UNCHANGED vars
  BY <1>1, QuietStep DEF vars
<1>2. ASSUME NEW w \in workers, Work(w) PROVE SpoolInv'
  BY <1>2, TryLockStep, ReadNothingStep, StartTaskStep, AttemptStep, WriteStep, FinishStep
     DEF Work
<1>3. ASSUME NEW n \in Node,
             Submit(n) \/ Receive(n) \/ WakeUp(n) \/ Shutdown(n) \/ Restart(n)
      PROVE  SpoolInv'
  BY <1>3, SubmitStep, ManagerStep, NodeStep
<1>4. ~Api
  BY DEF Sound, SpoolInv, SpoolTypes, IdleApi, Api, ReadRequest, WriteRequest, EndRequest
<1>5. CASE Next
  BY <1>2, <1>3, <1>4, <1>5, TickStep, NoApiStep DEF Next
<1> QED
  BY <1>1, <1>5

\* The invariant of the spool: workers hold the locks of their messages and know
\* what the spool holds.
THEOREM SpoolInvariant == ASSUME Sound PROVE Spec => []SpoolInv
<1>1. Init => SpoolInv
  BY InitInv
<1>2. SpoolInv /\ [Next]_vars => SpoolInv'
  BY NextInv
<1> QED
  BY <1>1, <1>2, PTL DEF Spec

\* try_lock_event excludes: whatever the nodes, the scans, the crashes and the
\* failures of the stores, a message has at most one worker at a time.
THEOREM MutualExclusion == ASSUME Sound PROVE Spec => []OneWorkerPerMessage
<1>1. SpoolInv => OneWorkerPerMessage
  BY DEF SpoolInv
<1> QED
  BY <1>1, SpoolInvariant, PTL

\* A message in the spool always has a queue event, so that a scan finds it.
THEOREM NeverStranded == ASSUME Sound PROVE Spec => []NoStrandedMessage
<1>1. SpoolInv => NoStrandedMessage
  BY DEF SpoolInv
<1> QED
  BY <1>1, SpoolInvariant, PTL

\* A message that is gone is written by nobody: the spool changes when a new id
\* is queued, and when a worker writes the message it holds.
LEMMA GoneStaysGone ==
  ASSUME Sound, SpoolInv, Next, NEW q \in queued, message[q] = NoMessage
  PROVE  message'[q] = NoMessage
<1> USE DEF SpoolInv
<1>1. q \in QueueId
  BY DEF KnownIds
<1>2. ASSUME \/ UNCHANGED <<message, events, queued>>
             \/ \E p \in QueueId \ queued : \E n : Queue(p, n)
      PROVE  message'[q] = NoMessage
  BY <1>1, <1>2, QueueStep
<1>3. ASSUME NEW n \in Node,
             Submit(n) \/ Receive(n) \/ WakeUp(n) \/ Shutdown(n) \/ Restart(n)
      PROVE  message'[q] = NoMessage
  BY <1>2, <1>3 DEF Submit, Receive, WakeUp, Shutdown, Restart, store, history
<1>4. ASSUME NEW w \in workers, TryLock(w) \/ ReadNothing(w) \/ Finish(w)
      PROVE  message'[q] = NoMessage
  BY <1>4 DEF TryLock, ReadNothing, Finish, store
<1>5. ASSUME NEW w \in workers, StartTask(w) \/ Attempt(w)
      PROVE  message'[q] = NoMessage
  <2>1. UNCHANGED <<message, events, queued>> \/ \E n : SendDsn(w, n)
    BY <1>5 DEF StartTask, Attempt, store
  <2> QED
    BY <1>2, <2>1, SendDsnQueues
<1>6. ASSUME NEW w \in workers, Write(w)
      PROVE  message'[q] = NoMessage
  <2>1. w.q \in QueueId /\ DOMAIN message = QueueId
    BY DEF KnownIds, SpoolTypes
  <2>2. CASE w.pc = "save" /\ SaveChanges(w.q, w.msg, w.due, w.next)
    BY <1>1, <2>1, <2>2 DEF SaveChanges, WorkersAgree
  <2>3. CASE RemoveMessage(w.q, w.msg, w.due)
    BY <1>1, <2>1, <2>3 DEF RemoveMessage
  <2>4. CASE UNCHANGED message
    BY <2>4
  <2> QED
    BY <1>6, <2>2, <2>3, <2>4 DEF Write, store
<1>7. CASE Tick
  BY <1>7 DEF Tick, store
<1>8. ~Api /\ \A n \in Node : ~HandleManageQueue(n)
  BY NoApiStep DEF Sound, SpoolTypes, IdleApi, Api, ReadRequest, WriteRequest, EndRequest
<1> QED
  BY <1>3, <1>4, <1>5, <1>6, <1>7, <1>8 DEF Next, Work

\* A message that left the spool never comes back: no worker writes a copy it
\* read before the message was removed.
THEOREM NoResurrection == ASSUME Sound PROVE Spec => RemovedStaysRemoved
<1>1. SpoolInv /\ [Next]_vars =>
        [\A q \in queued : message[q] = NoMessage => message'[q] = NoMessage]_vars
  BY GoneStaysGone
<1> QED
  BY <1>1, SpoolInvariant, PTL DEF Spec, RemovedStaysRemoved

-------------------------------------------------------------------------------
(* What a message may become.  The copy a worker changes follows the message   *)
(* in the spool: it has the same recipients and the same quota keys, and what  *)
(* is final in the spool is final in the copy.                                 *)

\* A key without a message is not mistaken for one.
Absent == \A p, d, r, k : NoMessage # [returnPath |-> p, domains |-> d, rcpts |-> r, quotaKeys |-> k]

\* A message, as far as the argument needs to know.
Shape(m) ==
    /\ m = [returnPath |-> m.returnPath, domains |-> m.domains, rcpts |-> m.rcpts, quotaKeys |-> m.quotaKeys]
    /\ m.rcpts \in [DOMAIN m.rcpts -> RcptState]

\* Recipient r was delivered to or failed.
Final(m, r) == m.rcpts[r].status \notin Unfinished

\* n may have been made from m by a worker.
Follows(m, n) ==
    /\ Shape(n) /\ DOMAIN n.rcpts = DOMAIN m.rcpts /\ n.quotaKeys = m.quotaKeys
    /\ \A r \in DOMAIN m.rcpts : Final(m, r) =>
         n.rcpts[r].status = m.rcpts[r].status /\ n.rcpts[r].notify = m.rcpts[r].notify

\* The copies of the workers follow the messages in the spool.
CopiesFollow ==
    /\ \A q \in QueueId : message[q] # NoMessage => Shape(message[q])
    /\ \A w \in workers : w.pc \in {"attempt", "save", "remove"} => Follows(message[w.q], w.msg)
    /\ delivered \in [QueueId -> [Rcpt -> Nat]]

\* A message follows itself.
LEMMA FollowsSelf == ASSUME NEW m, Shape(m) PROVE Follows(m, m)
  BY DEF Follows

\* Following is transitive.
LEMMA FollowsTwice ==
  ASSUME NEW a, NEW b, NEW c, Follows(a, b), Follows(b, c)
  PROVE  Follows(a, c)
  BY DEF Follows, Final

\* New schedules and statuses of the domains.
LEMMA NewDomains ==
  ASSUME NEW m, Shape(m), NEW x
  PROVE  Follows(m, [m EXCEPT !.domains = x])
<1> DEFINE n == [m EXCEPT !.domains = x]
<1>1. n = [returnPath |-> m.returnPath, domains |-> x, rcpts |-> m.rcpts, quotaKeys |-> m.quotaKeys]
  BY DEF Shape
<1>2. n.returnPath = m.returnPath /\ n.domains = x /\ n.rcpts = m.rcpts /\ n.quotaKeys = m.quotaKeys
  BY <1>1
<1>3. Shape(n)
  BY <1>1, <1>2 DEF Shape
<1> QED
  BY <1>2, <1>3 DEF Follows

\* New states of recipients that are not final.
LEMMA NewRcpts ==
  ASSUME NEW m, Shape(m), NEW x \in [DOMAIN m.rcpts -> RcptState],
         \A r \in DOMAIN m.rcpts : Final(m, r) => x[r].status = m.rcpts[r].status /\ x[r].notify = m.rcpts[r].notify
  PROVE  Follows(m, [m EXCEPT !.rcpts = x])
<1> DEFINE n == [m EXCEPT !.rcpts = x]
<1>1. n = [returnPath |-> m.returnPath, domains |-> m.domains, rcpts |-> x, quotaKeys |-> m.quotaKeys]
  BY DEF Shape
<1>2. n.returnPath = m.returnPath /\ n.domains = m.domains /\ n.rcpts = x /\ n.quotaKeys = m.quotaKeys
  BY <1>1
<1>3. Shape(n)
  BY <1>1, <1>2 DEF Shape
<1> QED
  BY <1>2, <1>3 DEF Follows

\* has_pending_delivery fails expired domains and their recipients only.
LEMMA ExpiryFollows ==
  ASSUME NEW m, Shape(m), NEW t
  PROVE  Follows(m, HasPendingDelivery(m, t))
<1> DEFINE expired == {d \in Pending(m) : m.domains[d].expires <= t}
           failed == {r \in DOMAIN m.rcpts : DomainOf[r] \in expired /\ m.rcpts[r].status = "TemporaryFailure"}
           x == [d \in DOMAIN m.domains |->
                    IF d \in expired THEN [m.domains[d] EXCEPT !.status = "PermanentFailure"] ELSE m.domains[d]]
           n == [m EXCEPT !.domains = x]
           y == [r \in DOMAIN n.rcpts |->
                    IF r \in failed THEN [n.rcpts[r] EXCEPT !.status = "PermanentFailure"] ELSE n.rcpts[r]]
<1>1. HasPendingDelivery(m, t) = [n EXCEPT !.rcpts = y]
  BY DEF HasPendingDelivery, WithDomains, WithRcpts
<1>2. Follows(m, n)
  <2> HIDE DEF x
  <2> QED
    BY NewDomains
<1>3. n.rcpts = m.rcpts
  BY DEF Shape
<1> HIDE DEF x, n
<1>4. \A r \in DOMAIN n.rcpts : y[r] \in RcptState /\ (Final(n, r) => y[r] = n.rcpts[r])
  <2> SUFFICES ASSUME NEW r \in DOMAIN n.rcpts
               PROVE  y[r] \in RcptState /\ (Final(n, r) => y[r] = n.rcpts[r])
    OBVIOUS
  <2>1. n.rcpts[r] \in RcptState
    BY <1>2 DEF Follows, Shape
  <2>2. CASE r \in failed
    <3>1. y[r] = [n.rcpts[r] EXCEPT !.status = "PermanentFailure"] /\ ~Final(n, r)
      BY <1>3, <2>2 DEF Final, Unfinished
    <3> QED
      BY <2>1, <3>1 DEF RcptState, Status
  <2>3. CASE r \notin failed
    BY <2>1, <2>3
  <2> QED
    BY <2>2, <2>3
<1>5. y \in [DOMAIN n.rcpts -> RcptState]
  BY <1>4
<1> HIDE DEF y
<1>6. Follows(n, [n EXCEPT !.rcpts = y])
  BY <1>2, <1>4, <1>5, NewRcpts DEF Follows
<1> QED
  BY <1>1, <1>2, <1>6, FollowsTwice

\* Recipients that are marked as reported.
Marked(m, R) ==
    [m EXCEPT !.rcpts = [r \in DOMAIN m.rcpts |->
        IF r \in R THEN [m.rcpts[r] EXCEPT !.dsnSent = TRUE] ELSE m.rcpts[r]]]

\* Marking a recipient as reported leaves its status alone.
LEMMA MarkingFollows ==
  ASSUME NEW m, Shape(m), NEW R
  PROVE  Follows(m, Marked(m, R))
<1> DEFINE y == [r \in DOMAIN m.rcpts |-> IF r \in R THEN [m.rcpts[r] EXCEPT !.dsnSent = TRUE] ELSE m.rcpts[r]]
<1>1. \A r \in DOMAIN m.rcpts : /\ y[r] \in RcptState
                                /\ y[r].status = m.rcpts[r].status /\ y[r].notify = m.rcpts[r].notify
  <2> SUFFICES ASSUME NEW r \in DOMAIN m.rcpts
               PROVE  y[r] \in RcptState /\ y[r].status = m.rcpts[r].status /\ y[r].notify = m.rcpts[r].notify
    OBVIOUS
  <2>1. m.rcpts[r] \in RcptState
    BY DEF Shape
  <2>2. CASE r \in R
    BY <2>1, <2>2 DEF RcptState
  <2>3. CASE r \notin R
    BY <2>1, <2>3
  <2> QED
    BY <2>2, <2>3
<1>2. y \in [DOMAIN m.rcpts -> RcptState]
  BY <1>1
<1>3. Marked(m, R) = [m EXCEPT !.rcpts = y]
  BY DEF Marked
<1> HIDE DEF y
<1> QED
  BY <1>1, <1>2, <1>3, NewRcpts

\* What a notification does to the message.
LEMMA DsnFollows ==
  ASSUME NEW m, Shape(m), NEW t
  PROVE  Follows(m, AfterDsn(m, t))
<1>1. ASSUME NEW n, Follows(m, n), NEW x PROVE Follows(m, [n EXCEPT !.domains = x])
  BY <1>1, NewDomains, FollowsTwice DEF Follows
<1>2. CASE m.returnPath
  <2> DEFINE marked == Marked(m, Succeeded(m) \cup Failed(m))
             notified == {d \in Pending(m) : m.domains[d].notify <= t}
             x == [d \in DOMAIN marked.domains |->
                      IF d \in notified THEN Renotify(marked.domains[d], t) ELSE marked.domains[d]]
  <2>1. Follows(m, marked)
    BY MarkingFollows
  <2>2. BuildDsn(m, t) = IF Delayed(m, t) = {} THEN marked ELSE [marked EXCEPT !.domains = x]
    BY DEF BuildDsn, WithRcpts, WithDomains, Marked
  <2>3. AfterDsn(m, t) = marked \/ AfterDsn(m, t) = [marked EXCEPT !.domains = x]
    BY <1>2, <2>2 DEF AfterDsn
  <2> HIDE DEF marked, x
  <2> QED
    BY <1>1, <2>1, <2>3
<1>3. CASE ~m.returnPath
  <2> DEFINE marked == Marked(m, Failed(m))
             silenced == {d \in DOMAIN m.domains : m.domains[d].notify <= t}
             x == [d \in DOMAIN marked.domains |->
                      IF d \in silenced THEN [marked.domains[d] EXCEPT !.notify = At(marked.domains[d].expires + NotifySlack)]
                      ELSE marked.domains[d]]
  <2>1. Follows(m, marked)
    BY MarkingFollows
  <2>2. HandleDoubleBounce(m, t) = [marked EXCEPT !.domains = x]
    BY DEF HandleDoubleBounce, WithRcpts, WithDomains, Marked
  <2>3. AfterDsn(m, t) = [marked EXCEPT !.domains = x]
    BY <1>3, <2>2 DEF AfterDsn
  <2> HIDE DEF marked, x
  <2> QED
    BY <1>1, <2>1, <2>3
<1> QED
  BY <1>2, <1>3

\* What an attempt at a domain does to the message, and whom it delivers to.
LEMMA ResultFollows ==
  ASSUME NEW m, Shape(m), NEW d, NEW t, NEW delays,
         NEW res \in AttemptResults(m, d, t, Replies, delays)
  PROVE  /\ Follows(m, res.msg)
         /\ \A r \in res.got : r \in DOMAIN m.rcpts /\ m.rcpts[r].status \in Unfinished
<1>1. CASE res = [msg |-> m, got |-> {}]
  BY <1>1, FollowsSelf
<1>2. ASSUME NEW delay \in delays,
             res = [msg |-> [m EXCEPT !.domains[d] = SetRateLimiterError(@, At(t + delay))], got |-> {}]
      PROVE  Follows(m, res.msg) /\ res.got = {}
  <2> DEFINE x == [m.domains EXCEPT ![d] = SetRateLimiterError(m.domains[d], At(t + delay))]
  <2>1. res.msg = [m EXCEPT !.domains = x]
    BY <1>2 DEF Shape
  <2>2. res.got = {}
    BY <1>2
  <2> HIDE DEF x
  <2> QED
    BY <2>1, <2>2, NewDomains
<1>3. ASSUME NEW s \in SessionResult(m, d, Replies),
             res = [msg |-> AfterSession(m, d, s, t), got |-> {r \in DOMAIN s.rcpts : s.rcpts[r] = "Completed"}]
      PROVE  Follows(m, res.msg) /\ \A r \in res.got : r \in DOMAIN m.rcpts /\ m.rcpts[r].status \in Unfinished
  <2> DEFINE P == Undelivered(m, d)
             touched == {r \in DOMAIN s.rcpts : s.rcpts[r] # "Unchanged"}
             x == [m.domains EXCEPT ![d] = SetStatus(m.domains[d], s.domain, t)]
             n == [m EXCEPT !.domains = x]
             y == [r \in DOMAIN n.rcpts |-> IF r \in touched THEN [n.rcpts[r] EXCEPT !.status = s.rcpts[r]] ELSE n.rcpts[r]]
  <2>1. P \subseteq DOMAIN m.rcpts /\ \A r \in P : m.rcpts[r].status \in Unfinished
    BY DEF Undelivered, RcptsOf
  <2>2. s.rcpts \in [P -> Replies \cup {"Unchanged"}]
    <3> HIDE DEF P
    <3>1. CASE \E g \in [P -> Replies] : s.rcpts = g
      BY <3>1
    <3>2. CASE \E g \in [P -> (Replies \ {"Completed"}) \cup {"Unchanged"}] : s.rcpts = g
      BY <3>2
    <3>3. \/ \E g \in [P -> Replies] : s.rcpts = g
          \/ \E g \in [P -> (Replies \ {"Completed"}) \cup {"Unchanged"}] : s.rcpts = g
      BY <1>3 DEF SessionResult, P
    <3> QED
      BY <3>1, <3>2, <3>3
  <2>3. n.rcpts = m.rcpts
    BY DEF Shape
  <2>4. AfterSession(m, d, s, t) = [n EXCEPT !.rcpts = y]
    BY DEF AfterSession, Shape
  <2>5. Follows(m, n)
    <3> HIDE DEF x
    <3> QED
      BY NewDomains
  <2> HIDE DEF P, x, n
  <2>6. \A r \in DOMAIN n.rcpts : y[r] \in RcptState /\ (Final(n, r) => y[r] = n.rcpts[r])
    <3> SUFFICES ASSUME NEW r \in DOMAIN n.rcpts
                 PROVE  y[r] \in RcptState /\ (Final(n, r) => y[r] = n.rcpts[r])
      OBVIOUS
    <3>1. n.rcpts[r] \in RcptState
      BY <2>5 DEF Follows, Shape
    <3>2. CASE r \in touched
      <4>1. r \in P /\ s.rcpts[r] \in Status
        BY <2>2, <3>2, SpoolAssumption
      <4>2. y[r] = [n.rcpts[r] EXCEPT !.status = s.rcpts[r]] /\ ~Final(n, r)
        BY <2>1, <2>3, <3>2, <4>1 DEF Final
      <4> QED
        BY <3>1, <4>1, <4>2 DEF RcptState
    <3>3. CASE r \notin touched
      BY <3>1, <3>3
    <3> QED
      BY <3>2, <3>3
  <2>7. y \in [DOMAIN n.rcpts -> RcptState]
    BY <2>6
  <2>8. res.msg = [n EXCEPT !.rcpts = y] /\ res.got \subseteq P
    BY <1>3, <2>2, <2>4
  <2> HIDE DEF y
  <2>9. Follows(n, [n EXCEPT !.rcpts = y])
    BY <2>5, <2>6, <2>7, NewRcpts DEF Follows
  <2>10. Follows(m, res.msg)
    BY <2>5, <2>8, <2>9, FollowsTwice
  <2> QED
    BY <2>1, <2>8, <2>10
<1> QED
  BY <1>1, <1>2, <1>3 DEF AttemptResults

-------------------------------------------------------------------------------
(* What a step does to the spool: nothing, a new message, or the last write of *)
(* a worker.                                                                   *)

\* A worker with a copy of its message.
Copying == {"attempt", "save", "remove"}

\* The messages that count for quota key k.
Holders(k) == {q \in QueueId : message[q] # NoMessage /\ k \in message[q].quotaKeys}

\* The counters count the keys of the messages in the spool.
QuotaInv == quota \in [QuotaId -> Int] /\ \A k \in QuotaId : quota[k] = Cardinality(Holders(k))

LifeInv == SpoolInv /\ CopiesFollow /\ QuotaInv

\* What a step may do to messages and quotas: nothing, a new message, a last write.
Nothing == UNCHANGED <<message, quota, queued>>
Arrives == \E q \in QueueId \ queued : \E m : Shape(m) /\ Queue(q, m)
Saves(w) == w.pc = "save" /\ SaveChanges(w.q, w.msg, w.due, w.next) /\ UNCHANGED queued
Removes(w) == w.pc = "remove" /\ RemoveMessage(w.q, w.msg, w.due) /\ UNCHANGED queued
Writes(w) == (Saves(w) \/ Removes(w)) /\ \A v \in workers' : v.pc \in Copying => v \in workers /\ v # w

\* Workers with a copy are those that were there, or have a copy of what is in the spool.
Follow == \A v \in workers' : v.pc \in Copying =>
              v \in workers \/ (v.q \in queued /\ Follows(message[v.q], v.msg))

\* What a session queues is a message.
LEMMA SubmittedShape ==
  ASSUME NEW env \in Envelopes, NEW t
  PROVE  Shape(BuildMessage(env, t))
<1> DEFINE D == {DomainOf[r] : r \in env.rcpts}
           note == IF env.notify = {} THEN {"delay", "failure"} ELSE env.notify
           dom == [d \in D |-> SubmittedDomain(env, t)]
           rc == [r \in env.rcpts |-> [status |-> "Scheduled", dsnSent |-> FALSE, notify |-> note]]
           keys == (D \cup env.rcpts) \cap QuotaId
<1>1. BuildMessage(env, t) = [returnPath |-> TRUE, domains |-> dom, rcpts |-> rc, quotaKeys |-> keys]
  BY DEF BuildMessage
<1>2. note \in SUBSET NotifyFlag
  BY SpoolAssumption DEF Envelope, NotifyFlag
<1>3. rc \in [DOMAIN rc -> RcptState]
  <2> HIDE DEF note
  <2> QED
    BY <1>2 DEF RcptState, Status
<1> HIDE DEF dom, rc, keys
<1> QED
  BY <1>1, <1>3 DEF Shape

\* What a notification queues is a message.
LEMMA DsnShape ==
  ASSUME NEW t
  PROVE  Shape(DsnMessage(t))
<1> DEFINE dom == [d \in {DomainOf[Sender]} |->
                     [status |-> "Scheduled", retry |-> t, retryNum |-> 0, notify |-> At(t + ExpireIn + NotifySlack),
                      notifyNum |-> 0, expires |-> At(t + ExpireIn)]]
           rc == [r \in {Sender} |-> [status |-> "Scheduled", dsnSent |-> FALSE, notify |-> {}]]
<1>1. DsnMessage(t) = [returnPath |-> FALSE, domains |-> dom, rcpts |-> rc, quotaKeys |-> {}]
  BY DEF DsnMessage
<1>2. rc \in [DOMAIN rc -> RcptState]
  BY DEF RcptState, Status
<1> HIDE DEF dom, rc
<1> QED
  BY <1>1, <1>2 DEF Shape

\* A notification is queued as a message of its own, or nothing happens to the spool.
LEMMA SendDsnArrives ==
  ASSUME NEW w, NEW m, SendDsn(w, m)
  PROVE  Nothing \/ Arrives
<1>1. CASE \E q \in QueueId \ queued : Queue(q, DsnMessage(now))
  BY <1>1, DsnShape DEF Arrives
<1>2. CASE UNCHANGED <<store, queued>>
  BY <1>2 DEF Nothing, store
<1> QED
  BY <1>1, <1>2 DEF SendDsn

\* One worker's record is replaced by one whose copy follows the message.
LEMMA OneFollows ==
  ASSUME NEW w \in workers, NEW v, workers' = (workers \ {w}) \cup {v},
         v.q \in queued, Follows(message[v.q], v.msg)
  PROVE  Follow
  BY DEF Follow

\* The record of a worker that read its message and changed it to m.
Started(w, v, m) ==
    \/ v = [w EXCEPT !.pc = "remove", !.msg = m, !.status = "Completed"]
    \/ \E t : v = [w EXCEPT !.pc = "save", !.msg = m, !.next = t, !.status = "Deferred"]
    \/ v = [w EXCEPT !.pc = "attempt", !.msg = m, !.todo = DOMAIN m.domains]

\* It is for the same message, and holds m.
LEMMA StartedCopy ==
  ASSUME NEW w, HasWorkerFields(w), NEW m, NEW v, Started(w, v, m)
  PROVE  v.q = w.q /\ v.msg = m
<1>1. CASE v = [w EXCEPT !.pc = "remove", !.msg = m, !.status = "Completed"]
  BY <1>1 DEF HasWorkerFields
<1>2. ASSUME NEW t, v = [w EXCEPT !.pc = "save", !.msg = m, !.next = t, !.status = "Deferred"]
      PROVE  v.q = w.q /\ v.msg = m
  BY <1>2 DEF HasWorkerFields
<1>3. CASE v = [w EXCEPT !.pc = "attempt", !.msg = m, !.todo = DOMAIN m.domains]
  BY <1>3 DEF HasWorkerFields
<1> QED
  BY Zenon, <1>1, <1>2, <1>3 DEF Started

\* The parts of deliver_task before the delivery.
LEMMA StartTaskParts ==
  ASSUME NEW w, StartTask(w)
  PROVE  /\ message[w.q] # NoMessage /\ UNCHANGED delivered
         /\ SendDsn(w, HasPendingDelivery(message[w.q], now))
         /\ \E v : Becomes(w, v) /\ Started(w, v, AfterDsn(HasPendingDelivery(message[w.q], now), now))
<1>1. message[w.q] # NoMessage /\ UNCHANGED delivered
  BY Zenon DEF StartTask
<1>2. SendDsn(w, HasPendingDelivery(message[w.q], now))
  BY Zenon DEF StartTask
<1>3. \E v : Becomes(w, v) /\ Started(w, v, AfterDsn(HasPendingDelivery(message[w.q], now), now))
  BY Zenon DEF StartTask, Started
<1> QED
  BY <1>1, <1>2, <1>3

\* The copies of a worker that reads the message and of one that tries a domain.
LEMMA StartTaskFollows ==
  ASSUME SpoolInv, CopiesFollow, NEW w \in workers, StartTask(w)
  PROVE  Follow /\ UNCHANGED delivered /\ (Nothing \/ Arrives)
<1> DEFINE p == HasPendingDelivery(message[w.q], now)
           m == AfterDsn(p, now)
<1>1. message[w.q] # NoMessage /\ UNCHANGED delivered /\ SendDsn(w, p) /\ \E v : Becomes(w, v) /\ Started(w, v, m)
  BY StartTaskParts
<1>2. w.q \in QueueId /\ w.q \in queued /\ HasWorkerFields(w)
  BY DEF SpoolInv, SpoolTypes, KnownIds
<1>3. Shape(message[w.q])
  BY <1>1, <1>2 DEF CopiesFollow
<1>4. Follows(message[w.q], p)
  BY <1>3, ExpiryFollows
<1> HIDE DEF p
<1>5. Follows(p, m)
  BY <1>4, DsnFollows DEF Follows
<1> HIDE DEF m
<1>6. Follows(message[w.q], m)
  BY <1>4, <1>5, FollowsTwice
<1>7. PICK v : Becomes(w, v) /\ v.q = w.q /\ v.msg = m
  BY <1>1, <1>2, StartedCopy
<1>8. Follow
  BY <1>2, <1>6, <1>7, OneFollows DEF Becomes
<1> QED
  BY <1>1, <1>8, SendDsnArrives

\* The record of a worker that tried domain d: n is its copy, m the copy after notifications.
Tried(w, v, d, n, m) ==
    \/ v = [w EXCEPT !.msg = n, !.todo = @ \ {d}]
    \/ \E t : v = [w EXCEPT !.pc = "save", !.msg = m, !.todo = {}, !.next = t, !.status = "Deferred"]
    \/ v = [w EXCEPT !.pc = "remove", !.msg = m, !.todo = {}, !.status = "Completed"]

\* It is for the same message, and holds one of the two.
LEMMA TriedCopy ==
  ASSUME NEW w, HasWorkerFields(w), NEW d, NEW n, NEW m, NEW v, Tried(w, v, d, n, m)
  PROVE  v.q = w.q /\ v.msg \in {n, m}
<1>1. CASE v = [w EXCEPT !.msg = n, !.todo = @ \ {d}]
  BY <1>1 DEF HasWorkerFields
<1>2. ASSUME NEW t, v = [w EXCEPT !.pc = "save", !.msg = m, !.todo = {}, !.next = t, !.status = "Deferred"]
      PROVE  v.q = w.q /\ v.msg = m
  BY <1>2 DEF HasWorkerFields
<1>3. CASE v = [w EXCEPT !.pc = "remove", !.msg = m, !.todo = {}, !.status = "Completed"]
  BY <1>3 DEF HasWorkerFields
<1> QED
  BY Zenon, <1>1, <1>2, <1>3 DEF Tried

\* The parts of the delivery of one domain.
LEMMA AttemptParts ==
  ASSUME NEW w, Attempt(w)
  PROVE  \E d \in w.todo : \E res \in AttemptResults(w.msg, d, now, Replies, RateDelays) :
           /\ delivered' = Bump(delivered, w.q, res.got)
           /\ UNCHANGED <<store, queued>> \/ SendDsn(w, res.msg)
           /\ \E v : Becomes(w, v) /\ Tried(w, v, d, res.msg, AfterDsn(res.msg, now))
  BY Zenon DEF Attempt, Tried

\* The delivery of one domain: what it changes was not final in the spool.
LEMMA AttemptFollows ==
  ASSUME SpoolInv, CopiesFollow, NEW w \in workers, Attempt(w)
  PROVE  /\ Follow /\ (Nothing \/ Arrives)
         /\ \E got : /\ delivered' = Bump(delivered, w.q, got)
                     /\ \A r \in got : r \in DOMAIN message[w.q].rcpts /\ message[w.q].rcpts[r].status \in Unfinished
<1>1. w.q \in QueueId /\ w.q \in queued /\ HasWorkerFields(w)
  BY DEF SpoolInv, SpoolTypes, KnownIds
<1>2. Follows(message[w.q], w.msg)
  <2>1. w.pc = "attempt"
    BY DEF Attempt
  <2> QED
    BY <2>1 DEF CopiesFollow
<1>3. PICK d \in w.todo : \E res \in AttemptResults(w.msg, d, now, Replies, RateDelays) :
        /\ delivered' = Bump(delivered, w.q, res.got)
        /\ UNCHANGED <<store, queued>> \/ SendDsn(w, res.msg)
        /\ \E v : Becomes(w, v) /\ Tried(w, v, d, res.msg, AfterDsn(res.msg, now))
  BY AttemptParts
<1>4. PICK res \in AttemptResults(w.msg, d, now, Replies, RateDelays) :
        /\ delivered' = Bump(delivered, w.q, res.got)
        /\ UNCHANGED <<store, queued>> \/ SendDsn(w, res.msg)
        /\ \E v : Becomes(w, v) /\ Tried(w, v, d, res.msg, AfterDsn(res.msg, now))
  BY <1>3
<1> DEFINE m == AfterDsn(res.msg, now)
<1>5. /\ Follows(w.msg, res.msg)
      /\ \A r \in res.got : r \in DOMAIN w.msg.rcpts /\ w.msg.rcpts[r].status \in Unfinished
  <2>1. Shape(w.msg)
    BY <1>2 DEF Follows
  <2> QED
    BY <2>1, ResultFollows
<1>6. Follows(res.msg, m)
  BY <1>5, DsnFollows DEF Follows
<1>7. PICK v : Becomes(w, v) /\ v.q = w.q /\ v.msg \in {res.msg, m}
  BY <1>1, <1>4, TriedCopy
<1> HIDE DEF m
<1>8. Follows(message[w.q], res.msg) /\ Follows(message[w.q], m)
  BY <1>2, <1>5, <1>6, FollowsTwice
<1>9. Follow
  BY <1>1, <1>7, <1>8, OneFollows DEF Becomes
<1>10. Nothing \/ Arrives
  BY <1>4, SendDsnArrives DEF Nothing, store
<1>11. \A r \in res.got : r \in DOMAIN message[w.q].rcpts /\ message[w.q].rcpts[r].status \in Unfinished
  BY <1>2, <1>5 DEF Follows, Final
<1> QED
  BY <1>4, <1>9, <1>10, <1>11

\* The last write is one of save_changes and remove, or leaves the messages alone.
LEMMA WriteWrites ==
  ASSUME SpoolInv, NEW w \in workers, Write(w)
  PROVE  Follow /\ (Nothing \/ Writes(w))
<1> DEFINE u == [w EXCEPT !.pc = "unlock", !.msg = NoMessage, !.next = 0]
<1>1. HasWorkerFields(w) /\ workers' = (workers \ {w}) \cup {u} /\ UNCHANGED queued
  BY DEF Write, SpoolInv, SpoolTypes, history, Becomes
<1>2. u.pc = "unlock"
  <2>1. HasWorkerFields(w)
    BY <1>1
  <2> QED
    BY <2>1 DEF HasWorkerFields
<1> HIDE DEF u
<1>3. \A v \in workers' : v.pc \in Copying => v \in workers /\ v # w
  BY <1>1, <1>2 DEF Copying
<1>4. Nothing \/ Saves(w) \/ Removes(w)
  BY <1>1 DEF Write, Nothing, Saves, Removes, store
<1> QED
  BY <1>3, <1>4 DEF Follow, Writes

\* Workers that begin, are refused, find nothing or end have no copy.
LEMMA OtherWork ==
  ASSUME SpoolInv, NEW w \in workers, TryLock(w) \/ ReadNothing(w) \/ Finish(w)
  PROVE  Follow /\ Nothing /\ UNCHANGED delivered
<1>1. HasWorkerFields(w)
  BY DEF SpoolInv, SpoolTypes
<1> DEFINE a == [w EXCEPT !.pc = "read", !.until = At(now + LockExpiry)]
           b == [w EXCEPT !.pc = "done", !.status = "Locked", !.until = At(now + LockExpiry + LockBackoff)]
           c == [w EXCEPT !.pc = "orphan", !.status = "Completed"]
<1>2. a.pc = "read" /\ b.pc = "done" /\ c.pc = "orphan"
  BY <1>1 DEF HasWorkerFields
<1>3. workers' \subseteq workers \cup {a, b, c}
  BY DEF TryLock, ReadNothing, Finish, Becomes
<1> HIDE DEF a, b, c
<1>4. Follow
  BY <1>2, <1>3 DEF Follow, Copying
<1> QED
  BY <1>4 DEF Nothing, TryLock, ReadNothing, Finish, store, history

\* The steps of managers and nodes.
LEMMA OtherSteps ==
  ASSUME NEW n \in Node, Receive(n) \/ WakeUp(n) \/ Shutdown(n) \/ Restart(n)
  PROVE  Follow /\ Nothing /\ UNCHANGED delivered
<1>1. \A v \in workers' : v \in workers \/ \E e \in events : v = NewWorker(n, e)
  BY DeliverStarts DEF Receive, WakeUp, Shutdown, Restart
<1>2. \A e \in events : NewWorker(n, e).pc = "lock"
  BY DEF NewWorker
<1>3. Follow
  BY <1>1, <1>2 DEF Follow, Copying
<1> QED
  BY <1>3 DEF Nothing, Receive, WakeUp, Shutdown, Restart, store, history

\* A session accepts a message.
LEMMA SubmitArrives ==
  ASSUME NEW n \in Node, Submit(n)
  PROVE  Follow /\ Arrives /\ UNCHANGED delivered
  BY SubmittedShape DEF Submit, Follow, Arrives

\* Whom a step delivers to.
Delivers ==
    \/ UNCHANGED delivered
    \/ \E w \in workers : \E got :
         /\ message[w.q] # NoMessage /\ delivered' = Bump(delivered, w.q, got)
         /\ \A r \in got : r \in DOMAIN message[w.q].rcpts /\ message[w.q].rcpts[r].status \in Unfinished

\* Every step is one of these.
LEMMA WhatHappens ==
  ASSUME Sound, SpoolInv, CopiesFollow, [Next]_vars
  PROVE  Follow /\ Delivers /\ (Nothing \/ Arrives \/ \E w \in workers : Writes(w))
<1>1. CASE UNCHANGED vars
  BY <1>1 DEF vars, Follow, Delivers, Nothing
<1>2. ASSUME NEW w \in workers, Work(w)
      PROVE  Follow /\ Delivers /\ (Nothing \/ Arrives \/ \E u \in workers : Writes(u))
  <2>1. CASE StartTask(w)
    BY <2>1, StartTaskFollows DEF Delivers
  <2>2. CASE Attempt(w)
    <3>1. message[w.q] # NoMessage
      BY <2>2 DEF Attempt, SpoolInv, WorkersAgree
    <3> QED
      BY <2>2, <3>1, AttemptFollows DEF Delivers
  <2>3. CASE Write(w)
    <3>1. UNCHANGED delivered
      BY <2>3 DEF Write, history
    <3> QED
      BY <2>3, <3>1, WriteWrites DEF Delivers
  <2>4. CASE TryLock(w) \/ ReadNothing(w) \/ Finish(w)
    BY <2>4, OtherWork DEF Delivers
  <2> QED
    BY <1>2, <2>1, <2>2, <2>3, <2>4 DEF Work
<1>3. ASSUME NEW n \in Node, Submit(n) \/ Receive(n) \/ WakeUp(n) \/ Shutdown(n) \/ Restart(n)
      PROVE  Follow /\ Delivers /\ (Nothing \/ Arrives)
  BY <1>3, SubmitArrives, OtherSteps DEF Delivers
<1>4. CASE Tick
  BY <1>4 DEF Follow, Delivers, Nothing, Tick, store, history
<1>5. ~Api /\ \A n \in Node : ~HandleManageQueue(n)
  BY NoApiStep DEF Sound, SpoolInv, SpoolTypes, IdleApi, Api, ReadRequest, WriteRequest, EndRequest
<1> QED
  BY <1>1, <1>2, <1>3, <1>4, <1>5 DEF Next

\* What a worker saves.
LEMMA Released ==
  ASSUME NEW m, Shape(m)
  PROVE  /\ Shape(ReleaseQuota(m))
         /\ ReleaseQuota(m).rcpts = m.rcpts
         /\ ReleaseQuota(m).quotaKeys = m.quotaKeys \ Releasable(m)
<1> DEFINE x == m.quotaKeys \ Releasable(m)
           n == [m EXCEPT !.quotaKeys = x]
<1>1. ReleaseQuota(m) = n
  BY DEF ReleaseQuota, Shape
<1> HIDE DEF x
<1>2. n = [returnPath |-> m.returnPath, domains |-> m.domains, rcpts |-> m.rcpts, quotaKeys |-> x]
  BY DEF Shape
<1>3. n.rcpts = m.rcpts /\ n.quotaKeys = x /\ n.returnPath = m.returnPath /\ n.domains = m.domains
  BY <1>2
<1>4. Shape(n)
  BY <1>2, <1>3 DEF Shape
<1> QED
  BY <1>1, <1>3, <1>4 DEF x

\* A worker that writes has a copy that follows the message, and nobody else has one.
LEMMA WriterCopy ==
  ASSUME SpoolInv, CopiesFollow, NEW w \in workers, Writes(w)
  PROVE  /\ w.q \in QueueId /\ message[w.q] # NoMessage
         /\ Follows(message[w.q], w.msg) /\ Shape(w.msg)
         /\ \A q \in QueueId : q # w.q => message'[q] = message[q]
         /\ \A v \in workers' : v.pc \in Copying => v.q # w.q
<1>1. w.pc \in {"save", "remove"} /\ w.pc \in Working
  BY DEF Writes, Saves, Removes, Working
<1>2. w.q \in QueueId /\ message[w.q] # NoMessage /\ Follows(message[w.q], w.msg) /\ DOMAIN message = QueueId
  BY <1>1 DEF SpoolInv, SpoolTypes, KnownIds, WorkersAgree, CopiesFollow
<1>3. \A q \in QueueId : q # w.q => message'[q] = message[q]
  BY <1>2 DEF Writes, Saves, Removes, SaveChanges, RemoveMessage
<1>4. \A v \in workers' : v.pc \in Copying => v.q # w.q
  BY <1>1 DEF Writes, SpoolInv, OneWorkerPerMessage, Copying, Working
<1> QED
  BY <1>2, <1>3, <1>4 DEF Follows

\* The copies go on following the messages.
LEMMA CopiesStep ==
  ASSUME Sound, SpoolInv, CopiesFollow, [Next]_vars
  PROVE  CopiesFollow'
<1>1. Follow /\ Delivers /\ (Nothing \/ Arrives \/ \E w \in workers : Writes(w))
  BY WhatHappens
<1>2. \A v \in workers' : v.pc \in Copying => v.q \in queued /\ v.q \in QueueId /\ Follows(message[v.q], v.msg)
  BY <1>1 DEF Follow, CopiesFollow, Copying, SpoolInv, KnownIds
<1>3. delivered' \in [QueueId -> [Rcpt -> Nat]]
  <2>1. delivered \in [QueueId -> [Rcpt -> Nat]]
    BY DEF CopiesFollow
  <2>2. ASSUME NEW q, NEW R PROVE Bump(delivered, q, R) \in [QueueId -> [Rcpt -> Nat]]
    <3>1. CASE q \in QueueId
      <4> DEFINE f == [r \in Rcpt |-> IF r \in R /\ delivered[q][r] < 2 THEN delivered[q][r] + 1 ELSE delivered[q][r]]
      <4>1. f \in [Rcpt -> Nat]
        BY <2>1, <3>1
      <4>2. Bump(delivered, q, R) = [delivered EXCEPT ![q] = f]
        BY <2>1, <3>1 DEF Bump
      <4> HIDE DEF f
      <4> QED
        BY <2>1, <4>1, <4>2
    <3>2. CASE q \notin QueueId
      <4>1. Bump(delivered, q, R) = delivered
        BY <2>1, <3>2 DEF Bump
      <4> QED
        BY <2>1, <4>1
    <3> QED
      BY <3>1, <3>2
  <2> QED
    BY <1>1, <2>1, <2>2 DEF Delivers
<1>4. CASE Nothing
  BY <1>2, <1>3, <1>4 DEF Nothing, CopiesFollow, Copying
<1>5. CASE Arrives
  <2>1. PICK q \in QueueId \ queued : \E m : Shape(m) /\ Queue(q, m)
    BY <1>5 DEF Arrives
  <2>2. PICK m : Shape(m) /\ message' = [message EXCEPT ![q] = m]
    BY <2>1 DEF Queue
  <2>3. DOMAIN message = QueueId
    BY DEF SpoolInv, SpoolTypes
  <2>4. \A p \in QueueId : message'[p] # NoMessage => Shape(message'[p])
    BY <2>2, <2>3 DEF CopiesFollow
  <2>5. \A v \in workers' : v.pc \in Copying => Follows(message'[v.q], v.msg)
    BY <1>2, <2>2, <2>3
  <2> QED
    BY <1>3, <2>4, <2>5 DEF CopiesFollow, Copying
<1>6. ASSUME NEW w \in workers, Writes(w) PROVE CopiesFollow'
  <2>1. /\ w.q \in QueueId /\ Shape(w.msg)
        /\ \A q \in QueueId : q # w.q => message'[q] = message[q]
        /\ \A v \in workers' : v.pc \in Copying => v.q # w.q
    BY <1>6, WriterCopy
  <2>2. message'[w.q] = NoMessage \/ Shape(message'[w.q])
    <3>1. message'[w.q] \in {NoMessage, ReleaseQuota(w.msg)}
      BY <1>6, <2>1 DEF Writes, Saves, Removes, SaveChanges, RemoveMessage, SpoolInv, SpoolTypes
    <3> QED
      BY <2>1, <3>1, Released
  <2>3. \A p \in QueueId : message'[p] # NoMessage => Shape(message'[p])
    BY <2>1, <2>2 DEF CopiesFollow
  <2>4. \A v \in workers' : v.pc \in Copying => Follows(message'[v.q], v.msg)
    BY <1>2, <2>1
  <2> QED
    BY <1>3, <2>3, <2>4 DEF CopiesFollow, Copying
<1> QED
  BY <1>1, <1>4, <1>5, <1>6

\* One holder more, one less.
LEMMA Count ==
  ASSUME NEW H \in SUBSET QueueId, NEW q \in QueueId
  PROVE  /\ Cardinality(H) \in Nat
         /\ q \notin H => Cardinality(H \cup {q}) = Cardinality(H) + 1
         /\ q \in H => Cardinality(H \ {q}) = Cardinality(H) - 1
<1>1. IsFiniteSet(H)
  BY SpoolAssumption, FS_Subset
<1>2. Cardinality(H) \in Nat
  BY <1>1, FS_CardinalityType
<1>3. q \notin H => Cardinality(H \cup {q}) = Cardinality(H) + 1
  BY <1>1, FS_AddElement
<1>4. q \in H => Cardinality(H \ {q}) = Cardinality(H) - 1
  BY <1>1, FS_RemoveElement
<1> QED
  BY <1>2, <1>3, <1>4

\* The keys `plus' are added to the message q, the keys `minus' are taken from it.
KeysChange(q, m, plus, minus) ==
    /\ message' = [message EXCEPT ![q] = m]
    /\ quota' = [k \in QuotaId |->
                   IF k \in plus THEN quota[k] + 1 ELSE IF k \in minus THEN quota[k] - 1 ELSE quota[k]]
    /\ \A k \in QuotaId :
         /\ (m # NoMessage /\ k \in m.quotaKeys) <=> (k \in plus \/ (q \in Holders(k) /\ k \notin minus))
         /\ k \in plus => q \notin Holders(k)
         /\ k \in minus => q \in Holders(k) /\ k \notin plus

\* The counters follow the keys.
LEMMA QuotaChange ==
  ASSUME QuotaInv, NEW q \in QueueId, DOMAIN message = QueueId, NEW m,
         NEW plus, NEW minus, KeysChange(q, m, plus, minus)
  PROVE  QuotaInv'
<1> USE DEF KeysChange
<1> SUFFICES ASSUME NEW k \in QuotaId
             PROVE  quota'[k] \in Int /\ quota'[k]
                      = Cardinality({p \in QueueId : message'[p] # NoMessage /\ k \in message'[p].quotaKeys})
  BY DEF QuotaInv, Holders
<1> DEFINE H == Holders(k)
           G == {p \in QueueId : message'[p] # NoMessage /\ k \in message'[p].quotaKeys}
<1>1. H \in SUBSET QueueId /\ quota[k] = Cardinality(H)
  BY DEF QuotaInv, Holders
<1>2. \A p \in QueueId : p # q => (p \in G <=> p \in H)
  BY DEF Holders
<1>3. q \in G <=> (k \in plus \/ (q \in H /\ k \notin minus))
  OBVIOUS
<1>4. G \in SUBSET QueueId
  OBVIOUS
<1>5. /\ k \in plus => q \notin H
      /\ k \in minus => q \in H /\ k \notin plus
      /\ quota'[k] = IF k \in plus THEN quota[k] + 1 ELSE IF k \in minus THEN quota[k] - 1 ELSE quota[k]
  OBVIOUS
<1> HIDE DEF H, G
<1>7. quota'[k] = Cardinality(G) /\ Cardinality(G) \in Nat
  <2>1. Cardinality(H) \in Nat /\ Cardinality(G) \in Nat
    BY <1>1, <1>4, Count
  <2>2. CASE k \in plus
    <3>1. G = H \cup {q}
      BY <1>1, <1>2, <1>3, <1>4, <2>2
    <3> QED
      BY <1>1, <1>5, <2>1, <2>2, <3>1, Count
  <2>3. CASE k \notin plus /\ k \in minus
    <3>1. G = H \ {q}
      BY <1>1, <1>2, <1>3, <1>4, <2>3
    <3> QED
      BY <1>1, <1>5, <2>1, <2>3, <3>1, Count
  <2>4. CASE k \notin plus /\ k \notin minus
    <3>1. \A p \in QueueId : p \in G <=> p \in H
      BY <1>2, <1>3, <2>4
    <3>2. G = H
      BY <1>1, <1>4, <3>1
    <3> QED
      BY <1>1, <1>5, <2>1, <2>4, <3>2
  <2> QED
    BY <2>2, <2>3, <2>4
<1> QED
  BY <1>7 DEF G

\* Every step keeps the counters.
LEMMA QuotaStep ==
  ASSUME Absent, SpoolInv, CopiesFollow, QuotaInv,
         Nothing \/ Arrives \/ \E w \in workers : Writes(w)
  PROVE  QuotaInv'
<1>1. DOMAIN message = QueueId /\ quota \in [QuotaId -> Int]
  BY DEF SpoolInv, SpoolTypes, QuotaInv
<1>2. \A m : Shape(m) => m # NoMessage
  BY DEF Absent, Shape
<1>3. CASE Nothing
  BY <1>3 DEF Nothing, QuotaInv, Holders
<1>4. CASE Arrives
  <2>1. PICK q \in QueueId \ queued : \E m : Shape(m) /\ Queue(q, m)
    BY <1>4 DEF Arrives
  <2>2. PICK m : Shape(m) /\ Queue(q, m)
    BY <2>1
  <2>3. message[q] = NoMessage /\ m # NoMessage
    BY <1>2, <2>2 DEF SpoolInv, KnownIds
  <2>4. /\ message' = [message EXCEPT ![q] = m]
        /\ quota' = [k \in QuotaId |-> IF k \in m.quotaKeys THEN quota[k] + 1 ELSE quota[k]]
    BY <2>2 DEF Queue
  <2>5. \A k \in QuotaId : (q \in Holders(k)) <=> (message[q] # NoMessage /\ k \in message[q].quotaKeys)
    BY DEF Holders
  <2>6. KeysChange(q, m, m.quotaKeys, {})
    BY <2>3, <2>4, <2>5 DEF KeysChange
  <2> QED
    BY <1>1, <2>6, QuotaChange
<1>5. ASSUME NEW w \in workers, Writes(w) PROVE QuotaInv'
  <2>1. w.q \in QueueId /\ message[w.q] # NoMessage /\ Shape(w.msg) /\ message[w.q].quotaKeys = w.msg.quotaKeys
    BY <1>5, WriterCopy DEF Follows
  <2>2. \A k \in QuotaId : (w.q \in Holders(k)) <=> k \in w.msg.quotaKeys
    BY <2>1 DEF Holders
  <2>3. CASE Saves(w)
    <3> DEFINE n == ReleaseQuota(w.msg)
    <3>1. n # NoMessage /\ n.quotaKeys = w.msg.quotaKeys \ Releasable(w.msg)
      BY <1>2, <2>1, Released
    <3>2. /\ message' = [message EXCEPT ![w.q] = n]
          /\ quota' = [k \in QuotaId |-> IF k \in Releasable(w.msg) THEN quota[k] - 1 ELSE quota[k]]
      BY <2>3 DEF Saves, SaveChanges
    <3>3. Releasable(w.msg) \subseteq w.msg.quotaKeys
      BY DEF Releasable
    <3> HIDE DEF n
    <3>4. KeysChange(w.q, n, {}, Releasable(w.msg))
      BY <2>2, <3>1, <3>2, <3>3 DEF KeysChange
    <3> QED
      BY <1>1, <2>1, <3>4, QuotaChange
  <2>4. CASE Removes(w)
    <3>1. /\ message' = [message EXCEPT ![w.q] = NoMessage]
          /\ quota' = [k \in QuotaId |-> IF k \in w.msg.quotaKeys THEN quota[k] - 1 ELSE quota[k]]
      BY <2>4 DEF Removes, RemoveMessage
    <3>2. KeysChange(w.q, NoMessage, {}, w.msg.quotaKeys)
      BY <2>2, <3>1 DEF KeysChange
    <3> QED
      BY <1>1, <2>1, <3>2, QuotaChange
  <2> QED
    BY <1>5, <2>3, <2>4 DEF Writes
<1> QED
  BY <1>3, <1>4, <1>5

\* The empty spool satisfies the invariant.
LEMMA InitLife == ASSUME Sound PROVE Init => LifeInv
<1> SUFFICES ASSUME Init PROVE LifeInv
  OBVIOUS
<1>1. SpoolInv
  BY InitInv
<1>2. CopiesFollow
  BY DEF Init, CopiesFollow
<1>3. QuotaInv
  <2>1. \A k \in QuotaId : Holders(k) = {}
    BY DEF Init, Holders
  <2>2. Cardinality({}) = 0
    BY FS_EmptySet
  <2>3. quota \in [QuotaId -> Int] /\ \A k \in QuotaId : quota[k] = 0
    BY DEF Init
  <2> QED
    BY <2>1, <2>2, <2>3 DEF QuotaInv
<1> QED
  BY <1>1, <1>2, <1>3 DEF LifeInv

\* The copies of the workers follow the messages in the spool, and the counters
\* count their quota keys, throughout the life of every message.
THEOREM LifeInvariant == ASSUME Sound, Absent PROVE Spec => []LifeInv
<1>1. Init => LifeInv
  BY InitLife
<1>2. LifeInv /\ [Next]_vars => LifeInv'
  <2> SUFFICES ASSUME LifeInv, [Next]_vars PROVE LifeInv'
    OBVIOUS
  <2>1. SpoolInv /\ CopiesFollow /\ QuotaInv
    BY DEF LifeInv
  <2>2. SpoolInv'
    BY <2>1, NextInv
  <2>3. CopiesFollow'
    BY <2>1, CopiesStep
  <2>4. QuotaInv'
    BY <2>1, WhatHappens, QuotaStep
  <2> QED
    BY <2>2, <2>3, <2>4 DEF LifeInv
<1> QED
  BY <1>1, <1>2, PTL DEF Spec

\* The quota counters of the store count the keys of the messages in the spool:
\* queueing adds a key once, save_changes and remove release it once.
THEOREM QuotaCounts == ASSUME Sound, Absent PROVE Spec => []QuotaAccounts
<1>1. LifeInv => QuotaAccounts
  BY DEF LifeInv, QuotaInv, Holders, QuotaAccounts
<1> QED
  BY <1>1, LifeInvariant, PTL

\* A worker delivers only to recipients that the spool holds as undelivered: the
\* copy that deliver_task works on has not forgotten what is final.
THEOREM NoStale == ASSUME Sound, Absent PROVE Spec => NoStaleDelivery
<1>1. ASSUME LifeInv, [Next]_vars
      PROVE  \A q \in QueueId, r \in Rcpt :
               delivered'[q][r] > delivered[q][r] =>
                 message[q] # NoMessage /\ message[q].rcpts[r].status \in Unfinished
  <2> SUFFICES ASSUME NEW q \in QueueId, NEW r \in Rcpt, delivered'[q][r] > delivered[q][r]
               PROVE  message[q] # NoMessage /\ message[q].rcpts[r].status \in Unfinished
    OBVIOUS
  <2>1. delivered \in [QueueId -> [Rcpt -> Nat]] /\ Delivers
    BY <1>1, WhatHappens DEF LifeInv, CopiesFollow
  <2>2. ~UNCHANGED delivered
    BY <2>1
  <2>3. PICK w \in workers : \E got :
          /\ message[w.q] # NoMessage /\ delivered' = Bump(delivered, w.q, got)
          /\ \A s \in got : s \in DOMAIN message[w.q].rcpts /\ message[w.q].rcpts[s].status \in Unfinished
    BY <2>1, <2>2 DEF Delivers
  <2>4. PICK got :
          /\ message[w.q] # NoMessage /\ delivered' = Bump(delivered, w.q, got)
          /\ \A s \in got : s \in DOMAIN message[w.q].rcpts /\ message[w.q].rcpts[s].status \in Unfinished
    BY <2>3
  <2>5. q = w.q /\ r \in got
    BY <2>1, <2>4 DEF Bump
  <2> QED
    BY <2>4, <2>5
<1>2. LifeInv /\ [Next]_vars =>
        [\A q \in QueueId, r \in Rcpt :
           delivered'[q][r] > delivered[q][r] =>
             message[q] # NoMessage /\ message[q].rcpts[r].status \in Unfinished]_vars
  BY <1>1
<1> QED
  BY <1>2, LifeInvariant, PTL DEF Spec, NoStaleDelivery

\* What a step does to a message that is in the spool and stays there.
LEMMA StaysFinal ==
  ASSUME Sound, SpoolInv, CopiesFollow, [Next]_vars,
         NEW q \in QueueId, message[q] # NoMessage, message'[q] # NoMessage
  PROVE  message'[q] = message[q] \/ \E m : Follows(message[q], m) /\ message'[q].rcpts = m.rcpts
<1>1. Nothing \/ Arrives \/ \E w \in workers : Writes(w)
  BY WhatHappens
<1>2. CASE Nothing
  BY <1>2 DEF Nothing
<1>3. CASE Arrives
  <2>1. q \in queued /\ DOMAIN message = QueueId
    BY DEF SpoolInv, SpoolTypes, KnownIds
  <2> QED
    BY <1>3, <2>1 DEF Arrives, Queue
<1>4. ASSUME NEW w \in workers, Writes(w)
      PROVE  message'[q] = message[q] \/ \E m : Follows(message[q], m) /\ message'[q].rcpts = m.rcpts
  <2>1. /\ w.q \in QueueId /\ Shape(w.msg) /\ Follows(message[w.q], w.msg)
        /\ \A p \in QueueId : p # w.q => message'[p] = message[p]
    BY <1>4, WriterCopy
  <2>2. message'[w.q] \in {NoMessage, ReleaseQuota(w.msg)}
    BY <1>4, <2>1 DEF Writes, Saves, Removes, SaveChanges, RemoveMessage, SpoolInv, SpoolTypes
  <2>3. ReleaseQuota(w.msg).rcpts = w.msg.rcpts
    BY <2>1, Released
  <2> QED
    BY <2>1, <2>2, <2>3
<1> QED
  BY <1>1, <1>2, <1>3, <1>4

\* What is final stays final: no write of a worker changes the status that the
\* spool records for a recipient that was delivered to or failed.
THEOREM FinalStays == ASSUME Sound, Absent PROVE Spec => FinalStatusStays
<1> DEFINE Keeps(q, r) ==
             message[q].rcpts[r].status \notin Unfinished =>
               message'[q].rcpts[r] = [message[q].rcpts[r] EXCEPT !.dsnSent = message'[q].rcpts[r].dsnSent]
<1>1. ASSUME LifeInv, [Next]_vars, NEW q \in QueueId, message[q] # NoMessage, message'[q] # NoMessage,
             NEW r \in DOMAIN message[q].rcpts
      PROVE  Keeps(q, r)
  <2> DEFINE a == message[q].rcpts[r]
             b == message'[q].rcpts[r]
  <2>1. SpoolInv /\ CopiesFollow
    BY <1>1 DEF LifeInv
  <2>2. a \in RcptState
    BY <1>1, <2>1 DEF CopiesFollow, Shape
  <2>3. CASE message'[q] = message[q]
    <3>1. b = a
      BY <2>3
    <3> HIDE DEF a, b
    <3>2. b = [a EXCEPT !.dsnSent = b.dsnSent]
      BY <2>2, <3>1 DEF RcptState
    <3> QED
      BY <3>2 DEF a, b
  <2>4. ASSUME NEW m, Follows(message[q], m), message'[q].rcpts = m.rcpts
        PROVE  Keeps(q, r)
    <3>1. b \in RcptState
      BY <1>1, <2>4 DEF Follows, Shape
    <3>2. a.status \notin Unfinished => b.status = a.status /\ b.notify = a.notify
      BY <1>1, <2>4 DEF Follows, Final
    <3> HIDE DEF a, b
    <3>3. a.status \notin Unfinished => b = [a EXCEPT !.dsnSent = b.dsnSent]
      BY <2>2, <3>1, <3>2 DEF RcptState
    <3> QED
      BY <3>3 DEF a, b
  <2> QED
    BY <1>1, <2>1, <2>3, <2>4, StaysFinal
<1>2. LifeInv /\ [Next]_vars =>
        [\A q \in QueueId :
           message[q] # NoMessage /\ message'[q] # NoMessage =>
             \A r \in DOMAIN message[q].rcpts :
               message[q].rcpts[r].status \notin Unfinished =>
                 message'[q].rcpts[r] = [message[q].rcpts[r] EXCEPT !.dsnSent = message'[q].rcpts[r].dsnSent]]_vars
  BY <1>1
<1> QED
  BY <1>2, LifeInvariant, PTL DEF Spec, FinalStatusStays

-------------------------------------------------------------------------------
(* The managers.  Nothing below uses Sound: what a manager counts does not    *)
(* depend on locks, reads or requests.                                        *)

\* The messages a manager holds as in flight.
Held(g) == {q \in QueueId : g.hold[q] = InFlight}

\* The reports that wait in its channel.
Landed(s) == {i \in DOMAIN s : s[i].type = "WorkerDone"}

\* Manager g of node n, its channel s and the workers W fit together: each message
\* in flight has one worker or one report, and these have no others.
Flights(n, g, s, W) ==
    /\ \A w \in W : w.node = n => w.q \in Held(g)
    /\ \A v, w \in W : v.node = n /\ w.node = n /\ v.q = w.q => v = w
    /\ \A i \in Landed(s) : s[i].q \in Held(g)
    /\ \A i, j \in Landed(s) : s[i].q = s[j].q => i = j
    /\ \A w \in W, i \in Landed(s) : w.node = n => w.q # s[i].q
    /\ \A q \in Held(g) : (\E w \in W : w.node = n /\ w.q = q) \/ (\E i \in Landed(s) : s[i].q = q)
    /\ g.inFlight = Cardinality(Held(g)) /\ g.inFlight <= MaxThreads

\* The types the count depends on.
HasManagerFields(g) ==
    /\ DOMAIN g = {"alive", "paused", "hold", "inFlight", "backPressure", "wakeUp"}
    /\ DOMAIN g.hold = QueueId

CountedWorker(w) ==
    /\ HasWorkerFields(w) /\ w.node \in Node /\ w.q \in QueueId
    /\ w.status \in {"Completed", "Deferred", "Locked"} /\ w.until \in Nat

RequestIds ==
    api # IdleApi =>
        /\ DOMAIN api = {"pc", "op", "node", "ids", "q", "msg", "items", "at", "changed", "resume"}
        /\ api.node \in Node /\ api.ids \subseteq QueueId /\ api.q \in QueueId

CountTypes ==
    /\ now \in Nat
    /\ \A e \in events : e.q \in QueueId
    /\ mgr = [n \in Node |-> mgr[n]] /\ \A n \in Node : HasManagerFields(mgr[n])
    /\ chan \in [Node -> Seq(ManagerEvent)]
    /\ \A w \in workers : CountedWorker(w)
    /\ RequestIds

CountInv ==
    CountTypes /\ \A n \in Node : mgr[n].alive => Flights(n, mgr[n], chan[n], workers)

\* The channel after a send.
LEMMA AppendLanded ==
  ASSUME NEW s \in Seq(ManagerEvent), NEW ev \in ManagerEvent
  PROVE  LET t == Append(s, ev)
         IN /\ t \in Seq(ManagerEvent)
            /\ \A i \in Landed(s) : i \in Landed(t) /\ t[i] = s[i]
            /\ \A i \in Landed(t) :
                 (i \in Landed(s) /\ t[i] = s[i])
                   \/ (i = Len(s) + 1 /\ i \notin Landed(s) /\ t[i] = ev /\ ev.type = "WorkerDone")
            /\ ev.type = "WorkerDone" => Len(s) + 1 \in Landed(t) /\ t[Len(s) + 1] = ev
  BY DEF Landed

\* Other events do not count.
LEMMA FlightsNotice ==
  ASSUME NEW n, NEW g, NEW s \in Seq(ManagerEvent), NEW W,
         NEW ev \in ManagerEvent, ev.type # "WorkerDone", Flights(n, g, s, W)
  PROVE  Flights(n, g, Append(s, ev), W)
<1> DEFINE t == Append(s, ev)
<1>a. /\ \A i \in Landed(s) : i \in Landed(t) /\ t[i] = s[i]
      /\ \A i \in Landed(t) : i \in Landed(s) /\ t[i] = s[i]
  BY AppendLanded
<1> HIDE DEF t
<1>1. Landed(t) = Landed(s) /\ \A i \in Landed(s) : t[i] = s[i]
  BY <1>a
<1>2. Flights(n, g, t, W)
  BY <1>1 DEF Flights
<1> QED
  BY <1>2 DEF t

\* A worker turns into its report.
LEMMA FlightsReport ==
  ASSUME NEW n, NEW g, NEW s \in Seq(ManagerEvent), NEW W, NEW w \in W, w.node = n,
         NEW ev \in ManagerEvent, ev.type = "WorkerDone", ev.q = w.q, Flights(n, g, s, W)
  PROVE  Flights(n, g, Append(s, ev), W \ {w})
<1> DEFINE t == Append(s, ev)
           l == Len(s) + 1
<1>a. /\ \A i \in Landed(s) : i \in Landed(t) /\ t[i] = s[i]
      /\ \A i \in Landed(t) :
           (i \in Landed(s) /\ t[i] = s[i])
             \/ (i = Len(s) + 1 /\ i \notin Landed(s) /\ t[i] = ev /\ ev.type = "WorkerDone")
      /\ ev.type = "WorkerDone" => Len(s) + 1 \in Landed(t) /\ t[Len(s) + 1] = ev
  BY Zenon, AppendLanded
<1>1. /\ \A i \in Landed(s) : i \in Landed(t) /\ t[i] = s[i]
      /\ \A i \in Landed(t) : (i \in Landed(s) /\ t[i] = s[i]) \/ (i = l /\ t[i] = ev)
      /\ l \in Landed(t) /\ t[l] = ev
  BY Zenon, <1>a
<1> HIDE DEF t, l
<1>2. \A i, j \in Landed(t) : t[i].q = t[j].q => i = j
  BY <1>1 DEF Flights
<1>3. \A v \in W \ {w}, i \in Landed(t) : v.node = n => v.q # t[i].q
  BY <1>1 DEF Flights
<1>4. \A q \in Held(g) :
        (\E v \in W \ {w} : v.node = n /\ v.q = q) \/ (\E i \in Landed(t) : t[i].q = q)
  <2> TAKE q \in Held(g)
  <2>1. CASE q = w.q
    BY <1>1, <2>1
  <2>2. CASE q # w.q /\ \E v \in W : v.node = n /\ v.q = q
    BY <2>2
  <2>3. CASE \E i \in Landed(s) : s[i].q = q
    BY <1>1, <2>3
  <2> QED
    BY <2>1, <2>2, <2>3 DEF Flights
<1>5. \A i \in Landed(t) : t[i].q \in Held(g)
  BY <1>1 DEF Flights
<1>6. Flights(n, g, t, W \ {w})
  BY <1>2, <1>3, <1>4, <1>5 DEF Flights
<1> QED
  BY <1>6 DEF t

\* Workers of other nodes come and go.
LEMMA FlightsElsewhere ==
  ASSUME NEW n, NEW g, NEW s, NEW W, NEW V, Flights(n, g, s, W),
         {w \in V : w.node = n} = {w \in W : w.node = n}
  PROVE  Flights(n, g, s, V)
<1>1. \A w : w \in V /\ w.node = n <=> w \in W /\ w.node = n
  OBVIOUS
<1> QED
  BY <1>1 DEF Flights

\* A worker goes on.
LEMMA FlightsGoOn ==
  ASSUME NEW n, NEW g, NEW s, NEW W, NEW w \in W, NEW v, v.node = w.node, v.q = w.q,
         Flights(n, g, s, W)
  PROVE  Flights(n, g, s, (W \ {w}) \cup {v})
<1> DEFINE V == (W \ {w}) \cup {v}
<1>1. \A x \in V : \E y \in W : x.node = y.node /\ x.q = y.q /\ (y = w => x = v) /\ (y # w => x = y)
  OBVIOUS
<1>2. \A y \in W : \E x \in V : x.node = y.node /\ x.q = y.q
  OBVIOUS
<1> HIDE DEF V
<1>3. \A x, y \in V : x.node = n /\ y.node = n /\ x.q = y.q => x = y
  BY <1>1 DEF Flights
<1>4. \A x \in V : x.node = n => x.q \in Held(g)
  BY <1>1 DEF Flights
<1>5. \A x \in V, i \in Landed(s) : x.node = n => x.q # s[i].q
  BY <1>1 DEF Flights
<1>6. \A q \in Held(g) : (\E x \in V : x.node = n /\ x.q = q) \/ (\E i \in Landed(s) : s[i].q = q)
  BY <1>2 DEF Flights
<1>7. Flights(n, g, s, V)
  BY <1>3, <1>4, <1>5, <1>6 DEF Flights
<1> QED
  BY <1>7 DEF V

\* The channel after the manager took an event.
LEMMA TailLanded ==
  ASSUME NEW s \in Seq(ManagerEvent), s # <<>>
  PROVE  LET t == Tail(s)
         IN /\ t \in Seq(ManagerEvent) /\ Head(s) \in ManagerEvent /\ Head(s) = s[1]
            /\ Head(s).type = "WorkerDone" <=> 1 \in Landed(s)
            /\ \A i \in Landed(t) : i \in Nat /\ i + 1 \in Landed(s) /\ i + 1 # 1 /\ t[i] = s[i + 1]
            /\ \A i \in Landed(s) : i = 1 \/ (i - 1 \in Landed(t) /\ t[i - 1] = s[i])
  BY DEF Landed

\* What an event does to the fields of the manager.
LEMMA HandledFields ==
  ASSUME NEW g, HasManagerFields(g), NEW ev \in ManagerEvent
  PROVE  HasManagerFields(HandleEvent(g, ev))
  BY DEF HasManagerFields, HandleEvent, ManagerEvent

LEMMA HandledReport ==
  ASSUME NEW g, HasManagerFields(g), NEW ev \in ManagerEvent, HandleEvent(g, ev).alive,
         ev.type = "WorkerDone", ev.q \in QueueId
  PROVE  LET h == HandleEvent(g, ev)
         IN Held(h) = Held(g) \ {ev.q} /\ h.inFlight = g.inFlight - 1
<1>1. NotHeld # InFlight /\ \A t : [kind |-> "Locked", until |-> t] # InFlight
  BY DEF NotHeld, InFlight
<1>2. CASE ev.status \in {"Completed", "Deferred"}
  <2>1. HandleEvent(g, ev) = [g EXCEPT !.inFlight = @ - 1, !.hold[ev.q] = NotHeld]
    BY <1>2 DEF HandleEvent
  <2> QED
    BY <1>1, <2>1 DEF HasManagerFields, Held
<1>3. CASE ev.status = "Locked"
  <2>1. CASE ev.until < now
    <3>1. HandleEvent(g, ev) = [g EXCEPT !.alive = FALSE]
      BY <1>3, <2>1 DEF HandleEvent
    <3> QED
      BY <3>1 DEF HasManagerFields
  <2>2. CASE ~(ev.until < now)
    <3>1. HandleEvent(g, ev) =
            [[g EXCEPT !.inFlight = @ - 1, !.hold[ev.q] = NotHeld]
               EXCEPT !.hold[ev.q] = [kind |-> "Locked", until |-> ev.until],
                      !.wakeUp = Min({@, ev.until})]
      BY <1>3, <2>2 DEF HandleEvent
    <3> QED
      BY <1>1, <3>1 DEF HasManagerFields, Held
  <2> QED
    BY <2>1, <2>2
<1> QED
  BY <1>2, <1>3 DEF ManagerEvent

LEMMA HandledNotice ==
  ASSUME NEW g, HasManagerFields(g), NEW ev \in ManagerEvent, ev.type # "WorkerDone"
  PROVE  LET h == HandleEvent(g, ev)
         IN h.hold = g.hold /\ h.inFlight = g.inFlight
  BY DEF HasManagerFields, HandleEvent, ManagerEvent

\* A report ends a flight.
LEMMA FlightsHandled ==
  ASSUME NEW n, NEW g, HasManagerFields(g), NEW s \in Seq(ManagerEvent), s # <<>>, NEW W,
         Flights(n, g, s, W), HandleEvent(g, Head(s)).alive
  PROVE  Flights(n, HandleEvent(g, Head(s)), Tail(s), W)
<1> DEFINE ev == Head(s)
           h == HandleEvent(g, ev)
           t == Tail(s)
<1>1. /\ ev \in ManagerEvent /\ ev = s[1]
      /\ ev.type = "WorkerDone" <=> 1 \in Landed(s)
      /\ \A i \in Landed(t) : i \in Nat /\ i + 1 \in Landed(s) /\ i + 1 # 1 /\ t[i] = s[i + 1]
      /\ \A i \in Landed(s) : i = 1 \/ (i - 1 \in Landed(t) /\ t[i - 1] = s[i])
  BY TailLanded
<1>2. ev.type = "WorkerDone" => ev.q \in QueueId
  BY <1>1 DEF Flights, Held
<1>3. IsFiniteSet(Held(g))
  BY SpoolAssumption, FS_Subset DEF Held
<1>4. CASE ev.type = "WorkerDone"
  <2>1. Held(h) = Held(g) \ {ev.q} /\ h.inFlight = g.inFlight - 1
    BY <1>1, <1>2, <1>4, HandledReport
  <2> HIDE DEF h, t, ev
  <2>2. ev.q \in Held(g)
    BY <1>1, <1>4 DEF Flights
  <2>3. h.inFlight = Cardinality(Held(h)) /\ h.inFlight <= MaxThreads
    <3>1. Cardinality(Held(h)) = Cardinality(Held(g)) - 1
      BY <1>3, <2>1, <2>2, FS_RemoveElement
    <3>2. Cardinality(Held(g)) \in Nat
      BY <1>3, FS_CardinalityType
    <3> QED
      BY <2>1, <3>1, <3>2, SpoolAssumption DEF Flights
  <2>4. \A i \in Landed(t) : t[i].q # ev.q
    BY <1>1, <1>4 DEF Flights
  <2>5. \A w \in W : w.node = n => w.q # ev.q
    BY <1>1, <1>4 DEF Flights
  <2>6. \A w \in W : w.node = n => w.q \in Held(h)
    BY <2>1, <2>5 DEF Flights
  <2>7. \A i \in Landed(t) : t[i].q \in Held(h)
    BY <1>1, <2>1, <2>4 DEF Flights
  <2>8. \A i, j \in Landed(t) : t[i].q = t[j].q => i = j
    <3> SUFFICES ASSUME NEW i \in Landed(t), NEW j \in Landed(t), t[i].q = t[j].q PROVE i = j
      OBVIOUS
    <3>a. i + 1 \in Landed(s) /\ j + 1 \in Landed(s) /\ s[i + 1].q = s[j + 1].q
      BY <1>1
    <3>b. \A k, l \in Landed(s) : s[k].q = s[l].q => k = l
      BY DEF Flights
    <3>1. i + 1 = j + 1
      BY <3>a, <3>b
    <3> QED
      BY <1>1, <3>1
  <2>9. \A w \in W, i \in Landed(t) : w.node = n => w.q # t[i].q
    BY <1>1 DEF Flights
  <2>10. \A q \in Held(h) : (\E w \in W : w.node = n /\ w.q = q) \/ (\E i \in Landed(t) : t[i].q = q)
    BY <1>1, <2>1 DEF Flights
  <2>11. Flights(n, h, t, W)
    BY <2>3, <2>6, <2>7, <2>8, <2>9, <2>10 DEF Flights
  <2> QED
    BY <2>11 DEF h, t, ev
<1>5. CASE ev.type # "WorkerDone"
  <2>1. h.hold = g.hold /\ h.inFlight = g.inFlight
    BY <1>1, <1>5, HandledNotice
  <2>2. Held(h) = Held(g)
    BY <2>1 DEF Held
  <2> HIDE DEF h, t, ev
  <2>3. \A i \in Landed(s) : i - 1 \in Landed(t) /\ t[i - 1] = s[i]
    BY <1>1, <1>5
  <2>4. \A i, j \in Landed(t) : t[i].q = t[j].q => i = j
    <3> SUFFICES ASSUME NEW i \in Landed(t), NEW j \in Landed(t), t[i].q = t[j].q PROVE i = j
      OBVIOUS
    <3>a. i + 1 \in Landed(s) /\ j + 1 \in Landed(s) /\ s[i + 1].q = s[j + 1].q
      BY <1>1
    <3>b. \A k, l \in Landed(s) : s[k].q = s[l].q => k = l
      BY DEF Flights
    <3>1. i + 1 = j + 1
      BY <3>a, <3>b
    <3> QED
      BY <1>1, <3>1
  <2>5. \A i \in Landed(t) : t[i].q \in Held(h)
    BY <1>1, <2>2 DEF Flights
  <2>6. \A w \in W, i \in Landed(t) : w.node = n => w.q # t[i].q
    BY <1>1 DEF Flights
  <2>7. \A q \in Held(h) : (\E w \in W : w.node = n /\ w.q = q) \/ (\E i \in Landed(t) : t[i].q = q)
    BY <2>2, <2>3 DEF Flights
  <2>8. Flights(n, h, t, W)
    BY <2>1, <2>2, <2>4, <2>5, <2>6, <2>7 DEF Flights
  <2> QED
    BY <2>8 DEF h, t, ev
<1> QED
  BY <1>4, <1>5

\* Sets in bijection have the same size.
LEMMA SameSize ==
  ASSUME NEW S, NEW T, IsFiniteSet(T), NEW f \in [S -> T],
         \A x, y \in S : f[x] = f[y] => x = y, \A z \in T : \E x \in S : f[x] = z
  PROVE  IsFiniteSet(S) /\ Cardinality(S) = Cardinality(T)
<1>1. f \in Injection(S, T) /\ f \in Surjection(S, T)
  BY DEF Injection, IsInjective, Surjection
<1> QED
  BY <1>1, FS_Injection

\* What the loop over the due events starts: one worker for each message that is
\* free, and no more than there is room for.
LEMMA DispatchedApart ==
  ASSUME NEW g, NEW due, NEW seen, NEW dispatched \in SUBSET seen, NEW shuffled,
         \A e \in seen : e.q \in QueueId,
         Dispatches(g, due, seen, dispatched, shuffled)
  PROVE  /\ \A e, f \in dispatched : e.q = f.q => e = f
         /\ \A e \in dispatched : e.q \notin Held(g)
         /\ Cardinality(dispatched) <= MaxThreads - g.inFlight
<1>1. \A e, f \in dispatched : e.q = f.q => e = f
  BY DEF Dispatches
<1>2. \A q \in QueueId : q \in {e.q : e \in dispatched} =>
        g.hold[q].kind = "None" \/ g.hold[q].kind = "Locked"
  BY DEF Dispatches
<1>3. \A e \in dispatched : e.q \notin Held(g)
  BY <1>2 DEF Held, InFlight
<1>4. Cardinality(dispatched) <= MaxThreads - g.inFlight
  BY DEF Dispatches
<1> QED
  BY <1>1, <1>3, <1>4

LEMMA FlightsDispatched ==
  ASSUME NEW n, NEW g, NEW s, NEW W, Flights(n, g, s, W),
         NEW dispatched, \A e \in dispatched : e.q \in QueueId /\ e.q \notin Held(g),
         \A e, f \in dispatched : e.q = f.q => e = f,
         Cardinality(dispatched) <= MaxThreads - g.inFlight,
         NEW h, Held(h) = Held(g) \cup {e.q : e \in dispatched},
         h.inFlight = g.inFlight + Cardinality(dispatched)
  PROVE  Flights(n, h, s, W \cup {NewWorker(n, e) : e \in dispatched})
<1> DEFINE D == {e.q : e \in dispatched}
           N == {NewWorker(n, e) : e \in dispatched}
<1>1. IsFiniteSet(D) /\ IsFiniteSet(Held(g)) /\ Held(g) \cap D = {}
  <2>1. D \subseteq QueueId /\ Held(g) \subseteq QueueId /\ Held(g) \cap D = {}
    BY DEF Held
  <2> QED
    BY <2>1, SpoolAssumption, FS_Subset
<1>2. IsFiniteSet(dispatched) /\ Cardinality(dispatched) = Cardinality(D)
  <2> DEFINE f == [e \in dispatched |-> e.q]
  <2>1. f \in [dispatched -> D]
    OBVIOUS
  <2>2. \A x, y \in dispatched : f[x] = f[y] => x = y
    OBVIOUS
  <2>3. \A z \in D : \E x \in dispatched : f[x] = z
    OBVIOUS
  <2> HIDE DEF f, D
  <2> QED
    BY <1>1, <2>1, <2>2, <2>3, SameSize
<1>3. h.inFlight = Cardinality(Held(h)) /\ h.inFlight <= MaxThreads
  <2>1. Cardinality(Held(h)) = Cardinality(Held(g)) + Cardinality(D) - Cardinality(Held(g) \cap D)
    BY <1>1, FS_Union
  <2>2. Cardinality(Held(g) \cap D) = 0
    BY <1>1, FS_EmptySet
  <2>3. Cardinality(Held(g)) \in Nat /\ Cardinality(D) \in Nat
    BY <1>1, FS_CardinalityType
  <2> HIDE DEF D
  <2> QED
    BY <1>2, <2>1, <2>2, <2>3, SpoolAssumption DEF Flights
<1>4. \A v \in N : \E e \in dispatched : v = NewWorker(n, e) /\ v.node = n /\ v.q = e.q
  BY DEF NewWorker
<1>5. \A e \in dispatched : \E v \in N : v.node = n /\ v.q = e.q
  <2> TAKE e \in dispatched
  <2>1. NewWorker(n, e) \in N
    OBVIOUS
  <2>2. NewWorker(n, e).node = n /\ NewWorker(n, e).q = e.q
    BY DEF NewWorker
  <2> QED
    BY <2>1, <2>2
<1>6. \A v \in N : v.q \in D /\ v.q \notin Held(g)
  BY <1>4
<1> HIDE DEF N
<1>7. \A w \in W \cup N : w.node = n => w.q \in Held(h)
  BY <1>6 DEF Flights
<1>8. \A v, w \in W \cup N : v.node = n /\ w.node = n /\ v.q = w.q => v = w
  <2> SUFFICES ASSUME NEW v \in W \cup N, NEW w \in W \cup N,
                      v.node = n, w.node = n, v.q = w.q
               PROVE  v = w
    OBVIOUS
  <2>1. CASE v \in N /\ w \in N
    BY <1>4, <2>1
  <2>2. CASE v \in W /\ w \in W
    BY <2>2 DEF Flights
  <2>3. \A x \in W : x.node = n => x.q \in Held(g)
    BY DEF Flights
  <2> QED
    BY <1>6, <2>1, <2>2, <2>3
<1>9. \A i \in Landed(s) : s[i].q \in Held(g) /\ s[i].q \in Held(h)
  BY DEF Flights
<1>10. \A w \in W \cup N, i \in Landed(s) : w.node = n => w.q # s[i].q
  BY <1>6, <1>9 DEF Flights
<1>11. \A q \in Held(h) :
        (\E w \in W \cup N : w.node = n /\ w.q = q) \/ (\E i \in Landed(s) : s[i].q = q)
  <2> TAKE q \in Held(h)
  <2>1. CASE q \in Held(g)
    BY <2>1 DEF Flights
  <2>2. CASE q \in D
    BY <1>5, <2>2
  <2> QED
    BY <2>1, <2>2
<1>12. Flights(n, h, s, W \cup N)
  <2>1. \A i, j \in Landed(s) : s[i].q = s[j].q => i = j
    BY DEF Flights
  <2> QED
    BY <1>3, <1>7, <1>8, <1>9, <1>10, <1>11, <2>1 DEF Flights
<1> QED
  BY <1>12 DEF N

\* What the loop leaves in the table of locked messages.
LEMMA HeldAfter ==
  ASSUME NEW g, NEW dispatched, \A e \in dispatched : e.q \in QueueId, NEW c \in BOOLEAN, NEW h
  PROVE  LET H == [q \in QueueId |-> IF q \in {e.q : e \in dispatched} THEN InFlight ELSE g.hold[q]]
         IN h.hold = (IF c THEN Cleanup(H) ELSE H) =>
              DOMAIN h.hold = QueueId /\ Held(h) = Held(g) \cup {e.q : e \in dispatched}
<1> DEFINE D == {e.q : e \in dispatched}
           H == [q \in QueueId |-> IF q \in D THEN InFlight ELSE g.hold[q]]
<1>1. D \subseteq QueueId
  OBVIOUS
<1> HIDE DEF D
<1>2. \A q \in QueueId : H[q] = InFlight <=> q \in D \/ g.hold[q] = InFlight
  OBVIOUS
<1>3. DOMAIN H = QueueId
  OBVIOUS
<1> HIDE DEF H
<1>4. \A q \in QueueId : Cleanup(H)[q] = InFlight <=> H[q] = InFlight
  BY DEF Cleanup, InFlight, NotHeld
<1>5. DOMAIN Cleanup(H) = QueueId
  BY DEF Cleanup
<1>6. ASSUME h.hold = (IF c THEN Cleanup(H) ELSE H)
      PROVE  DOMAIN h.hold = QueueId /\ Held(h) = Held(g) \cup D
  BY <1>1, <1>2, <1>3, <1>4, <1>5, <1>6 DEF Held
<1> QED
  BY <1>6 DEF H, D

\* A turn of the manager of node n, whose state is g after the event it took, leaves
\* it in a state h that fits its channel s and the workers with the new ones N.
Turns(n, g, s) ==
    \E h, N :
      /\ mgr' = [mgr EXCEPT ![n] = h] /\ workers' = workers \cup N
      /\ HasManagerFields(h) /\ (h.alive => g.alive)
      /\ \A v \in N : v.node = n /\ CountedWorker(v)
      /\ h.alive => Flights(n, h, s, workers \cup N)

LEMMA ProcessTurns ==
  ASSUME NEW n \in Node, NEW g, HasManagerFields(g), NEW s, g.alive, Flights(n, g, s, workers),
         NEW scan, \A e \in scan.due : e.q \in QueueId, ProcessQueue(n, g, scan)
  PROVE  Turns(n, g, s)
<1> DEFINE
      Start(seen, cleanup, dispatched, shuffled, wake) ==
        /\ seen \in SUBSET scan.due /\ dispatched \in SUBSET seen /\ cleanup \in BOOLEAN
        /\ Dispatches(g, scan.due, seen, dispatched, shuffled)
        /\ LET D == {e.q : e \in dispatched}
               hold == [q \in QueueId |-> IF q \in D THEN InFlight ELSE g.hold[q]]
           IN mgr' = [mgr EXCEPT ![n] =
                 [g EXCEPT !.hold = IF cleanup THEN Cleanup(hold) ELSE hold,
                           !.inFlight = @ + Cardinality(dispatched),
                           !.backPressure = seen # scan.due,
                           !.wakeUp = wake]]
        /\ workers' = workers \cup {NewWorker(n, e) : e \in dispatched}
<1>1. PICK seen, cleanup, dispatched, shuffled, wake :
        Start(seen, cleanup, dispatched, shuffled, wake)
  BY Zenon DEF ProcessQueue
<1> DEFINE D == {e.q : e \in dispatched}
           hold == [q \in QueueId |-> IF q \in D THEN InFlight ELSE g.hold[q]]
           after == IF cleanup THEN Cleanup(hold) ELSE hold
           h == [g EXCEPT !.hold = after, !.inFlight = @ + Cardinality(dispatched),
                          !.backPressure = seen # scan.due, !.wakeUp = wake]
           N == {NewWorker(n, e) : e \in dispatched}
<1>2. mgr' = [mgr EXCEPT ![n] = h] /\ workers' = workers \cup N
  BY <1>1
<1>3. \A e \in dispatched : e.q \in QueueId
  BY <1>1
<1> HIDE DEF after
<1>4. /\ DOMAIN h = {"alive", "paused", "hold", "inFlight", "backPressure", "wakeUp"}
      /\ h.alive = g.alive /\ h.hold = after
      /\ h.inFlight = g.inFlight + Cardinality(dispatched)
  BY DEF HasManagerFields
<1> HIDE DEF h
<1>5. DOMAIN h.hold = QueueId /\ Held(h) = Held(g) \cup D
  BY <1>1, <1>3, <1>4, HeldAfter DEF after
<1>6. /\ \A e, f \in dispatched : e.q = f.q => e = f
      /\ \A e \in dispatched : e.q \notin Held(g)
      /\ Cardinality(dispatched) <= MaxThreads - g.inFlight
  BY <1>1, DispatchedApart
<1>7. Flights(n, h, s, workers \cup N)
  BY <1>3, <1>4, <1>5, <1>6, FlightsDispatched
<1>8. \A v \in N : v.node = n /\ CountedWorker(v)
  BY <1>3 DEF NewWorker, CountedWorker, HasWorkerFields
<1>9. HasManagerFields(h) /\ h.alive
  BY <1>4, <1>5 DEF HasManagerFields
<1> QED
  BY <1>2, <1>7, <1>8, <1>9 DEF Turns

\* The manager only changes when it sleeps until.
LEMMA SleepTurns ==
  ASSUME NEW n, NEW g, HasManagerFields(g), NEW s, g.alive => Flights(n, g, s, workers),
         NEW h, HasManagerFields(h), h.alive = g.alive, h.hold = g.hold, h.inFlight = g.inFlight,
         Sleep(n, h)
  PROVE  Turns(n, g, s)
<1>1. Held(h) = Held(g)
  BY DEF Held
<1>2. h.alive => Flights(n, h, s, workers)
  BY <1>1 DEF Flights
<1> DEFINE N == {}
<1>3. workers' = workers \cup N /\ workers \cup N = workers /\ mgr' = [mgr EXCEPT ![n] = h]
  BY DEF Sleep
<1>4. \A v \in N : v.node = n /\ CountedWorker(v)
  OBVIOUS
<1> HIDE DEF N
<1> QED
  BY <1>2, <1>3, <1>4 DEF Turns

LEMMA DeliverTurns ==
  ASSUME CountTypes, NEW n \in Node, NEW g, HasManagerFields(g), NEW s,
         g.alive => Flights(n, g, s, workers), NEW refresh, Deliver(n, g, refresh)
  PROVE  Turns(n, g, s)
<1>1. CASE Sleep(n, g)
  BY <1>1, SleepTurns
<1>2. CASE \E t : Sleep(n, [g EXCEPT !.wakeUp = t])
  <2>1. PICK t : Sleep(n, [g EXCEPT !.wakeUp = t])
    BY <1>2
  <2> DEFINE h == [g EXCEPT !.wakeUp = t]
  <2>2. HasManagerFields(h) /\ h.alive = g.alive /\ h.hold = g.hold /\ h.inFlight = g.inFlight
    BY DEF HasManagerFields
  <2> HIDE DEF h
  <2>3. Sleep(n, h)
    BY <2>1 DEF h
  <2> QED
    BY <2>2, <2>3, SleepTurns
<1>3. CASE \E t : Sleep(n, [g EXCEPT !.backPressure = TRUE, !.wakeUp = t])
  <2>1. PICK t : Sleep(n, [g EXCEPT !.backPressure = TRUE, !.wakeUp = t])
    BY <1>3
  <2> DEFINE h == [g EXCEPT !.backPressure = TRUE, !.wakeUp = t]
  <2>2. HasManagerFields(h) /\ h.alive = g.alive /\ h.hold = g.hold /\ h.inFlight = g.inFlight
    BY DEF HasManagerFields
  <2> HIDE DEF h
  <2>3. Sleep(n, h)
    BY <2>1 DEF h
  <2> QED
    BY <2>2, <2>3, SleepTurns
<1>4. CASE g.alive /\ \E scan \in FullScans \cup PartialScans : ProcessQueue(n, g, scan)
  <2>1. PICK scan \in FullScans \cup PartialScans : ProcessQueue(n, g, scan)
    BY <1>4
  <2>2. scan.due \subseteq events
    BY DEF FullScans, PartialScans
  <2>3. \A e \in scan.due : e.q \in QueueId
    BY <2>2 DEF CountTypes
  <2> QED
    BY <1>4, <2>1, <2>3, ProcessTurns
<1> QED
  <2>1. \/ Sleep(n, g)
        \/ Sleep(n, [g EXCEPT !.wakeUp = At(now + PausedWait)])
        \/ Sleep(n, [g EXCEPT !.backPressure = TRUE, !.wakeUp = At(now + QueueRefresh)])
        \/ g.alive /\ \E scan \in FullScans : ProcessQueue(n, g, scan)
        \/ g.alive /\ \E scan \in PartialScans : ProcessQueue(n, g, scan)
    BY Zenon DEF Deliver
  <2> QED
    BY <1>1, <1>2, <1>3, <1>4, <2>1, Zenon

\* A turn keeps what is counted, on its node and elsewhere.
LEMMA TurnCounts ==
  ASSUME CountInv, NEW n \in Node, NEW g, NEW s \in Seq(ManagerEvent), Turns(n, g, s),
         chan' = [chan EXCEPT ![n] = IF g.alive THEN s ELSE <<>>],
         now' = now, events' = events, api' = api
  PROVE  CountInv'
<1>1. PICK h, N :
        /\ mgr' = [mgr EXCEPT ![n] = h] /\ workers' = workers \cup N
        /\ HasManagerFields(h) /\ (h.alive => g.alive)
        /\ \A v \in N : v.node = n /\ CountedWorker(v)
        /\ h.alive => Flights(n, h, s, workers \cup N)
  BY DEF Turns
<1>2. mgr'[n] = h /\ \A m \in Node : m # n => mgr'[m] = mgr[m]
  BY <1>1 DEF CountInv, CountTypes
<1>3. chan'[n] = (IF g.alive THEN s ELSE <<>>) /\ \A m \in Node : m # n => chan'[m] = chan[m]
  BY DEF CountInv, CountTypes
<1>4. CountTypes'
  <2>1. mgr' = [m \in Node |-> mgr'[m]] /\ \A m \in Node : HasManagerFields(mgr'[m])
    BY <1>1, <1>2 DEF CountInv, CountTypes
  <2>2. chan' \in [Node -> Seq(ManagerEvent)]
    BY DEF CountInv, CountTypes
  <2>3. \A w \in workers' : CountedWorker(w)
    BY <1>1 DEF CountInv, CountTypes
  <2>4. RequestIds'
    BY DEF CountInv, CountTypes, RequestIds, IdleApi
  <2> QED
    BY <2>1, <2>2, <2>3, <2>4 DEF CountInv, CountTypes, CountedWorker, HasWorkerFields, HasManagerFields
<1>5. ASSUME NEW m \in Node, mgr'[m].alive
      PROVE  Flights(m, mgr'[m], chan'[m], workers')
  <2>1. CASE m = n
    BY <1>1, <1>2, <1>3, <1>5, <2>1
  <2>2. CASE m # n
    <3>1. Flights(m, mgr[m], chan[m], workers)
      BY <1>2, <1>5, <2>2 DEF CountInv
    <3>2. {w \in workers \cup N : w.node = m} = {w \in workers : w.node = m}
      BY <1>1, <2>2
    <3>3. Flights(m, mgr[m], chan[m], workers \cup N)
      BY <3>1, <3>2, FlightsElsewhere
    <3> QED
      BY <1>1, <1>2, <1>3, <2>2, <3>3
  <2> QED
    BY <2>1, <2>2
<1>6. \A m \in Node : (mgr[m].alive => Flights(m, mgr[m], chan[m], workers))'
  BY <1>5 DEF Flights, Held, Landed
<1> QED
  BY <1>4, <1>6 DEF CountInv

LEMMA ManagerCounts ==
  ASSUME CountInv, NEW n \in Node, Receive(n) \/ WakeUp(n)
  PROVE  CountInv'
<1> DEFINE s == chan[n]
<1>1. HasManagerFields(mgr[n]) /\ s \in Seq(ManagerEvent) /\ CountTypes
  BY DEF CountInv, CountTypes
<1>2. mgr[n].alive /\ Flights(n, mgr[n], s, workers)
  BY DEF Receive, WakeUp, CountInv
<1>3. CASE Receive(n)
  <2> DEFINE ev == Head(s)
             g == HandleEvent(mgr[n], ev)
  <2>1. /\ s # <<>> /\ Deliver(n, g, RefreshQueue(g, ev))
        /\ chan' = [chan EXCEPT ![n] = IF g.alive THEN Tail(@) ELSE <<>>]
        /\ now' = now /\ events' = events /\ api' = api
    BY <1>3 DEF Receive, store
  <2>2. ev \in ManagerEvent /\ Tail(s) \in Seq(ManagerEvent)
    BY <1>1, <2>1, TailLanded
  <2>3. g.alive => Flights(n, g, Tail(s), workers)
    BY <1>1, <1>2, <2>1, FlightsHandled
  <2>4. HasManagerFields(g)
    BY <1>1, <2>2, HandledFields
  <2> HIDE DEF g
  <2>5. Turns(n, g, Tail(s))
    BY <1>1, <2>1, <2>3, <2>4, DeliverTurns
  <2>6. chan' = [chan EXCEPT ![n] = IF g.alive THEN Tail(s) ELSE <<>>]
    BY <2>1 DEF CountInv, CountTypes
  <2> QED
    BY <2>1, <2>2, <2>5, <2>6, TurnCounts
<1>4. CASE WakeUp(n)
  <2>1. /\ Deliver(n, mgr[n], TRUE) /\ chan' = chan
        /\ now' = now /\ events' = events /\ api' = api
    BY <1>4 DEF WakeUp, store
  <2>2. Turns(n, mgr[n], s)
    BY <1>1, <1>2, <2>1, DeliverTurns
  <2>3. chan' = [chan EXCEPT ![n] = IF mgr[n].alive THEN s ELSE <<>>]
    BY <1>2, <2>1 DEF CountInv, CountTypes
  <2> QED
    BY <1>1, <2>1, <2>2, <2>3, TurnCounts
<1> QED
  BY <1>3, <1>4

\* What the other steps do: a notice may be sent, a worker may go on.
KnownEvents == \A e \in events : e.q \in QueueId

Relays ==
    \/ chan' = chan
    \/ \E n \in Node, ev \in ManagerEvent : ev.type # "WorkerDone" /\ chan' = Sent(n, ev)

GoesOn(w) ==
    \E v : CountedWorker(v) /\ v.node = w.node /\ v.q = w.q /\ Becomes(w, v)

LEMMA RelayCounts ==
  ASSUME CountInv, Relays, mgr' = mgr, now' \in Nat, KnownEvents', RequestIds',
         workers' = workers \/ \E w \in workers : GoesOn(w)
  PROVE  CountInv'
<1>1. /\ chan' \in [Node -> Seq(ManagerEvent)]
      /\ \A n \in Node : mgr[n].alive => Flights(n, mgr[n], chan'[n], workers)
  <2>1. chan \in [Node -> Seq(ManagerEvent)]
    BY DEF CountInv, CountTypes
  <2>2. CASE chan' = chan
    BY <2>1, <2>2 DEF CountInv
  <2>3. ASSUME NEW n \in Node, NEW ev \in ManagerEvent, ev.type # "WorkerDone", chan' = Sent(n, ev),
               mgr[n].alive
        PROVE  /\ chan' \in [Node -> Seq(ManagerEvent)]
               /\ \A m \in Node : mgr[m].alive => Flights(m, mgr[m], chan'[m], workers)
    <3>1. chan' = [chan EXCEPT ![n] = Append(chan[n], ev)]
      BY <2>1, <2>3 DEF Sent
    <3>2. Append(chan[n], ev) \in Seq(ManagerEvent)
      BY <2>1
    <3>3. chan' \in [Node -> Seq(ManagerEvent)]
      BY <2>1, <3>1, <3>2
    <3>4. chan'[n] = Append(chan[n], ev) /\ \A m \in Node : m # n => chan'[m] = chan[m]
      BY <2>1, <3>1
    <3>5. Flights(n, mgr[n], chan[n], workers) /\ chan[n] \in Seq(ManagerEvent)
      BY <2>1, <2>3 DEF CountInv
    <3>6. Flights(n, mgr[n], Append(chan[n], ev), workers)
      BY <2>3, <3>5, FlightsNotice
    <3> QED
      BY <3>3, <3>4, <3>6 DEF CountInv
  <2> QED
    BY <2>2, <2>3 DEF Relays, Sent
<1>2. /\ \A w \in workers' : CountedWorker(w)
      /\ \A n \in Node : mgr[n].alive => Flights(n, mgr[n], chan'[n], workers')
  <2>1. CASE workers' = workers
    BY <1>1, <2>1 DEF CountInv, CountTypes
  <2>2. CASE \E w \in workers : GoesOn(w)
    <3>w. PICK w \in workers : GoesOn(w)
      BY <2>2
    <3>1. PICK v :
            CountedWorker(v) /\ v.node = w.node /\ v.q = w.q /\ workers' = (workers \ {w}) \cup {v}
      BY <3>w DEF GoesOn, Becomes
    <3>2. \A x \in workers' : CountedWorker(x)
      BY <3>1 DEF CountInv, CountTypes
    <3>3. ASSUME NEW n \in Node, mgr[n].alive
          PROVE  Flights(n, mgr[n], chan'[n], (workers \ {w}) \cup {v})
      <4>1. Flights(n, mgr[n], chan'[n], workers)
        BY <1>1, <3>3
      <4> QED
        BY <3>1, <4>1, FlightsGoOn
    <3> QED
      BY <3>1, <3>2, <3>3
  <2> QED
    BY <2>1, <2>2
<1>3. CountTypes'
  <2>1. mgr' = [n \in Node |-> mgr'[n]] /\ \A n \in Node : HasManagerFields(mgr'[n])
    BY DEF CountInv, CountTypes
  <2> QED
    BY <1>1, <1>2, <2>1 DEF CountTypes, KnownEvents, CountedWorker, HasWorkerFields, HasManagerFields
<1>4. \A n \in Node : mgr'[n].alive => Flights(n, mgr'[n], chan'[n], workers')
  BY <1>2
<1>5. \A n \in Node : (mgr[n].alive => Flights(n, mgr[n], chan[n], workers))'
  BY <1>4 DEF Flights, Held, Landed
<1> QED
  BY <1>3, <1>5 DEF CountInv

\* The events the batches write.
LEMMA QueueEvents ==
  ASSUME KnownEvents, NEW q \in QueueId, NEW m, Queue(q, m)
  PROVE  KnownEvents'
  BY DEF Queue, KnownEvents

LEMMA SaveEvents ==
  ASSUME KnownEvents, NEW q \in QueueId, NEW m, NEW p, NEW t, SaveChanges(q, m, p, t)
  PROVE  KnownEvents'
  BY DEF SaveChanges, KnownEvents

LEMMA RemoveEvents ==
  ASSUME KnownEvents, NEW q, NEW m, NEW p, RemoveMessage(q, m, p)
  PROVE  KnownEvents'
  BY DEF RemoveMessage, KnownEvents

\* The notices are events of the channel.
LEMMA Notices ==
  /\ Refresh \in ManagerEvent /\ Refresh.type = "Refresh"
  /\ Stop \in ManagerEvent /\ Stop.type = "Stop"
  /\ \A p \in BOOLEAN : Paused(p) \in ManagerEvent /\ Paused(p).type = "Paused"
  BY DEF Refresh, Stop, Paused, ManagerEvent

LEMMA SendDsnRelays ==
  ASSUME CountInv, NEW w \in workers, NEW m, SendDsn(w, m)
  PROVE  Relays /\ KnownEvents'
<1>1. w.node \in Node /\ KnownEvents
  BY DEF CountInv, CountTypes, CountedWorker, KnownEvents
<1>2. CASE \E q \in QueueId \ queued : Queue(q, DsnMessage(now)) /\ chan' = Sent(w.node, Refresh)
  BY <1>1, <1>2, QueueEvents, Notices DEF Relays
<1>3. CASE UNCHANGED <<store, chan>>
  BY <1>1, <1>3 DEF Relays, store, KnownEvents
<1> QED
  BY <1>2, <1>3 DEF SendDsn

\* The records a worker goes on with are for the same message on the same node.
LEMMA StartedCounted ==
  ASSUME NEW w, CountedWorker(w), NEW m, NEW v, Started(w, v, m)
  PROVE  CountedWorker(v) /\ v.node = w.node /\ v.q = w.q
<1>1. CASE v = [w EXCEPT !.pc = "remove", !.msg = m, !.status = "Completed"]
  BY <1>1 DEF CountedWorker, HasWorkerFields
<1>2. ASSUME NEW t, v = [w EXCEPT !.pc = "save", !.msg = m, !.next = t, !.status = "Deferred"]
      PROVE  CountedWorker(v) /\ v.node = w.node /\ v.q = w.q
  BY <1>2 DEF CountedWorker, HasWorkerFields
<1>3. CASE v = [w EXCEPT !.pc = "attempt", !.msg = m, !.todo = DOMAIN m.domains]
  BY <1>3 DEF CountedWorker, HasWorkerFields
<1> QED
  BY Zenon, <1>1, <1>2, <1>3 DEF Started

LEMMA TriedCounted ==
  ASSUME NEW w, CountedWorker(w), NEW d, NEW n, NEW m, NEW v, Tried(w, v, d, n, m)
  PROVE  CountedWorker(v) /\ v.node = w.node /\ v.q = w.q
<1>1. CASE v = [w EXCEPT !.msg = n, !.todo = @ \ {d}]
  BY <1>1 DEF CountedWorker, HasWorkerFields
<1>2. ASSUME NEW t, v = [w EXCEPT !.pc = "save", !.msg = m, !.todo = {}, !.next = t, !.status = "Deferred"]
      PROVE  CountedWorker(v) /\ v.node = w.node /\ v.q = w.q
  BY <1>2 DEF CountedWorker, HasWorkerFields
<1>3. CASE v = [w EXCEPT !.pc = "remove", !.msg = m, !.todo = {}, !.status = "Completed"]
  BY <1>3 DEF CountedWorker, HasWorkerFields
<1> QED
  BY Zenon, <1>1, <1>2, <1>3 DEF Tried

\* Every step of a worker but its last.
LEMMA WorkRelays ==
  ASSUME CountInv, NEW w \in workers,
         TryLock(w) \/ ReadNothing(w) \/ StartTask(w) \/ Attempt(w) \/ Write(w)
  PROVE  Relays /\ KnownEvents' /\ GoesOn(w)
<1>1. CountedWorker(w) /\ KnownEvents /\ now \in Nat /\ w.q \in QueueId
  BY DEF CountInv, CountTypes, KnownEvents, CountedWorker
<1>2. CASE TryLock(w)
  <2> DEFINE t == At(now + LockExpiry)
             u == At(now + LockExpiry + LockBackoff)
  <2>1. t \in Nat /\ u \in Nat
    BY <1>1, MessageAssumption, SpoolAssumption DEF At
  <2>2. /\ \/ Becomes(w, [w EXCEPT !.pc = "read", !.until = t])
           \/ Becomes(w, [w EXCEPT !.pc = "done", !.status = "Locked", !.until = u])
        /\ chan' = chan /\ events' = events
    BY <1>2 DEF TryLock, store
  <2> HIDE DEF t, u
  <2> DEFINE a == [w EXCEPT !.pc = "read", !.until = t]
             b == [w EXCEPT !.pc = "done", !.status = "Locked", !.until = u]
  <2>3. CountedWorker(a) /\ a.node = w.node /\ a.q = w.q
    BY <1>1, <2>1 DEF CountedWorker, HasWorkerFields
  <2>4. CountedWorker(b) /\ b.node = w.node /\ b.q = w.q
    BY <1>1, <2>1 DEF CountedWorker, HasWorkerFields
  <2>5. Becomes(w, a) \/ Becomes(w, b)
    BY <2>2
  <2> HIDE DEF a, b
  <2>6. GoesOn(w)
    BY <2>3, <2>4, <2>5 DEF GoesOn
  <2> QED
    BY <1>1, <2>2, <2>6 DEF Relays, KnownEvents
<1>3. CASE ReadNothing(w)
  <2> DEFINE a == [w EXCEPT !.pc = "orphan", !.status = "Completed"]
  <2>1. Becomes(w, a) /\ chan' = chan /\ events' = events
    BY <1>3 DEF ReadNothing, store
  <2>2. CountedWorker(a) /\ a.node = w.node /\ a.q = w.q
    BY <1>1 DEF CountedWorker, HasWorkerFields
  <2> HIDE DEF a
  <2> QED
    BY <1>1, <2>1, <2>2 DEF Relays, KnownEvents, GoesOn
<1>4. CASE StartTask(w)
  <2>1. PICK m, n, v : SendDsn(w, n) /\ Becomes(w, v) /\ Started(w, v, m)
    BY <1>4, StartTaskParts, Zenon
  <2>2. CountedWorker(v) /\ v.node = w.node /\ v.q = w.q
    BY <1>1, <2>1, StartedCounted
  <2> QED
    BY <2>1, <2>2, SendDsnRelays DEF GoesOn
<1>5. CASE Attempt(w)
  <2>1. \E d, n, m, v : Becomes(w, v) /\ Tried(w, v, d, n, m)
    BY <1>5, AttemptParts, Zenon
  <2>2. PICK d, n, m, v : Becomes(w, v) /\ Tried(w, v, d, n, m)
    BY <2>1
  <2>3. CountedWorker(v) /\ v.node = w.node /\ v.q = w.q
    BY <1>1, <2>2, TriedCounted
  <2>4. UNCHANGED <<store, chan>> \/ \E x : SendDsn(w, x)
    BY <1>5, Zenon DEF Attempt
  <2>5. Relays /\ KnownEvents'
    BY <1>1, <2>4, SendDsnRelays DEF Relays, KnownEvents, store
  <2> QED
    BY <2>2, <2>3, <2>5 DEF GoesOn
<1>6. CASE Write(w)
  <2> DEFINE a == [w EXCEPT !.pc = "unlock", !.msg = NoMessage, !.next = 0]
  <2>1. Becomes(w, a) /\ chan' = chan
    BY <1>6 DEF Write
  <2>2. CountedWorker(a) /\ a.node = w.node /\ a.q = w.q
    BY <1>1 DEF CountedWorker, HasWorkerFields
  <2> HIDE DEF a
  <2>3. \/ SaveChanges(w.q, w.msg, w.due, w.next) \/ RemoveMessage(w.q, w.msg, w.due)
        \/ events' \subseteq events
    BY <1>6 DEF Write, store
  <2>4. KnownEvents'
    <3>1. CASE SaveChanges(w.q, w.msg, w.due, w.next)
      BY <1>1, <3>1, SaveEvents
    <3>2. CASE RemoveMessage(w.q, w.msg, w.due)
      BY <1>1, <3>2, RemoveEvents
    <3>3. CASE events' \subseteq events
      BY <1>1, <3>3 DEF KnownEvents
    <3> QED
      BY <2>3, <3>1, <3>2, <3>3
  <2> QED
    BY <2>1, <2>2, <2>4 DEF Relays, GoesOn
<1> QED
  BY <1>2, <1>3, <1>4, <1>5, <1>6

\* The last: the worker becomes a report, which a manager that has ended does not get.
LEMMA FinishCounts ==
  ASSUME CountInv, NEW w \in workers, Finish(w)
  PROVE  CountInv'
<1> DEFINE ev == WorkerDone(w)
           n == w.node
<1>1. /\ workers' = workers \ {w} /\ chan' = Sent(n, ev)
      /\ now' = now /\ events' = events /\ mgr' = mgr /\ api' = api
  BY DEF Finish, store
<1>2. CountedWorker(w) /\ n \in Node
  BY DEF CountInv, CountTypes, CountedWorker
<1>3. ev \in ManagerEvent /\ ev.type = "WorkerDone" /\ ev.q = w.q
  BY <1>2 DEF CountedWorker, WorkerDone, Refresh, ManagerEvent
<1> HIDE DEF ev
<1>4. chan \in [Node -> Seq(ManagerEvent)]
  BY DEF CountInv, CountTypes
<1>5. /\ chan' \in [Node -> Seq(ManagerEvent)]
      /\ mgr[n].alive => chan'[n] = Append(chan[n], ev)
      /\ \A m \in Node : m # n => chan'[m] = chan[m]
  <2>1. Append(chan[n], ev) \in Seq(ManagerEvent)
    BY <1>2, <1>3, <1>4
  <2> QED
    BY <1>1, <1>2, <1>4, <2>1 DEF Sent
<1>6. ASSUME NEW m \in Node, mgr[m].alive
      PROVE  Flights(m, mgr[m], chan'[m], workers')
  <2>1. Flights(m, mgr[m], chan[m], workers) /\ chan[m] \in Seq(ManagerEvent)
    BY <1>4, <1>6 DEF CountInv
  <2>2. CASE m = n
    <3>1. Flights(m, mgr[m], Append(chan[m], ev), workers \ {w})
      BY <1>3, <2>1, <2>2, FlightsReport
    <3> QED
      BY <1>1, <1>5, <1>6, <2>2, <3>1
  <2>3. CASE m # n
    <3>1. {v \in workers \ {w} : v.node = m} = {v \in workers : v.node = m}
      BY <2>3
    <3>2. Flights(m, mgr[m], chan[m], workers \ {w})
      BY <2>1, <3>1, FlightsElsewhere
    <3> QED
      BY <1>1, <1>5, <2>3, <3>2
  <2> QED
    BY <2>2, <2>3
<1>7. CountTypes'
  BY <1>1, <1>5 DEF CountInv, CountTypes, CountedWorker, HasWorkerFields, HasManagerFields,
     RequestIds, IdleApi
<1>8. \A m \in Node : mgr'[m].alive => Flights(m, mgr'[m], chan'[m], workers')
  BY <1>1, <1>6
<1>9. \A m \in Node : (mgr[m].alive => Flights(m, mgr[m], chan[m], workers))'
  BY <1>8 DEF Flights, Held, Landed
<1> QED
  BY <1>7, <1>9 DEF CountInv

\* A crash forgets the flights of one node.
LEMMA RestartCounts ==
  ASSUME CountInv, NEW n \in Node, Restart(n)
  PROVE  CountInv'
<1> DEFINE h == NewManager(now)
           V == {w \in workers : w.node # n}
<1>1. /\ mgr' = [mgr EXCEPT ![n] = h] /\ chan' = [chan EXCEPT ![n] = <<>>]
      /\ workers' = V /\ (api' = api \/ api' = IdleApi) /\ now' = now /\ events' = events
  BY DEF Restart, store
<1>2. HasManagerFields(h) /\ Held(h) = {} /\ h.inFlight = 0
  BY DEF NewManager, HasManagerFields, Held, NotHeld, InFlight
<1> HIDE DEF h
<1>3. Flights(n, h, <<>>, V)
  <2>1. Landed(<<>>) = {}
    BY DEF Landed
  <2>2. Cardinality(Held(h)) = 0
    BY <1>2, FS_EmptySet
  <2> QED
    BY <1>2, <2>1, <2>2, SpoolAssumption DEF Flights
<1>4. mgr'[n] = h /\ \A m \in Node : m # n => mgr'[m] = mgr[m]
  BY <1>1 DEF CountInv, CountTypes
<1>5. chan'[n] = <<>> /\ \A m \in Node : m # n => chan'[m] = chan[m]
  BY <1>1 DEF CountInv, CountTypes
<1>6. CountTypes'
  <2>1. mgr' = [m \in Node |-> mgr'[m]] /\ \A m \in Node : HasManagerFields(mgr'[m])
    BY <1>1, <1>2, <1>4 DEF CountInv, CountTypes
  <2>2. chan' \in [Node -> Seq(ManagerEvent)]
    BY <1>1 DEF CountInv, CountTypes
  <2>3. \A w \in workers' : CountedWorker(w)
    BY <1>1 DEF CountInv, CountTypes
  <2>4. RequestIds'
    BY <1>1 DEF CountInv, CountTypes, RequestIds, IdleApi
  <2> QED
    BY <1>1, <2>1, <2>2, <2>3, <2>4 DEF CountInv, CountTypes, CountedWorker, HasWorkerFields, HasManagerFields
<1>7. ASSUME NEW m \in Node, mgr'[m].alive
      PROVE  Flights(m, mgr'[m], chan'[m], workers')
  <2>1. CASE m = n
    BY <1>1, <1>3, <1>4, <1>5, <2>1
  <2>2. CASE m # n
    <3>1. Flights(m, mgr[m], chan[m], workers)
      BY <1>4, <1>7, <2>2 DEF CountInv
    <3>2. {w \in V : w.node = m} = {w \in workers : w.node = m}
      BY <2>2
    <3>3. Flights(m, mgr[m], chan[m], V)
      BY <3>1, <3>2, FlightsElsewhere
    <3> QED
      BY <1>1, <1>4, <1>5, <2>2, <3>3
  <2> QED
    BY <2>1, <2>2
<1>8. \A m \in Node : (mgr[m].alive => Flights(m, mgr[m], chan[m], workers))'
  BY <1>7 DEF Flights, Held, Landed
<1> QED
  BY <1>6, <1>8 DEF CountInv

\* Sessions, requests and shutdowns only send notices.
LEMMA NodeRelays ==
  ASSUME CountInv, NEW n \in Node, Submit(n) \/ HandleManageQueue(n) \/ Shutdown(n)
  PROVE  Relays /\ KnownEvents' /\ RequestIds'
<1>1. KnownEvents /\ RequestIds
  BY DEF CountInv, CountTypes, KnownEvents
<1>2. CASE Submit(n)
  <2>1. \E q \in QueueId : \E m : Queue(q, m)
    BY <1>2 DEF Submit
  <2>2. chan' = Sent(n, Refresh) /\ api' = api
    BY <1>2 DEF Submit
  <2> QED
    BY <1>1, <2>1, <2>2, QueueEvents, Notices DEF Relays, RequestIds, IdleApi
<1>3. CASE Shutdown(n)
  <2>1. chan' = Sent(n, Stop) /\ api' = api /\ events' = events
    BY <1>3 DEF Shutdown, store
  <2> QED
    BY <1>1, <2>1, Notices DEF Relays, KnownEvents, RequestIds, IdleApi
<1>4. CASE HandleManageQueue(n)
  <2>1. events' = events /\ (StartRequest(n) \/ SetQueueStatus(n))
    BY <1>4 DEF HandleManageQueue, store
  <2>2. CASE SetQueueStatus(n)
    <3>1. PICK p \in BOOLEAN : chan' = Sent(n, Paused(p))
      BY <2>2 DEF SetQueueStatus
    <3> QED
      BY <1>1, <2>1, <2>2, <3>1, Notices DEF Relays, KnownEvents, RequestIds, IdleApi, SetQueueStatus
  <2>3. CASE StartRequest(n)
    <3>1. PICK op \in ApiOps \ {"status"}, ids \in SUBSET {q \in QueueId : message[q] # NoMessage} :
          \E items \in RequestItems(op), at \in RequestTimes(op) :
            LET pauses == op = "deleteAll" /\ ~mgr[n].paused
            IN /\ ids # {} /\ (op \notin Bulk => Cardinality(ids) = 1)
               /\ api' = [pc |-> "read", op |-> op, node |-> n, ids |-> ids,
                          q |-> CHOOSE q \in ids : TRUE, msg |-> NoMessage,
                          items |-> items, at |-> at,
                          changed |-> op = "rescheduleAll", resume |-> pauses]
               /\ chan' = IF pauses THEN Sent(n, Paused(TRUE)) ELSE chan
      BY <2>3, Zenon DEF StartRequest
    <3>2. (CHOOSE q \in ids : TRUE) \in QueueId
      BY <3>1
    <3>3. DOMAIN api' = {"pc", "op", "node", "ids", "q", "msg", "items", "at", "changed", "resume"}
      BY <3>1, Zenon
    <3>n. api'.node = n /\ api'.ids = ids /\ api'.q = CHOOSE q \in ids : TRUE
      BY <3>1
    <3>4. RequestIds'
      BY <3>1, <3>2, <3>3, <3>n DEF RequestIds
    <3>5. chan' = chan \/ chan' = Sent(n, Paused(TRUE))
      BY <2>3, Zenon DEF StartRequest
    <3> QED
      BY <1>1, <2>1, <3>4, <3>5, Notices DEF Relays, KnownEvents
  <2> QED
    BY <2>1, <2>2, <2>3
<1> QED
  BY <1>2, <1>3, <1>4

LEMMA ApiRelays ==
  ASSUME CountInv, Api
  PROVE  Relays /\ KnownEvents' /\ RequestIds'
<1>1. KnownEvents /\ RequestIds
  BY DEF CountInv, CountTypes, KnownEvents
<1>2. /\ DOMAIN api = {"pc", "op", "node", "ids", "q", "msg", "items", "at", "changed", "resume"}
      /\ api.node \in Node /\ api.ids \subseteq QueueId /\ api.q \in QueueId
  <2>1. api.pc \in {"read", "write"}
    BY DEF Api, ReadRequest, WriteRequest, EndRequest
  <2>2. IdleApi.pc = "idle"
    BY DEF IdleApi
  <2>3. api # IdleApi
    BY <2>1, <2>2
  <2> QED
    BY <1>1, <2>3 DEF RequestIds
<1>3. CASE ReadRequest
  <2>1. PICK q \in api.ids :
          \/ api' = [api EXCEPT !.pc = "write", !.q = q, !.msg = message[q]]
          \/ api' = [api EXCEPT !.ids = @ \ {q}]
    BY <1>3 DEF ReadRequest
  <2>2. chan' = chan /\ events' = events
    BY <1>3 DEF ReadRequest, store
  <2>3. RequestIds'
    BY <1>2, <2>1 DEF RequestIds
  <2> QED
    BY <1>1, <2>2, <2>3 DEF Relays, KnownEvents
<1>4. CASE WriteRequest
  <2>1. PICK c : api' = [api EXCEPT !.pc = "read", !.ids = @ \ {api.q}, !.msg = NoMessage, !.changed = c]
    BY <1>4, Zenon DEF WriteRequest
  <2>2. RequestIds'
    BY <1>2, <2>1 DEF RequestIds
  <2>3. \/ events' = events
        \/ \E m, p, t : SaveChanges(api.q, m, p, t)
        \/ \E m, p : RemoveMessage(api.q, m, p)
    BY <1>4, Zenon DEF WriteRequest, store
  <2>4. KnownEvents'
    <3>1. CASE events' = events
      BY <1>1, <3>1 DEF KnownEvents
    <3>2. CASE \E m, p, t : SaveChanges(api.q, m, p, t)
      BY <1>1, <1>2, <3>2, SaveEvents
    <3>3. CASE \E m, p : RemoveMessage(api.q, m, p)
      BY <1>1, <3>3, RemoveEvents
    <3> QED
      BY <2>3, <3>1, <3>2, <3>3
  <2>5. chan' = chan
    BY <1>4 DEF WriteRequest
  <2> QED
    BY <2>2, <2>4, <2>5 DEF Relays
<1>5. CASE EndRequest
  <2>1. /\ api' = IdleApi /\ events' = events
        /\ chan' = chan \/ chan' = Sent(api.node, Refresh) \/ chan' = Sent(api.node, Paused(FALSE))
    BY <1>5 DEF EndRequest, store
  <2> QED
    BY <1>1, <1>2, <2>1, Notices DEF Relays, KnownEvents, RequestIds, IdleApi
<1> QED
  BY <1>3, <1>4, <1>5 DEF Api

LEMMA NextCounts == ASSUME CountInv, [Next]_vars PROVE CountInv'
<1>1. now \in Nat /\ KnownEvents /\ RequestIds
  BY DEF CountInv, CountTypes, KnownEvents
<1>2. ASSUME NEW n \in Node, Submit(n) \/ HandleManageQueue(n) \/ Shutdown(n)
      PROVE  CountInv'
  <2>1. mgr' = mgr /\ workers' = workers /\ now' = now
    BY <1>2 DEF Submit, HandleManageQueue, Shutdown
  <2> QED
    BY <1>1, <1>2, <2>1, NodeRelays, RelayCounts
<1>3. ASSUME NEW w \in workers, Work(w)
      PROVE  CountInv'
  <2>1. CASE Finish(w)
    BY <2>1, FinishCounts
  <2>2. CASE TryLock(w) \/ ReadNothing(w) \/ StartTask(w) \/ Attempt(w) \/ Write(w)
    <3>1. mgr' = mgr /\ now' = now /\ api' = api
      BY <2>2, Zenon DEF TryLock, ReadNothing, StartTask, Attempt, Write
    <3>2. RequestIds'
      BY <1>1, <3>1 DEF RequestIds, IdleApi
    <3>3. Relays /\ KnownEvents' /\ GoesOn(w)
      BY <2>2, WorkRelays
    <3> QED
      BY <1>1, <3>1, <3>2, <3>3, RelayCounts
  <2> QED
    BY <1>3, <2>1, <2>2 DEF Work
<1>4. CASE Api
  <2>1. mgr' = mgr /\ workers' = workers /\ now' = now
    BY <1>4 DEF Api, ReadRequest, WriteRequest, EndRequest
  <2> QED
    BY <1>1, <1>4, <2>1, ApiRelays, RelayCounts
<1>5. CASE Tick \/ UNCHANGED vars
  <2>1. /\ mgr' = mgr /\ workers' = workers /\ chan' = chan /\ events' = events /\ api' = api
        /\ now' \in Nat
    BY <1>1, <1>5 DEF Tick, vars, store
  <2>2. Relays /\ KnownEvents' /\ RequestIds'
    BY <1>1, <2>1 DEF Relays, KnownEvents, RequestIds, IdleApi
  <2> QED
    BY <2>1, <2>2, RelayCounts
<1> QED
  BY <1>2, <1>3, <1>4, <1>5, ManagerCounts, RestartCounts DEF Next

LEMMA InitCounts == Init => CountInv
<1> SUFFICES ASSUME Init PROVE CountInv
  OBVIOUS
<1> DEFINE h == NewManager(1)
<1>1. HasManagerFields(h) /\ Held(h) = {} /\ h.inFlight = 0
  BY DEF NewManager, HasManagerFields, Held, NotHeld, InFlight
<1>2. mgr = [n \in Node |-> h]
  BY DEF Init
<1> HIDE DEF h
<1>3. \A n \in Node : Flights(n, h, <<>>, {})
  <2>1. Landed(<<>>) = {}
    BY DEF Landed
  <2>2. Cardinality(Held(h)) = 0
    BY <1>1, FS_EmptySet
  <2> QED
    BY <1>1, <2>1, <2>2, SpoolAssumption DEF Flights
<1>4. CountTypes
  <2>1. chan \in [Node -> Seq(ManagerEvent)]
    BY DEF Init
  <2>2. mgr = [n \in Node |-> mgr[n]] /\ \A n \in Node : HasManagerFields(mgr[n])
    BY <1>1, <1>2
  <2> QED
    BY <2>1, <2>2 DEF Init, CountTypes, RequestIds
<1>5. \A n \in Node : mgr[n] = h /\ chan[n] = <<>> /\ workers = {}
  BY <1>2 DEF Init
<1> QED
  BY <1>3, <1>4, <1>5 DEF CountInv

\* What fits together has the sizes that in_flight_count stands for.
LEMMA FlightsCount ==
  ASSUME NEW n \in Node, CountInv, mgr[n].alive
  PROVE  LET held == {q \in DOMAIN mgr[n].hold : mgr[n].hold[q] = InFlight}
             mine == {w \in workers : w.node = n}
             reports == {i \in DOMAIN chan[n] : chan[n][i].type = "WorkerDone"}
         IN /\ mgr[n].inFlight = Cardinality(held)
            /\ mgr[n].inFlight = Cardinality(mine) + Cardinality(reports)
            /\ mgr[n].inFlight <= MaxThreads
            /\ held = {w.q : w \in mine} \cup {chan[n][i].q : i \in reports}
<1> DEFINE g == mgr[n]
           s == chan[n]
           mine == {w \in workers : w.node = n}
           reports == Landed(s)
           A == {w.q : w \in mine}
           B == {s[i].q : i \in reports}
<1>1. Flights(n, g, s, workers) /\ {q \in DOMAIN g.hold : g.hold[q] = InFlight} = Held(g)
  BY DEF CountInv, CountTypes, HasManagerFields, Held
<1> HIDE DEF g, s, reports
<1>2. A \cup B = Held(g) /\ A \cap B = {}
  BY <1>1 DEF Flights, reports
<1>3. IsFiniteSet(Held(g)) /\ IsFiniteSet(A) /\ IsFiniteSet(B)
  <2>1. IsFiniteSet(Held(g))
    BY SpoolAssumption, FS_Subset DEF Held
  <2> QED
    BY <1>2, <2>1, FS_Subset
<1>4. Cardinality(mine) = Cardinality(A)
  <2> DEFINE f == [w \in mine |-> w.q]
  <2>1. f \in [mine -> A] /\ \A z \in A : \E x \in mine : f[x] = z
    OBVIOUS
  <2>2. \A x, y \in mine : f[x] = f[y] => x = y
    BY <1>1 DEF Flights
  <2> HIDE DEF f, A, mine
  <2> QED
    BY <1>3, <2>1, <2>2, SameSize
<1>5. Cardinality(reports) = Cardinality(B)
  <2> DEFINE f == [i \in reports |-> s[i].q]
  <2>1. f \in [reports -> B] /\ \A z \in B : \E x \in reports : f[x] = z
    OBVIOUS
  <2>2. \A x, y \in reports : f[x] = f[y] => x = y
    BY <1>1 DEF Flights, reports
  <2> HIDE DEF f, B
  <2> QED
    BY <1>3, <2>1, <2>2, SameSize
<1> HIDE DEF A, B, mine
<1>6. Cardinality(Held(g)) = Cardinality(A) + Cardinality(B)
  <2>1. Cardinality(A \cap B) = 0
    BY <1>2, FS_EmptySet
  <2>2. Cardinality(A) \in Nat /\ Cardinality(B) \in Nat
    BY <1>3, FS_CardinalityType
  <2>3. Cardinality(A \cup B) = Cardinality(A) + Cardinality(B) - Cardinality(A \cap B)
    BY <1>3, FS_Union
  <2>4. Cardinality(A \cup B) = Cardinality(A) + Cardinality(B)
    BY <2>1, <2>2, <2>3
  <2>5. A \cup B = Held(g)
    BY <1>2
  <2> QED
    BY <2>4, <2>5
<1>7. g.inFlight = Cardinality(Held(g)) /\ g.inFlight <= MaxThreads
  BY <1>1 DEF Flights
<1> QED
  BY <1>1, <1>2, <1>4, <1>5, <1>6, <1>7 DEF g, s, reports, A, B, mine, Landed

\* A manager counts its workers: while it runs, in_flight_count is the number of its
\* workers and of the reports it has not taken, each for a message it holds as in
\* flight, one per message, and it never exceeds max_threads; whatever fails,
\* crashes, expires or is requested.
THEOREM WorkersAreCounted == Spec => []InFlightCount
<1>1. CountInv => InFlightCount
  BY FlightsCount DEF InFlightCount
<1> QED
  BY <1>1, InitCounts, NextCounts, PTL DEF Spec

-------------------------------------------------------------------------------
(* Times. *)

\* The least element of a set of times.
LEMMA LeastTime ==
  ASSUME NEW S, S \subseteq Nat, S # {}
  PROVE  Min(S) \in S /\ \A x \in S : Min(S) <= x
<1>1. IsWellFoundedOn(OpToRel(<, Nat), Nat)
  BY NatLessThanWellFounded
<1>2. PICK x \in S : \A y \in S : <<y, x>> \notin OpToRel(<, Nat)
  BY <1>1, WFMin
<1>3. \A y \in S : x <= y
  <2> SUFFICES ASSUME NEW y \in S, y < x PROVE FALSE
    OBVIOUS
  <2>1. <<y, x>> \in OpToRel(<, Nat)
    BY DEF OpToRel
  <2> QED
    BY <1>2, <2>1
<1> QED
  BY <1>2, <1>3 DEF Min

\* Times stay times.
LEMMA AtTime == ASSUME NEW t \in Nat PROVE At(t) \in Nat
  BY MessageAssumption DEF At

\* The interval of the next retry, also past the end of the schedule.
LEMMA RetryInterval ==
  ASSUME NEW k \in Nat
  PROVE  RetrySchedule[Min({k + 1, Len(RetrySchedule)})] \in Nat
<1> DEFINE i == Min({k + 1, Len(RetrySchedule)})
<1>1. Len(RetrySchedule) \in Nat \ {0} /\ \A j \in 1 .. Len(RetrySchedule) : RetrySchedule[j] \in Nat
  BY MessageAssumption
<1>2. i \in {k + 1, Len(RetrySchedule)} /\ i <= Len(RetrySchedule)
  <2> DEFINE S == {k + 1, Len(RetrySchedule)}
  <2>1. S \subseteq Nat /\ S # {} /\ Len(RetrySchedule) \in S
    BY <1>1
  <2> HIDE DEF S
  <2>2. Min(S) \in S /\ Min(S) <= Len(RetrySchedule)
    BY <2>1, LeastTime
  <2> QED
    BY <2>2 DEF S
<1>3. i \in 1 .. Len(RetrySchedule)
  BY <1>1, <1>2
<1> QED
  BY <1>1, <1>3

-------------------------------------------------------------------------------
(* What operations do to a message. *)

\* What no operation of a worker changes.
Keeps(m, n) ==
    /\ IsMessage(n) /\ n.returnPath = m.returnPath
    /\ DOMAIN n.domains = DOMAIN m.domains /\ DOMAIN n.rcpts = DOMAIN m.rcpts
    /\ \A r \in DOMAIN m.rcpts : n.rcpts[r].notify = m.rcpts[r].notify

\* Nor do two of them.
LEMMA KeepsTwice ==
  ASSUME NEW a, NEW b, NEW c, Keeps(a, b), Keeps(b, c)
  PROVE  Keeps(a, c)
  BY DEF Keeps

\* The fields of a message.
LEMMA Fields ==
  ASSUME NEW p, NEW d, NEW r, NEW k, NEW n, n = [returnPath |-> p, domains |-> d, rcpts |-> r, quotaKeys |-> k]
  PROVE  n.returnPath = p /\ n.domains = d /\ n.rcpts = r /\ n.quotaKeys = k
  OBVIOUS

\* A message is built from parts of the right types.
LEMMA IsBuilt ==
  ASSUME NEW p \in BOOLEAN, NEW D \in SUBSET Domain, NEW d \in [D -> DomainState],
         NEW R \in SUBSET Rcpt, NEW r \in [R -> RcptState], \A x \in R : DomainOf[x] \in D,
         NEW k \in SUBSET QuotaId, NEW n, n = [returnPath |-> p, domains |-> d, rcpts |-> r, quotaKeys |-> k]
  PROVE  IsMessage(n)
<1>1. n.returnPath = p /\ n.domains = d /\ n.rcpts = r /\ n.quotaKeys = k
  BY Fields
<1>2. DOMAIN n.domains = D /\ DOMAIN n.rcpts = R
  BY <1>1
<1> QED
  BY <1>1, <1>2 DEF IsMessage

\* New states of the domains.
LEMMA DomainsChange ==
  ASSUME NEW m, IsMessage(m), NEW x \in [DOMAIN m.domains -> DomainState],
         NEW n, n = [m EXCEPT !.domains = x]
  PROVE  IsMessage(n) /\ n.returnPath = m.returnPath /\ n.domains = x /\ n.rcpts = m.rcpts
<1>1. n = [returnPath |-> m.returnPath, domains |-> x, rcpts |-> m.rcpts, quotaKeys |-> m.quotaKeys]
  BY DEF IsMessage
<1>2. n.returnPath = m.returnPath /\ n.domains = x /\ n.rcpts = m.rcpts
  BY <1>1, Fields
<1>3. IsMessage(n)
  <2>1. /\ m.returnPath \in BOOLEAN /\ DOMAIN m.domains \in SUBSET Domain /\ DOMAIN m.rcpts \in SUBSET Rcpt
        /\ x \in [DOMAIN m.domains -> DomainState] /\ m.rcpts \in [DOMAIN m.rcpts -> RcptState]
        /\ m.quotaKeys \in SUBSET QuotaId
        /\ \A r \in DOMAIN m.rcpts : DomainOf[r] \in DOMAIN m.domains
    BY DEF IsMessage
  <2>2. DOMAIN n.domains = DOMAIN m.domains /\ DOMAIN n.rcpts = DOMAIN m.rcpts /\ n.quotaKeys = m.quotaKeys
    BY <1>1, <1>2, <2>1, Fields
  <2> QED
    BY <1>1, <1>2, <2>1, <2>2 DEF IsMessage
<1> QED
  BY <1>2, <1>3

\* New states of the recipients.
LEMMA RcptsChange ==
  ASSUME NEW m, IsMessage(m), NEW x \in [DOMAIN m.rcpts -> RcptState],
         NEW n, n = [m EXCEPT !.rcpts = x]
  PROVE  IsMessage(n) /\ n.returnPath = m.returnPath /\ n.domains = m.domains /\ n.rcpts = x
<1>1. n = [returnPath |-> m.returnPath, domains |-> m.domains, rcpts |-> x, quotaKeys |-> m.quotaKeys]
  BY DEF IsMessage
<1>2. n.returnPath = m.returnPath /\ n.domains = m.domains /\ n.rcpts = x
  BY <1>1, Fields
<1>3. IsMessage(n)
  <2>1. /\ m.returnPath \in BOOLEAN /\ DOMAIN m.domains \in SUBSET Domain /\ DOMAIN m.rcpts \in SUBSET Rcpt
        /\ m.domains \in [DOMAIN m.domains -> DomainState] /\ x \in [DOMAIN m.rcpts -> RcptState]
        /\ m.quotaKeys \in SUBSET QuotaId
        /\ \A r \in DOMAIN m.rcpts : DomainOf[r] \in DOMAIN m.domains
    BY DEF IsMessage
  <2>2. DOMAIN n.domains = DOMAIN m.domains /\ DOMAIN n.rcpts = DOMAIN m.rcpts /\ n.quotaKeys = m.quotaKeys
    BY <1>1, <1>2, <2>1, Fields
  <2> QED
    BY <1>1, <1>2, <2>1, <2>2 DEF IsMessage
<1> QED
  BY <1>2, <1>3

\* A message that is saved has the same recipients and domains.
LEMMA SavedMessage ==
  ASSUME NEW m, IsMessage(m), NEW n, n = ReleaseQuota(m)
  PROVE  IsMessage(n) /\ n.returnPath = m.returnPath /\ n.domains = m.domains /\ n.rcpts = m.rcpts
<1> DEFINE k == m.quotaKeys \ Releasable(m)
<1>1. n = [returnPath |-> m.returnPath, domains |-> m.domains, rcpts |-> m.rcpts, quotaKeys |-> k]
  BY DEF IsMessage, ReleaseQuota
<1>2. k \in SUBSET QuotaId
  BY DEF IsMessage
<1> HIDE DEF k
<1>3. n.returnPath = m.returnPath /\ n.domains = m.domains /\ n.rcpts = m.rcpts
  BY <1>1, Fields
<1>4. IsMessage(n)
  <2>1. /\ m.returnPath \in BOOLEAN /\ DOMAIN m.domains \in SUBSET Domain /\ DOMAIN m.rcpts \in SUBSET Rcpt
        /\ m.domains \in [DOMAIN m.domains -> DomainState] /\ m.rcpts \in [DOMAIN m.rcpts -> RcptState]
        /\ \A r \in DOMAIN m.rcpts : DomainOf[r] \in DOMAIN m.domains
    BY DEF IsMessage
  <2> QED
    BY <1>1, <1>2, <2>1, IsBuilt
<1> QED
  BY <1>3, <1>4

\* The domain of an accepted message.
LEMMA SubmittedDomainType ==
  ASSUME NEW env \in Envelopes, NEW t \in Nat
  PROVE  SubmittedDomain(env, t) \in DomainState /\ SubmittedDomain(env, t).status = "Scheduled"
<1>1. /\ env.release \in Nat /\ env.by \in Int /\ env.byReturn \in BOOLEAN /\ (env.byReturn => env.by > 0)
  BY SpoolAssumption DEF Envelope
<1>2. ExpireIn \in Nat /\ Len(NotifySchedule) \in Nat \ {0} /\ NotifySchedule[1] \in Nat
  BY MessageAssumption
<1> DEFINE default == env.by = 0 \/ env.byReturn
           wait == IF env.by > 0 THEN env.by ELSE -env.by
           notifyIn == IF default \/ ExpireIn <= wait THEN NotifySchedule[1]
                       ELSE IF env.by > 0 THEN wait ELSE ExpireIn - wait
           expireIn == IF env.by = 0 THEN env.release + ExpireIn
                       ELSE IF env.byReturn THEN env.by ELSE ExpireIn
           num == IF default THEN 0 ELSE Len(NotifySchedule) - 1
<1>3. notifyIn \in Nat /\ expireIn \in Nat /\ num \in Nat
  BY <1>1, <1>2
<1>4. SubmittedDomain(env, t) = [status |-> "Scheduled", retry |-> At(t + env.release), retryNum |-> 0,
                                 notify |-> At(t + env.release + notifyIn), notifyNum |-> num,
                                 expires |-> At(t + expireIn)]
  BY DEF SubmittedDomain
<1> HIDE DEF notifyIn, expireIn, num
<1>5. At(t + env.release) \in Nat /\ At(t + env.release + notifyIn) \in Nat /\ At(t + expireIn) \in Nat
  BY <1>1, <1>3, AtTime
<1> QED
  BY <1>3, <1>4, <1>5 DEF DomainState, Status

\* Nothing has happened yet to recipients and domains.
Fresh(m) ==
    /\ IsMessage(m)
    /\ \A d \in DOMAIN m.domains : m.domains[d].status = "Scheduled"
    /\ \A r \in DOMAIN m.rcpts : m.rcpts[r].status = "Scheduled" /\ ~m.rcpts[r].dsnSent

\* What a session queues.
LEMMA SubmittedFresh ==
  ASSUME NEW env \in Envelopes, NEW t \in Nat
  PROVE  Fresh(BuildMessage(env, t))
<1> DEFINE D == {DomainOf[r] : r \in env.rcpts}
           note == IF env.notify = {} THEN {"delay", "failure"} ELSE env.notify
           s == SubmittedDomain(env, t)
           dom == [d \in D |-> s]
           c == [status |-> "Scheduled", dsnSent |-> FALSE, notify |-> note]
           rc == [r \in env.rcpts |-> c]
           keys == (D \cup env.rcpts) \cap QuotaId
           m == BuildMessage(env, t)
<1>1. m = [returnPath |-> TRUE, domains |-> dom, rcpts |-> rc, quotaKeys |-> keys]
  BY DEF BuildMessage
<1>2. note \in SUBSET NotifyFlag
  BY SpoolAssumption DEF Envelope, NotifyFlag
<1>3. s \in DomainState /\ s.status = "Scheduled"
  BY SubmittedDomainType
<1>4. c \in RcptState /\ c.status = "Scheduled" /\ ~c.dsnSent
  <2> HIDE DEF note
  <2> QED
    BY <1>2 DEF RcptState, Status
<1>5. env.rcpts \in SUBSET Rcpt /\ D \in SUBSET Domain /\ \A r \in env.rcpts : DomainOf[r] \in D
  <2>1. env \in Envelope
    BY SpoolAssumption
  <2>2. env.rcpts \in SUBSET Rcpt
    BY <2>1 DEF Envelope
  <2>3. \A r \in Rcpt : DomainOf[r] \in Domain
    BY MessageAssumption
  <2>4. \A r \in env.rcpts : DomainOf[r] \in D
    BY Zenon
  <2>5. D \in SUBSET Domain
    BY Zenon, <2>2, <2>3
  <2> QED
    BY <2>2, <2>4, <2>5
<1> HIDE DEF s, c, D, m
<1>6. dom \in [D -> DomainState] /\ rc \in [env.rcpts -> RcptState] /\ keys \in SUBSET QuotaId
  BY <1>3, <1>4
<1>7. \A d \in DOMAIN dom : dom[d].status = "Scheduled"
  BY <1>3
<1>8. \A r \in DOMAIN rc : rc[r].status = "Scheduled" /\ ~rc[r].dsnSent
  BY <1>4
<1> HIDE DEF dom, rc, keys
<1>9. IsMessage(m)
  BY <1>1, <1>5, <1>6, IsBuilt
<1>10. m.domains = dom /\ m.rcpts = rc
  BY <1>1, Fields
<1> QED
  BY <1>7, <1>8, <1>9, <1>10 DEF Fresh, m

\* What a notification queues.
LEMMA DsnFresh ==
  ASSUME NEW t \in Nat
  PROVE  Fresh(DsnMessage(t))
<1> DEFINE s == [status |-> "Scheduled", retry |-> t, retryNum |-> 0, notify |-> At(t + ExpireIn + NotifySlack),
                 notifyNum |-> 0, expires |-> At(t + ExpireIn)]
           c == [status |-> "Scheduled", dsnSent |-> FALSE, notify |-> {}]
           dom == [d \in {DomainOf[Sender]} |-> s]
           rc == [r \in {Sender} |-> c]
           m == DsnMessage(t)
<1>1. m = [returnPath |-> FALSE, domains |-> dom, rcpts |-> rc, quotaKeys |-> {}]
  BY DEF DsnMessage
<1>2. At(t + ExpireIn + NotifySlack) \in Nat /\ At(t + ExpireIn) \in Nat
  <2>1. t + ExpireIn + NotifySlack \in Nat /\ t + ExpireIn \in Nat
    BY MessageAssumption
  <2> QED
    BY <2>1, AtTime
<1>3. s \in DomainState /\ s.status = "Scheduled"
  BY <1>2 DEF DomainState, Status
<1>4. c \in RcptState /\ c.status = "Scheduled" /\ ~c.dsnSent
  BY DEF RcptState, Status
<1> HIDE DEF s, c, m
<1>5. /\ dom \in [{DomainOf[Sender]} -> DomainState] /\ rc \in [{Sender} -> RcptState]
      /\ {DomainOf[Sender]} \in SUBSET Domain /\ {Sender} \in SUBSET Rcpt
      /\ \A r \in {Sender} : DomainOf[r] \in {DomainOf[Sender]}
  BY <1>3, <1>4, MessageAssumption
<1>6. \A d \in DOMAIN dom : dom[d].status = "Scheduled"
  BY <1>3
<1>7. \A r \in DOMAIN rc : rc[r].status = "Scheduled" /\ ~rc[r].dsnSent
  BY <1>4
<1> HIDE DEF dom, rc
<1>8. IsMessage(m)
  BY <1>1, <1>5, IsBuilt
<1>9. m.domains = dom /\ m.rcpts = rc
  BY <1>1, Fields
<1> QED
  BY <1>6, <1>7, <1>8, <1>9 DEF Fresh, m

\* n is m after the domains that expired failed.
Expired(m, n) ==
    /\ Keeps(m, n)
    /\ \A d \in DOMAIN m.domains :
         \/ n.domains[d].status = m.domains[d].status
         \/ d \in Pending(m) /\ n.domains[d].status = "PermanentFailure"
    /\ \A r \in DOMAIN m.rcpts :
         /\ n.rcpts[r].dsnSent = m.rcpts[r].dsnSent
         /\ \/ n.rcpts[r].status = m.rcpts[r].status
            \/ m.rcpts[r].status = "TemporaryFailure" /\ n.rcpts[r].status = "PermanentFailure"

\* A domain or a recipient with another status.
LEMMA NewStatus ==
  ASSUME NEW s \in Status
  PROVE  /\ \A d \in DomainState : /\ [d EXCEPT !.status = s] \in DomainState
                                   /\ [d EXCEPT !.status = s].status = s
         /\ \A r \in RcptState : /\ [r EXCEPT !.status = s] \in RcptState
                                 /\ [r EXCEPT !.status = s].status = s
                                 /\ [r EXCEPT !.status = s].dsnSent = r.dsnSent
                                 /\ [r EXCEPT !.status = s].notify = r.notify
  BY DEF DomainState, RcptState

\* A recipient that is marked as reported.
LEMMA NewMark ==
  ASSUME NEW r \in RcptState
  PROVE  /\ [r EXCEPT !.dsnSent = TRUE] \in RcptState
         /\ [r EXCEPT !.dsnSent = TRUE].dsnSent
         /\ [r EXCEPT !.dsnSent = TRUE].status = r.status
         /\ [r EXCEPT !.dsnSent = TRUE].notify = r.notify
  BY DEF RcptState

\* has_pending_delivery.
LEMMA ExpiryEffect ==
  ASSUME NEW m, IsMessage(m), NEW t
  PROVE  Expired(m, HasPendingDelivery(m, t))
<1> DEFINE expired == {d \in Pending(m) : m.domains[d].expires <= t}
           failed == {r \in DOMAIN m.rcpts : DomainOf[r] \in expired /\ m.rcpts[r].status = "TemporaryFailure"}
           x == [d \in DOMAIN m.domains |->
                    IF d \in expired THEN [m.domains[d] EXCEPT !.status = "PermanentFailure"] ELSE m.domains[d]]
           a == [m EXCEPT !.domains = x]
           y == [r \in DOMAIN a.rcpts |->
                    IF r \in failed THEN [a.rcpts[r] EXCEPT !.status = "PermanentFailure"] ELSE a.rcpts[r]]
           n == [a EXCEPT !.rcpts = y]
<1>1. HasPendingDelivery(m, t) = n
  BY DEF HasPendingDelivery, WithDomains, WithRcpts
<1>2. "PermanentFailure" \in Status
  BY DEF Status
<1>3. \A d \in DOMAIN m.domains :
        /\ x[d] \in DomainState
        /\ x[d].status = m.domains[d].status \/ (d \in Pending(m) /\ x[d].status = "PermanentFailure")
  <2> SUFFICES ASSUME NEW d \in DOMAIN m.domains
               PROVE  /\ x[d] \in DomainState
                      /\ x[d].status = m.domains[d].status \/ (d \in Pending(m) /\ x[d].status = "PermanentFailure")
    OBVIOUS
  <2>1. m.domains[d] \in DomainState
    BY DEF IsMessage
  <2>2. CASE d \in expired
    <3>1. x[d] = [m.domains[d] EXCEPT !.status = "PermanentFailure"] /\ d \in Pending(m)
      BY <2>2
    <3> HIDE DEF x
    <3> QED
      BY <1>2, <2>1, <3>1, NewStatus
  <2>3. CASE d \notin expired
    <3>1. x[d] = m.domains[d]
      BY <2>3
    <3> QED
      BY <2>1, <3>1
  <2> QED
    BY <2>2, <2>3
<1>4. x \in [DOMAIN m.domains -> DomainState]
  BY <1>3
<1> HIDE DEF x
<1>5. IsMessage(a) /\ a.returnPath = m.returnPath /\ a.domains = x /\ a.rcpts = m.rcpts
  BY <1>4, DomainsChange
<1> HIDE DEF a
<1>6. \A r \in DOMAIN m.rcpts :
        /\ y[r] \in RcptState /\ y[r].notify = m.rcpts[r].notify /\ y[r].dsnSent = m.rcpts[r].dsnSent
        /\ \/ y[r].status = m.rcpts[r].status
           \/ m.rcpts[r].status = "TemporaryFailure" /\ y[r].status = "PermanentFailure"
  <2> SUFFICES ASSUME NEW r \in DOMAIN m.rcpts
               PROVE  /\ y[r] \in RcptState /\ y[r].notify = m.rcpts[r].notify /\ y[r].dsnSent = m.rcpts[r].dsnSent
                      /\ \/ y[r].status = m.rcpts[r].status
                         \/ m.rcpts[r].status = "TemporaryFailure" /\ y[r].status = "PermanentFailure"
    OBVIOUS
  <2>1. m.rcpts[r] \in RcptState
    BY DEF IsMessage
  <2>2. CASE r \in failed
    <3>1. y[r] = [m.rcpts[r] EXCEPT !.status = "PermanentFailure"] /\ m.rcpts[r].status = "TemporaryFailure"
      BY <1>5, <2>2
    <3> HIDE DEF y
    <3> QED
      BY <1>2, <2>1, <3>1, NewStatus
  <2>3. CASE r \notin failed
    <3>1. y[r] = m.rcpts[r]
      BY <1>5, <2>3
    <3> QED
      BY <2>1, <3>1
  <2> QED
    BY <2>2, <2>3
<1>7. y \in [DOMAIN a.rcpts -> RcptState]
  BY <1>5, <1>6
<1> HIDE DEF y
<1>8. IsMessage(n) /\ n.returnPath = a.returnPath /\ n.domains = a.domains /\ n.rcpts = y
  BY <1>5, <1>7, RcptsChange
<1> HIDE DEF n
<1>9. Keeps(m, n)
  BY <1>4, <1>5, <1>6, <1>7, <1>8 DEF Keeps
<1>10. Expired(m, n)
  BY <1>3, <1>5, <1>6, <1>8, <1>9 DEF Expired
<1> QED
  BY <1>1, <1>10

\* n is m after a notification: who failed, and who was delivered to, is marked.
Reported(m, n) ==
    /\ Keeps(m, n)
    /\ \A d \in DOMAIN m.domains : n.domains[d].status = m.domains[d].status
    /\ \A r \in DOMAIN m.rcpts :
         /\ n.rcpts[r].status = m.rcpts[r].status
         /\ n.rcpts[r].dsnSent <=>
              m.rcpts[r].dsnSent \/ r \in Failed(m) \/ (m.returnPath /\ r \in Succeeded(m))

\* Marking recipients.
LEMMA MarkingEffect ==
  ASSUME NEW m, IsMessage(m), NEW R, NEW n, n = Marked(m, R)
  PROVE  /\ Keeps(m, n) /\ n.domains = m.domains
         /\ \A r \in DOMAIN m.rcpts :
              n.rcpts[r].status = m.rcpts[r].status /\ (n.rcpts[r].dsnSent <=> m.rcpts[r].dsnSent \/ r \in R)
<1> DEFINE y == [r \in DOMAIN m.rcpts |-> IF r \in R THEN [m.rcpts[r] EXCEPT !.dsnSent = TRUE] ELSE m.rcpts[r]]
<1>1. \A r \in DOMAIN m.rcpts :
        /\ y[r] \in RcptState /\ y[r].status = m.rcpts[r].status /\ y[r].notify = m.rcpts[r].notify
        /\ y[r].dsnSent <=> m.rcpts[r].dsnSent \/ r \in R
  <2> SUFFICES ASSUME NEW r \in DOMAIN m.rcpts
               PROVE  /\ y[r] \in RcptState /\ y[r].status = m.rcpts[r].status /\ y[r].notify = m.rcpts[r].notify
                      /\ y[r].dsnSent <=> m.rcpts[r].dsnSent \/ r \in R
    OBVIOUS
  <2>1. m.rcpts[r] \in RcptState
    BY DEF IsMessage
  <2>2. CASE r \in R
    <3>1. y[r] = [m.rcpts[r] EXCEPT !.dsnSent = TRUE]
      BY <2>2
    <3> HIDE DEF y
    <3> QED
      BY <2>1, <2>2, <3>1, NewMark
  <2>3. CASE r \notin R
    <3>1. y[r] = m.rcpts[r]
      BY <2>3
    <3> QED
      BY <2>1, <2>3, <3>1
  <2> QED
    BY <2>2, <2>3
<1>2. y \in [DOMAIN m.rcpts -> RcptState]
  BY <1>1
<1>3. n = [m EXCEPT !.rcpts = y]
  BY DEF Marked
<1> HIDE DEF y
<1>4. IsMessage(n) /\ n.returnPath = m.returnPath /\ n.domains = m.domains /\ n.rcpts = y
  BY <1>2, <1>3, RcptsChange
<1> QED
  BY <1>1, <1>2, <1>4 DEF Keeps

\* The next delay notification of a domain.
LEMMA RenotifyType ==
  ASSUME NEW d \in DomainState, NEW t \in Nat
  PROVE  Renotify(d, t) \in DomainState /\ Renotify(d, t).status = d.status
<1>1. CASE d.notifyNum + 2 <= Len(NotifySchedule)
  <2>1. d.notifyNum \in Nat /\ d.notifyNum + 2 \in 1 .. Len(NotifySchedule)
    BY <1>1, MessageAssumption DEF DomainState
  <2>a. NotifySchedule \in Seq(Nat)
    BY MessageAssumption
  <2>b. \A i \in 1 .. Len(NotifySchedule) : NotifySchedule[i] \in Nat
    BY <2>a
  <2>c. NotifySchedule[d.notifyNum + 2] \in Nat
    BY Zenon, <2>1, <2>b
  <2>2. t + NotifySchedule[d.notifyNum + 2] \in Nat
    BY <2>c
  <2> DEFINE u == At(t + NotifySchedule[d.notifyNum + 2])
             k == d.notifyNum + 1
  <2>3. u \in Nat
    BY <2>2, AtTime
  <2>4. k \in Nat
    BY <2>1
  <2>5. Renotify(d, t) = [d EXCEPT !.notify = u, !.notifyNum = k]
    BY <1>1 DEF Renotify
  <2> HIDE DEF u, k
  <2> QED
    BY <2>3, <2>4, <2>5 DEF DomainState
<1>2. CASE ~(d.notifyNum + 2 <= Len(NotifySchedule))
  <2> DEFINE u == At(d.expires + NotifySlack)
  <2>1. d.expires + NotifySlack \in Nat
    BY MessageAssumption DEF DomainState
  <2>2. u \in Nat
    BY <2>1, AtTime
  <2>3. Renotify(d, t) = [d EXCEPT !.notify = u]
    BY <1>2 DEF Renotify
  <2> HIDE DEF u
  <2> QED
    BY <2>2, <2>3 DEF DomainState
<1> QED
  BY <1>1, <1>2

\* New schedules after a notification.
LEMMA RescheduledReport ==
  ASSUME NEW m, NEW n, Reported(m, n), NEW x, DOMAIN x = DOMAIN n.domains,
         \A d \in DOMAIN n.domains : x[d] \in DomainState /\ x[d].status = n.domains[d].status,
         x \in [DOMAIN n.domains -> DomainState],
         NEW k, k = [n EXCEPT !.domains = x]
  PROVE  Reported(m, k)
<1>1. IsMessage(n) /\ DOMAIN n.domains = DOMAIN m.domains
  BY DEF Reported, Keeps
<1>2. IsMessage(k) /\ k.returnPath = n.returnPath /\ k.domains = x /\ k.rcpts = n.rcpts
  BY <1>1, DomainsChange
<1> QED
  BY <1>1, <1>2 DEF Reported, Keeps

\* build_dsn and handle_double_bounce.
LEMMA DsnEffect ==
  ASSUME NEW m, IsMessage(m), NEW t \in Nat
  PROVE  Reported(m, AfterDsn(m, t))
<1>1. CASE m.returnPath
  <2> DEFINE a == Marked(m, Succeeded(m) \cup Failed(m))
             notified == {d \in Pending(m) : m.domains[d].notify <= t}
             x == [d \in DOMAIN a.domains |->
                      IF d \in notified THEN Renotify(a.domains[d], t) ELSE a.domains[d]]
  <2>1. Reported(m, a) /\ a.domains = m.domains
    <3>1. a = Marked(m, Succeeded(m) \cup Failed(m))
      OBVIOUS
    <3> HIDE DEF a
    <3>2. /\ Keeps(m, a) /\ a.domains = m.domains
          /\ \A r \in DOMAIN m.rcpts :
               /\ a.rcpts[r].status = m.rcpts[r].status
               /\ a.rcpts[r].dsnSent <=> m.rcpts[r].dsnSent \/ r \in Succeeded(m) \cup Failed(m)
      BY <3>1, MarkingEffect
    <3> QED
      BY <1>1, <3>2 DEF Reported
  <2>2. BuildDsn(m, t) = IF Delayed(m, t) = {} THEN a ELSE [a EXCEPT !.domains = x]
    BY DEF BuildDsn, WithRcpts, WithDomains, Marked
  <2>3. AfterDsn(m, t) = a \/ AfterDsn(m, t) = [a EXCEPT !.domains = x]
    BY <1>1, <2>2 DEF AfterDsn
  <2> HIDE DEF a
  <2>4. \A d \in DOMAIN a.domains : x[d] \in DomainState /\ x[d].status = a.domains[d].status
    <3>1. \A d \in DOMAIN a.domains : a.domains[d] \in DomainState
      BY <2>1 DEF IsMessage
    <3> HIDE DEF notified
    <3> QED
      BY <3>1, RenotifyType
  <2>5. x \in [DOMAIN a.domains -> DomainState] /\ DOMAIN x = DOMAIN a.domains
    BY <2>4
  <2> HIDE DEF x
  <2> QED
    BY <2>1, <2>3, <2>4, <2>5, RescheduledReport
<1>2. CASE ~m.returnPath
  <2> DEFINE a == Marked(m, Failed(m))
             silenced == {d \in DOMAIN m.domains : m.domains[d].notify <= t}
             x == [d \in DOMAIN a.domains |->
                      IF d \in silenced THEN [a.domains[d] EXCEPT !.notify = At(a.domains[d].expires + NotifySlack)]
                      ELSE a.domains[d]]
  <2>1. Reported(m, a) /\ a.domains = m.domains
    <3>1. a = Marked(m, Failed(m))
      OBVIOUS
    <3> HIDE DEF a
    <3>2. /\ Keeps(m, a) /\ a.domains = m.domains
          /\ \A r \in DOMAIN m.rcpts :
               /\ a.rcpts[r].status = m.rcpts[r].status
               /\ a.rcpts[r].dsnSent <=> m.rcpts[r].dsnSent \/ r \in Failed(m)
      BY <3>1, MarkingEffect
    <3> QED
      BY <1>2, <3>2 DEF Reported
  <2>2. HandleDoubleBounce(m, t) = [a EXCEPT !.domains = x]
    BY DEF HandleDoubleBounce, WithRcpts, WithDomains, Marked
  <2>3. AfterDsn(m, t) = [a EXCEPT !.domains = x]
    BY <1>2, <2>2 DEF AfterDsn
  <2> HIDE DEF a
  <2>4. \A d \in DOMAIN a.domains : x[d] \in DomainState /\ x[d].status = a.domains[d].status
    <3> SUFFICES ASSUME NEW d \in DOMAIN a.domains
                 PROVE  x[d] \in DomainState /\ x[d].status = a.domains[d].status
      OBVIOUS
    <3> DEFINE u == At(a.domains[d].expires + NotifySlack)
    <3>1. a.domains[d] \in DomainState
      BY <2>1 DEF IsMessage
    <3>2. a.domains[d].expires + NotifySlack \in Nat
      BY <3>1, MessageAssumption DEF DomainState
    <3>3. u \in Nat
      BY <3>2, AtTime
    <3>4. x[d] = [a.domains[d] EXCEPT !.notify = u] \/ x[d] = a.domains[d]
      OBVIOUS
    <3> HIDE DEF u, x
    <3> QED
      BY <3>1, <3>3, <3>4 DEF DomainState
  <2>5. x \in [DOMAIN a.domains -> DomainState] /\ DOMAIN x = DOMAIN a.domains
    BY <2>4
  <2> HIDE DEF x
  <2> QED
    BY <2>1, <2>3, <2>4, <2>5, RescheduledReport
<1> QED
  BY <1>1, <1>2

\* n is m after an attempt at domain d that delivered to `got'.
Attempted(m, n, d, got) ==
    /\ Keeps(m, n)
    /\ \A e \in DOMAIN m.domains :
         n.domains[e].status = m.domains[e].status \/ (e = d /\ d \in Pending(m))
    /\ \A r \in DOMAIN m.rcpts :
         /\ n.rcpts[r].dsnSent = m.rcpts[r].dsnSent
         /\ \/ n.rcpts[r].status = m.rcpts[r].status /\ r \notin got
            \/ /\ r \in Undelivered(m, d) /\ d \in Pending(m) /\ n.rcpts[r].status \in Replies
               /\ r \in got <=> n.rcpts[r].status = "Completed"
         /\ DomainOf[r] = d /\ n.domains[d].status = "Completed" =>
              m.domains[d].status = "Completed" \/ n.rcpts[r].status # "Scheduled"
    /\ got \subseteq DOMAIN m.rcpts

\* The status a session gives to a domain.
LEMMA SetStatusType ==
  ASSUME NEW d \in DomainState, NEW s \in Status, NEW t \in Nat
  PROVE  SetStatus(d, s, t) \in DomainState /\ SetStatus(d, s, t).status = s
<1>1. CASE s \in Unfinished
  <2> DEFINE u == At(t + RetrySchedule[Min({d.retryNum + 1, Len(RetrySchedule)})])
             k == d.retryNum + 1
  <2>1. d.retryNum \in Nat
    BY DEF DomainState
  <2>2. RetrySchedule[Min({d.retryNum + 1, Len(RetrySchedule)})] \in Nat
    BY <2>1, RetryInterval
  <2>3. u \in Nat
    BY <2>2, AtTime
  <2>4. k \in Nat
    BY <2>1
  <2>5. SetStatus(d, s, t) = [d EXCEPT !.status = s, !.retry = u, !.retryNum = k]
    BY <1>1 DEF SetStatus
  <2> HIDE DEF u, k
  <2> QED
    BY <2>3, <2>4, <2>5 DEF DomainState
<1>2. CASE s \notin Unfinished
  BY <1>2, NewStatus DEF SetStatus
<1> QED
  BY <1>1, <1>2

\* The status a rate limit gives to a domain.
LEMMA RateLimitType ==
  ASSUME NEW d \in DomainState, NEW u \in Nat
  PROVE  SetRateLimiterError(d, u) \in DomainState /\ SetRateLimiterError(d, u).status = "TemporaryFailure"
  BY DEF SetRateLimiterError, DomainState, Status

\* What a session gives to the undelivered recipients P of a domain.
Given(P, s) ==
    /\ s.rcpts \in [P -> Replies \cup {"Unchanged"}] /\ s.domain \in Status
    /\ s.domain = "Completed" => \A r \in P : s.rcpts[r] # "Unchanged"

\* The results of a session.
LEMMA SessionGives ==
  ASSUME NEW m, NEW d, NEW s \in SessionResult(m, d, Replies)
  PROVE  Given(Undelivered(m, d), s)
<1> DEFINE P == Undelivered(m, d)
<1>1. "Unchanged" \notin Replies
  BY SpoolAssumption DEF Status
<1>2. \/ \E g \in [P -> Replies] : s.rcpts = g /\ s.domain \in {"Completed", "Scheduled"}
      \/ \E g \in [P -> (Replies \ {"Completed"}) \cup {"Unchanged"}] :
           s.rcpts = g /\ s.domain \in {"TemporaryFailure", "PermanentFailure", "Scheduled"}
  BY DEF SessionResult
<1> HIDE DEF P
<1>3. ASSUME NEW g \in [P -> Replies], s.rcpts = g, s.domain \in {"Completed", "Scheduled"}
      PROVE  Given(P, s)
  <2>1. s.rcpts \in [P -> Replies \cup {"Unchanged"}] /\ \A r \in P : s.rcpts[r] # "Unchanged"
    BY <1>1, <1>3
  <2>2. s.domain \in Status
    BY <1>3 DEF Status
  <2> QED
    BY <2>1, <2>2 DEF Given
<1>4. ASSUME NEW g \in [P -> (Replies \ {"Completed"}) \cup {"Unchanged"}], s.rcpts = g,
             s.domain \in {"TemporaryFailure", "PermanentFailure", "Scheduled"}
      PROVE  Given(P, s)
  <2>1. s.rcpts \in [P -> Replies \cup {"Unchanged"}]
    BY <1>4
  <2>2. s.domain \in Status /\ s.domain # "Completed"
    BY <1>4 DEF Status
  <2> QED
    BY <2>1, <2>2 DEF Given
<1>5. Given(P, s)
  BY <1>2, <1>3, <1>4
<1> QED
  BY <1>5 DEF P

\* An attempt at a domain.
LEMMA ResultEffect ==
  ASSUME NEW m, IsMessage(m), NEW d, NEW t \in Nat,
         NEW res \in AttemptResults(m, d, t, Replies, RateDelays)
  PROVE  Attempted(m, res.msg, d, res.got)
<1>1. CASE res = [msg |-> m, got |-> {}]
  BY <1>1 DEF Attempted, Keeps
<1>2. ASSUME d \in DueDomains(m, t), NEW delay \in RateDelays,
             res = [msg |-> [m EXCEPT !.domains[d] = SetRateLimiterError(@, At(t + delay))], got |-> {}]
      PROVE  Attempted(m, res.msg, d, res.got)
  <2> DEFINE u == At(t + delay)
             c == SetRateLimiterError(m.domains[d], u)
             x == [m.domains EXCEPT ![d] = c]
             n == [m EXCEPT !.domains = x]
  <2>1. n = res.msg /\ res.got = {}
    BY <1>2 DEF IsMessage
  <2>2. d \in Pending(m) /\ d \in DOMAIN m.domains /\ m.domains[d] \in DomainState
    BY <1>2 DEF DueDomains, Pending, IsMessage
  <2>3. c \in DomainState /\ c.status = "TemporaryFailure"
    <3>1. t + delay \in Nat
      BY SpoolAssumption
    <3>2. u \in Nat
      BY <3>1, AtTime
    <3> HIDE DEF u
    <3> QED
      BY <2>2, <3>2, RateLimitType
  <2>4. m.domains \in [DOMAIN m.domains -> DomainState]
    BY DEF IsMessage
  <2> HIDE DEF c
  <2>5. /\ x \in [DOMAIN m.domains -> DomainState] /\ x[d] = c
        /\ \A e \in DOMAIN m.domains : e # d => x[e] = m.domains[e]
    BY <2>2, <2>3, <2>4
  <2> HIDE DEF x
  <2>6. IsMessage(n) /\ n.returnPath = m.returnPath /\ n.domains = x /\ n.rcpts = m.rcpts
    BY <2>5, DomainsChange
  <2> HIDE DEF n
  <2>7. Attempted(m, n, d, {})
    BY <2>2, <2>3, <2>5, <2>6 DEF Attempted, Keeps
  <2> QED
    BY <2>1, <2>7
<1>3. ASSUME d \in DueDomains(m, t), NEW s \in SessionResult(m, d, Replies),
             res = [msg |-> AfterSession(m, d, s, t), got |-> {r \in DOMAIN s.rcpts : s.rcpts[r] = "Completed"}]
      PROVE  Attempted(m, res.msg, d, res.got)
  <2> DEFINE P == Undelivered(m, d)
             touched == {r \in DOMAIN s.rcpts : s.rcpts[r] # "Unchanged"}
             c == SetStatus(m.domains[d], s.domain, t)
             x == [m.domains EXCEPT ![d] = c]
             a == [m EXCEPT !.domains = x]
             y == [r \in DOMAIN m.rcpts |-> IF r \in touched THEN [m.rcpts[r] EXCEPT !.status = s.rcpts[r]] ELSE m.rcpts[r]]
             n == [a EXCEPT !.rcpts = y]
             got == {r \in DOMAIN s.rcpts : s.rcpts[r] = "Completed"}
  <2>1. n = res.msg /\ got = res.got
    BY <1>3 DEF AfterSession, IsMessage
  <2>2. Given(P, s)
    BY <1>3, SessionGives
  <2>3. d \in Pending(m) /\ d \in DOMAIN m.domains /\ m.domains[d] \in DomainState
    BY <1>3 DEF DueDomains, Pending, IsMessage
  <2>4. c \in DomainState /\ c.status = s.domain
    BY <2>2, <2>3, SetStatusType DEF Given
  <2>5. m.domains \in [DOMAIN m.domains -> DomainState]
    BY DEF IsMessage
  <2> HIDE DEF c
  <2>6. /\ x \in [DOMAIN m.domains -> DomainState] /\ x[d].status = s.domain
        /\ \A e \in DOMAIN m.domains : e # d => x[e] = m.domains[e]
    BY <2>3, <2>4, <2>5
  <2> HIDE DEF x
  <2>7. IsMessage(a) /\ a.returnPath = m.returnPath /\ a.domains = x /\ a.rcpts = m.rcpts
    BY <2>6, DomainsChange
  <2> HIDE DEF a
  <2>8. P \subseteq DOMAIN m.rcpts /\ \A r \in DOMAIN m.rcpts : DomainOf[r] = d /\ r \notin P => m.rcpts[r].status # "Scheduled"
    BY DEF Undelivered, RcptsOf, Unfinished
  <2> HIDE DEF P
  <2>9. \A r \in DOMAIN m.rcpts :
          /\ y[r] \in RcptState /\ y[r].notify = m.rcpts[r].notify /\ y[r].dsnSent = m.rcpts[r].dsnSent
          /\ \/ y[r].status = m.rcpts[r].status /\ r \notin got /\ (r \in P => s.rcpts[r] = "Unchanged")
             \/ r \in P /\ y[r].status \in Replies /\ (r \in got <=> y[r].status = "Completed")
    <3> SUFFICES ASSUME NEW r \in DOMAIN m.rcpts
                 PROVE  /\ y[r] \in RcptState /\ y[r].notify = m.rcpts[r].notify /\ y[r].dsnSent = m.rcpts[r].dsnSent
                        /\ \/ y[r].status = m.rcpts[r].status /\ r \notin got /\ (r \in P => s.rcpts[r] = "Unchanged")
                           \/ r \in P /\ y[r].status \in Replies /\ (r \in got <=> y[r].status = "Completed")
      OBVIOUS
    <3>1. m.rcpts[r] \in RcptState
      BY DEF IsMessage
    <3>2. CASE r \in touched
      <4>1. r \in P /\ s.rcpts[r] \in Replies /\ s.rcpts[r] \in Status
        BY <2>2, <3>2, SpoolAssumption DEF Given
      <4>2. y[r] = [m.rcpts[r] EXCEPT !.status = s.rcpts[r]]
        BY <3>2
      <4>3. r \in got <=> s.rcpts[r] = "Completed"
        BY <3>2
      <4> HIDE DEF y, got
      <4> QED
        BY <3>1, <4>1, <4>2, <4>3, NewStatus
    <3>3. CASE r \notin touched
      <4>1. y[r] = m.rcpts[r] /\ r \notin got /\ (r \in P => s.rcpts[r] = "Unchanged")
        BY <2>2, <3>3 DEF Given
      <4> QED
        BY <3>1, <4>1
    <3> QED
      BY <3>2, <3>3
  <2>10. y \in [DOMAIN a.rcpts -> RcptState]
    BY <2>7, <2>9
  <2>11. got \subseteq P
    BY <2>2 DEF Given
  <2> HIDE DEF y, got
  <2>12. IsMessage(n) /\ n.returnPath = a.returnPath /\ n.domains = a.domains /\ n.rcpts = y
    BY <2>7, <2>10, RcptsChange
  <2> HIDE DEF n
  <2>13. Keeps(m, n)
    BY <2>6, <2>7, <2>9, <2>10, <2>12 DEF Keeps
  <2>14. s.domain = "Completed" => \A r \in DOMAIN m.rcpts : DomainOf[r] = d => y[r].status # "Scheduled"
    BY <2>2, <2>8, <2>9, SpoolAssumption DEF Given
  <2>15. Attempted(m, n, d, got)
    <3>1. \A e \in DOMAIN m.domains : n.domains[e].status = m.domains[e].status \/ (e = d /\ d \in Pending(m))
      BY <2>3, <2>6, <2>7, <2>12
    <3>2. n.domains[d].status = s.domain
      BY <2>6, <2>7, <2>12
    <3>3. got \subseteq DOMAIN m.rcpts
      BY <2>8, <2>11
    <3>4. \A r \in DOMAIN m.rcpts :
            /\ n.rcpts[r].dsnSent = m.rcpts[r].dsnSent
            /\ \/ n.rcpts[r].status = m.rcpts[r].status /\ r \notin got
               \/ /\ r \in P /\ d \in Pending(m) /\ n.rcpts[r].status \in Replies
                  /\ r \in got <=> n.rcpts[r].status = "Completed"
            /\ DomainOf[r] = d /\ s.domain = "Completed" => n.rcpts[r].status # "Scheduled"
      BY <2>3, <2>9, <2>12, <2>14
    <3> QED
      BY <2>13, <3>1, <3>2, <3>3, <3>4 DEF Attempted, P
  <2> QED
    BY <2>1, <2>15
<1>4. CASE d \notin DueDomains(m, t)
  BY <1>1, <1>4 DEF AttemptResults
<1> QED
  BY <1>2, <1>3, <1>4 DEF AttemptResults

\* The next event of a message, and its next delivery, are no later than its retries.
LEMMA EventsAreFirst ==
  ASSUME NEW m, IsMessage(m), NEW t
  PROVE  \A d \in Pending(m) :
           NextEvent(m) <= m.domains[d].retry /\ NextDeliveryEvent(m, t) <= m.domains[d].retry
<1> SUFFICES ASSUME NEW d \in Pending(m)
             PROVE  NextEvent(m) <= m.domains[d].retry /\ NextDeliveryEvent(m, t) <= m.domains[d].retry
  OBVIOUS
<1>1. \A e \in Pending(m) : m.domains[e].retry \in Nat /\ m.domains[e].notify \in Nat /\ m.domains[e].expires \in Nat
  BY DEF Pending, IsMessage, DomainState
<1> DEFINE S == EventTimes(m)
           T == {m.domains[e].retry : e \in Pending(m)}
<1>2. S \subseteq Nat /\ m.domains[d].retry \in S
  BY <1>1 DEF EventTimes
<1>3. T \subseteq Nat /\ m.domains[d].retry \in T
  BY <1>1
<1>4. NextEvent(m) = Min(S) /\ NextDeliveryEvent(m, t) = Min(T)
  BY DEF NextEvent, HasNextEvent, NextDeliveryEvent
<1> HIDE DEF S, T
<1> QED
  BY <1>2, <1>3, <1>4, LeastTime

-------------------------------------------------------------------------------
(* What is known of the recipients of a version of a message.  D and B count   *)
(* the deliveries and the failure reports of each recipient.                   *)

Counts == [Rcpt -> Nat]

\* The counts after one more of each recipient in R.
Bumped(C, R) == [r \in Rcpt |-> IF r \in R /\ C[r] < 2 THEN C[r] + 1 ELSE C[r]]

\* They have grown, and those of R are positive.
LEMMA BumpedGrows ==
  ASSUME NEW C \in Counts, NEW R
  PROVE  /\ Bumped(C, R) \in Counts
         /\ \A r \in Rcpt : /\ C[r] > 0 => Bumped(C, R)[r] > 0
                            /\ r \in R => Bumped(C, R)[r] > 0
                            /\ r \notin R => Bumped(C, R)[r] = C[r]
                            /\ r \in R /\ C[r] = 0 => Bumped(C, R)[r] = 1
  BY DEF Bumped, Counts

\* One message's counts.
LEMMA BumpOne ==
  ASSUME NEW counts \in [QueueId -> Counts], NEW q \in QueueId, NEW R
  PROVE  /\ Bump(counts, q, R) \in [QueueId -> Counts]
         /\ Bump(counts, q, R)[q] = Bumped(counts[q], R)
         /\ \A p \in QueueId : p # q => Bump(counts, q, R)[p] = counts[p]
<1> DEFINE c == Bumped(counts[q], R)
<1>1. c \in Counts
  BY BumpedGrows
<1>2. Bump(counts, q, R) = [counts EXCEPT ![q] = c]
  BY DEF Bump, Bumped
<1> HIDE DEF c
<1>3. /\ [counts EXCEPT ![q] = c] \in [QueueId -> Counts] /\ [counts EXCEPT ![q] = c][q] = c
      /\ \A p \in QueueId : p # q => [counts EXCEPT ![q] = c][p] = counts[p]
  BY <1>1
<1> QED
  BY <1>2, <1>3 DEF c

\* Who is recorded as delivered to was, who is marked as reported was, and a
\* domain is done with when its recipients are.
Accounted(m, D, B) ==
    \A r \in DOMAIN m.rcpts :
        /\ m.rcpts[r].status # "TemporaryFailure"
        /\ m.rcpts[r].status = "Completed" => D[r] > 0
        /\ m.domains[DomainOf[r]].status = "Completed" => m.rcpts[r].status # "Scheduled"
        /\ m.returnPath /\ m.rcpts[r].dsnSent /\ "failure" \in m.rcpts[r].notify => D[r] > 0 \/ B[r] > 0

\* Every recipient was delivered to or reported, unless nobody wants to know.
Told(m, D, B) ==
    m.returnPath =>
      \A r \in DOMAIN m.rcpts :
        \/ D[r] > 0 \/ B[r] > 0
        \/ "failure" \notin m.rcpts[r].notify
        \/ "never" \in m.rcpts[r].notify

\* A message that was just accepted.
LEMMA AccountedFresh ==
  ASSUME NEW m, Fresh(m), NEW D, NEW B
  PROVE  Accounted(m, D, B)
  BY DEF Fresh, Accounted, IsMessage

\* More deliveries, more reports.
LEMMA AccountedMore ==
  ASSUME NEW m, IsMessage(m), NEW D, NEW B, Accounted(m, D, B), NEW E, NEW C,
         \A r \in Rcpt : (D[r] > 0 => E[r] > 0) /\ (B[r] > 0 => C[r] > 0)
  PROVE  Accounted(m, E, C)
  BY DEF Accounted, IsMessage

\* Expiry, when recipients are not left with a temporary failure.
LEMMA AccountedExpired ==
  ASSUME NEW m, IsMessage(m), NEW n, Expired(m, n), NEW D, NEW B, Accounted(m, D, B)
  PROVE  Accounted(n, D, B)
<1> SUFFICES ASSUME NEW r \in DOMAIN n.rcpts
             PROVE  /\ n.rcpts[r].status # "TemporaryFailure"
                    /\ n.rcpts[r].status = "Completed" => D[r] > 0
                    /\ n.domains[DomainOf[r]].status = "Completed" => n.rcpts[r].status # "Scheduled"
                    /\ n.returnPath /\ n.rcpts[r].dsnSent /\ "failure" \in n.rcpts[r].notify => D[r] > 0 \/ B[r] > 0
  BY DEF Accounted
<1>1. r \in DOMAIN m.rcpts /\ DomainOf[r] \in DOMAIN m.domains
  BY DEF Expired, Keeps, IsMessage
<1>2. m.rcpts[r].status # "TemporaryFailure" /\ n.rcpts[r].status = m.rcpts[r].status
  BY <1>1 DEF Accounted, Expired
<1>3. n.returnPath = m.returnPath /\ n.rcpts[r].dsnSent = m.rcpts[r].dsnSent /\ n.rcpts[r].notify = m.rcpts[r].notify
  BY <1>1 DEF Expired, Keeps
<1>4. n.domains[DomainOf[r]].status = "Completed" => m.domains[DomainOf[r]].status = "Completed"
  BY <1>1 DEF Expired
<1> QED
  BY <1>1, <1>2, <1>3, <1>4 DEF Accounted

\* Whom a notification sent to the sender covers.
LEMMA WhoIsTold ==
  ASSUME NEW m, NEW t
  PROVE  /\ m.returnPath => DsnFor(m, t).failure = {r \in Failed(m) : "failure" \in m.rcpts[r].notify}
         /\ ~m.returnPath => DsnFor(m, t).failure = {}
  BY DEF DsnFor

\* A notification, when what it reports is counted.
LEMMA AccountedReported ==
  ASSUME NEW m, IsMessage(m), NEW n, Reported(m, n), NEW D, NEW B, Accounted(m, D, B), NEW C, NEW t,
         \A r \in Rcpt : (B[r] > 0 => C[r] > 0) /\ (r \in DsnFor(m, t).failure => C[r] > 0)
  PROVE  Accounted(n, D, C) /\ (Pending(n) = {} => Told(n, D, C))
<1>1. ASSUME NEW r \in DOMAIN n.rcpts
      PROVE  /\ r \in DOMAIN m.rcpts /\ r \in Rcpt /\ DomainOf[r] \in DOMAIN m.domains
             /\ n.returnPath = m.returnPath /\ n.rcpts[r].notify = m.rcpts[r].notify
             /\ n.rcpts[r].status = m.rcpts[r].status
             /\ n.domains[DomainOf[r]].status = m.domains[DomainOf[r]].status
             /\ m.domains[DomainOf[r]].status \in Status /\ m.rcpts[r].status \in Status
             /\ m.rcpts[r].dsnSent \in BOOLEAN
             /\ n.rcpts[r].dsnSent <=>
                  m.rcpts[r].dsnSent \/ r \in Failed(m) \/ (m.returnPath /\ r \in Succeeded(m))
  <2>1. r \in DOMAIN m.rcpts /\ r \in Rcpt /\ DomainOf[r] \in DOMAIN m.domains
    BY DEF Reported, Keeps, IsMessage
  <2>2. m.domains[DomainOf[r]] \in DomainState /\ m.rcpts[r] \in RcptState
    BY <2>1 DEF IsMessage
  <2>3. m.domains[DomainOf[r]].status \in Status /\ m.rcpts[r].status \in Status /\ m.rcpts[r].dsnSent \in BOOLEAN
    BY <2>2 DEF DomainState, RcptState
  <2> QED
    BY <2>1, <2>3 DEF Reported, Keeps
<1>2. ASSUME NEW r \in DOMAIN m.rcpts, r \in Failed(m), r \in Rcpt, m.returnPath, "failure" \in m.rcpts[r].notify
      PROVE  C[r] > 0
  BY <1>2, WhoIsTold
<1>3. Accounted(n, D, C)
  <2> SUFFICES ASSUME NEW r \in DOMAIN n.rcpts
               PROVE  /\ n.rcpts[r].status # "TemporaryFailure"
                      /\ n.rcpts[r].status = "Completed" => D[r] > 0
                      /\ n.domains[DomainOf[r]].status = "Completed" => n.rcpts[r].status # "Scheduled"
                      /\ n.returnPath /\ n.rcpts[r].dsnSent /\ "failure" \in n.rcpts[r].notify => D[r] > 0 \/ C[r] > 0
    BY DEF Accounted
  <2>1. r \in Succeeded(m) => m.rcpts[r].status = "Completed"
    BY DEF Succeeded
  <2> QED
    BY <1>1, <1>2, <2>1 DEF Accounted
<1>4. ASSUME Pending(n) = {} PROVE Told(n, D, C)
  <2> SUFFICES ASSUME n.returnPath, NEW r \in DOMAIN n.rcpts,
                      "failure" \in n.rcpts[r].notify, "never" \notin n.rcpts[r].notify
               PROVE  D[r] > 0 \/ C[r] > 0
    BY DEF Told
  <2>1. /\ r \in DOMAIN m.rcpts /\ r \in Rcpt /\ m.returnPath
        /\ "failure" \in m.rcpts[r].notify /\ "never" \notin m.rcpts[r].notify
    BY <1>1
  <2>2. m.domains[DomainOf[r]].status \notin Unfinished
    <3>1. DomainOf[r] \in DOMAIN n.domains
      BY <1>1 DEF Reported, Keeps
    <3> QED
      BY <1>1, <1>4, <3>1 DEF Pending
  <2>3. CASE m.rcpts[r].dsnSent
    BY <1>3, <2>1, <2>3, <1>1 DEF Accounted
  <2>4. CASE ~m.rcpts[r].dsnSent
    <3>1. r \in Unreported(m)
      BY <2>1, <2>4 DEF Unreported
    <3>2. m.rcpts[r].status = "Completed" \/ r \in Failed(m)
      BY <1>1, <2>1, <2>2, <3>1 DEF Failed, DomainStatus, Accounted, Status, Unfinished
    <3> QED
      BY <1>2, <2>1, <3>2 DEF Accounted
  <2> QED
    BY <2>3, <2>4
<1> QED
  BY <1>3, <1>4

\* An attempt, when replies are final and what it delivers is counted.
LEMMA AccountedAttempted ==
  ASSUME "TemporaryFailure" \notin Replies,
         NEW m, IsMessage(m), NEW n, NEW d, NEW got, Attempted(m, n, d, got),
         NEW D, NEW B, Accounted(m, D, B), NEW E,
         \A r \in Rcpt : (D[r] > 0 => E[r] > 0) /\ (r \in got => E[r] > 0)
  PROVE  Accounted(n, E, B)
<1> SUFFICES ASSUME NEW r \in DOMAIN n.rcpts
             PROVE  /\ n.rcpts[r].status # "TemporaryFailure"
                    /\ n.rcpts[r].status = "Completed" => E[r] > 0
                    /\ n.domains[DomainOf[r]].status = "Completed" => n.rcpts[r].status # "Scheduled"
                    /\ n.returnPath /\ n.rcpts[r].dsnSent /\ "failure" \in n.rcpts[r].notify => E[r] > 0 \/ B[r] > 0
  BY DEF Accounted
<1>1. r \in DOMAIN m.rcpts /\ r \in Rcpt /\ DomainOf[r] \in DOMAIN m.domains
  BY DEF Attempted, Keeps, IsMessage
<1>2. n.returnPath = m.returnPath /\ n.rcpts[r].dsnSent = m.rcpts[r].dsnSent /\ n.rcpts[r].notify = m.rcpts[r].notify
  BY <1>1 DEF Attempted, Keeps
<1>3. n.rcpts[r].status # "TemporaryFailure" /\ (n.rcpts[r].status = "Completed" => E[r] > 0)
  BY <1>1 DEF Attempted, Accounted
<1>4. n.domains[DomainOf[r]].status = "Completed" => n.rcpts[r].status # "Scheduled"
  <2> SUFFICES ASSUME n.domains[DomainOf[r]].status = "Completed" PROVE n.rcpts[r].status # "Scheduled"
    OBVIOUS
  <2>1. \/ n.rcpts[r].status = m.rcpts[r].status
        \/ n.rcpts[r].status \in Replies
    BY <1>1 DEF Attempted
  <2>2. CASE m.domains[DomainOf[r]].status = "Completed"
    BY <1>1, <2>1, <2>2, SpoolAssumption DEF Accounted
  <2>3. CASE m.domains[DomainOf[r]].status # "Completed"
    BY <1>1, <2>3 DEF Attempted
  <2> QED
    BY <2>2, <2>3
<1> QED
  BY <1>1, <1>2, <1>3, <1>4 DEF Accounted

\* Who was delivered to is recorded so, who was reported has failed for good and
\* is marked, and neither has happened twice.
Once(m, D, B) ==
    \A r \in Rcpt :
        /\ D[r] \in {0, 1} /\ B[r] \in {0, 1}
        /\ D[r] = 1 => r \in DOMAIN m.rcpts /\ m.rcpts[r].status = "Completed"
        /\ B[r] = 1 => /\ r \in DOMAIN m.rcpts /\ m.rcpts[r].dsnSent
                       /\ \/ m.rcpts[r].status = "PermanentFailure"
                          \/ m.rcpts[r].status = "Scheduled" /\ DomainStatus(m, r) = "PermanentFailure"

\* Not both.
LEMMA OnceEach ==
  ASSUME NEW m, NEW D, NEW B, Once(m, D, B)
  PROVE  \A r \in Rcpt : D[r] + B[r] <= 1
<1> SUFFICES ASSUME NEW r \in Rcpt PROVE D[r] + B[r] <= 1
  OBVIOUS
<1>1. D[r] \in {0, 1} /\ B[r] \in {0, 1} /\ ~(D[r] = 1 /\ B[r] = 1)
  BY DEF Once
<1> QED
  BY <1>1

\* Expiry.
LEMMA OnceExpired ==
  ASSUME NEW m, IsMessage(m), NEW n, Expired(m, n), NEW D, NEW B, Once(m, D, B)
  PROVE  Once(n, D, B)
<1> SUFFICES ASSUME NEW r \in Rcpt
             PROVE  /\ D[r] \in {0, 1} /\ B[r] \in {0, 1}
                    /\ D[r] = 1 => r \in DOMAIN n.rcpts /\ n.rcpts[r].status = "Completed"
                    /\ B[r] = 1 => /\ r \in DOMAIN n.rcpts /\ n.rcpts[r].dsnSent
                                   /\ \/ n.rcpts[r].status = "PermanentFailure"
                                      \/ n.rcpts[r].status = "Scheduled" /\ DomainStatus(n, r) = "PermanentFailure"
  BY DEF Once
<1>1. DOMAIN n.rcpts = DOMAIN m.rcpts /\ \A s \in DOMAIN m.rcpts : DomainOf[s] \in DOMAIN m.domains
  BY DEF Expired, Keeps, IsMessage
<1>2. \A s \in DOMAIN m.rcpts : DomainStatus(m, s) = "PermanentFailure" => DomainStatus(n, s) = "PermanentFailure"
  BY <1>1 DEF Expired, DomainStatus
<1> QED
  BY <1>1, <1>2 DEF Once, Expired

\* A notification that is sent, or gets lost.
LEMMA OnceReported ==
  ASSUME NEW m, IsMessage(m), NEW n, Reported(m, n), NEW D, NEW B \in Counts, Once(m, D, B), NEW C, NEW t,
         C = B \/ C = Bumped(B, DsnFor(m, t).failure)
  PROVE  Once(n, D, C)
<1> SUFFICES ASSUME NEW r \in Rcpt
             PROVE  /\ D[r] \in {0, 1} /\ C[r] \in {0, 1}
                    /\ D[r] = 1 => r \in DOMAIN n.rcpts /\ n.rcpts[r].status = "Completed"
                    /\ C[r] = 1 => /\ r \in DOMAIN n.rcpts /\ n.rcpts[r].dsnSent
                                   /\ \/ n.rcpts[r].status = "PermanentFailure"
                                      \/ n.rcpts[r].status = "Scheduled" /\ DomainStatus(n, r) = "PermanentFailure"
  BY DEF Once
<1>1. DOMAIN n.rcpts = DOMAIN m.rcpts /\ \A s \in DOMAIN m.rcpts : DomainOf[s] \in DOMAIN m.domains
  BY DEF Reported, Keeps, IsMessage
<1>2. \A s \in DOMAIN m.rcpts : DomainStatus(n, s) = DomainStatus(m, s)
  BY <1>1 DEF Reported, DomainStatus
<1>3. D[r] \in {0, 1} /\ (D[r] = 1 => r \in DOMAIN n.rcpts /\ n.rcpts[r].status = "Completed")
  BY <1>1 DEF Once, Reported
<1>4. CASE r \in DsnFor(m, t).failure /\ C # B
  <2>1. r \in Failed(m)
    BY <1>4, WhoIsTold
  <2>2. /\ r \in DOMAIN m.rcpts /\ ~m.rcpts[r].dsnSent
        /\ m.rcpts[r].status = "PermanentFailure" \/ (m.rcpts[r].status = "Scheduled" /\ DomainStatus(m, r) = "PermanentFailure")
    BY <2>1 DEF Failed, Unreported
  <2>3. B[r] = 0
    BY <2>2 DEF Once
  <2>4. C[r] = 1
    BY <1>4, <2>3, BumpedGrows
  <2>5. n.rcpts[r].dsnSent /\ n.rcpts[r].status = m.rcpts[r].status
    BY <2>1, <2>2 DEF Reported
  <2> QED
    BY <1>1, <1>2, <1>3, <2>2, <2>4, <2>5
<1>5. CASE r \notin DsnFor(m, t).failure \/ C = B
  <2>1. C[r] = B[r]
    BY <1>5, BumpedGrows
  <2>2. r \in DOMAIN m.rcpts => n.rcpts[r].status = m.rcpts[r].status /\ (m.rcpts[r].dsnSent => n.rcpts[r].dsnSent)
    BY DEF Reported
  <2> QED
    BY <1>1, <1>2, <1>3, <2>1, <2>2 DEF Once
<1> QED
  BY <1>4, <1>5

\* An attempt.
LEMMA OnceAttempted ==
  ASSUME NEW m, IsMessage(m), NEW n, NEW d, NEW got, Attempted(m, n, d, got),
         NEW D \in Counts, NEW B, Once(m, D, B)
  PROVE  Once(n, Bumped(D, got), B)
<1> DEFINE E == Bumped(D, got)
<1> SUFFICES ASSUME NEW r \in Rcpt
             PROVE  /\ E[r] \in {0, 1} /\ B[r] \in {0, 1}
                    /\ E[r] = 1 => r \in DOMAIN n.rcpts /\ n.rcpts[r].status = "Completed"
                    /\ B[r] = 1 => /\ r \in DOMAIN n.rcpts /\ n.rcpts[r].dsnSent
                                   /\ \/ n.rcpts[r].status = "PermanentFailure"
                                      \/ n.rcpts[r].status = "Scheduled" /\ DomainStatus(n, r) = "PermanentFailure"
  BY DEF Once
<1>1. DOMAIN n.rcpts = DOMAIN m.rcpts /\ \A s \in DOMAIN m.rcpts : DomainOf[s] \in DOMAIN m.domains
  BY DEF Attempted, Keeps, IsMessage
<1>2. CASE r \in DOMAIN m.rcpts /\ r \in Undelivered(m, d) /\ d \in Pending(m)
  <2>1. m.rcpts[r].status \in Unfinished /\ DomainOf[r] = d /\ m.domains[d].status \in Unfinished
    BY <1>2 DEF Undelivered, RcptsOf, Pending
  <2>2. D[r] = 0 /\ B[r] = 0
    BY <2>1 DEF Once, DomainStatus, Unfinished
  <2>3. E[r] \in {0, 1} /\ (E[r] = 1 => r \in got)
    BY <2>2, BumpedGrows
  <2>4. r \in got => n.rcpts[r].status = "Completed"
    BY <1>2 DEF Attempted
  <2> QED
    BY <1>1, <1>2, <2>2, <2>3, <2>4
<1>3. CASE r \in DOMAIN m.rcpts /\ ~(r \in Undelivered(m, d) /\ d \in Pending(m))
  <2>1. n.rcpts[r].status = m.rcpts[r].status /\ r \notin got /\ n.rcpts[r].dsnSent = m.rcpts[r].dsnSent
    BY <1>3 DEF Attempted
  <2>2. E[r] = D[r]
    BY <2>1, BumpedGrows
  <2>3. m.rcpts[r].status = "Scheduled" /\ DomainStatus(m, r) = "PermanentFailure" => DomainStatus(n, r) = "PermanentFailure"
    BY <1>1, <1>3 DEF Attempted, DomainStatus, Pending, Unfinished
  <2> QED
    BY <1>1, <2>1, <2>2, <2>3 DEF Once
<1>4. CASE r \notin DOMAIN m.rcpts
  <2>1. r \notin got
    BY <1>4 DEF Attempted
  <2>2. E[r] = D[r]
    BY <2>1, BumpedGrows
  <2> QED
    BY <1>1, <1>4, <2>2 DEF Once
<1> QED
  BY <1>2, <1>3, <1>4

-------------------------------------------------------------------------------
(* What a step does to the versions of a message: nothing, a new message, a    *)
(* worker that brings its copy forward, or the last write of a worker.         *)

\* Messages and copies are messages, and a copy is of its message.
Typed ==
    /\ \A q \in QueueId : message[q] # NoMessage => IsMessage(message[q])
    /\ \A w \in workers : w.pc \in Copying => Keeps(message[w.q], w.msg)
    /\ delivered \in [QueueId -> Counts] /\ bounced \in [QueueId -> Counts]

\* A write of the store that fails leaves the messages alone.
Quiet ==
    /\ UNCHANGED <<message, queued, delivered, bounced>>
    /\ \A e \in events : message[e.q] # NoMessage => e \in events'
    /\ \A v \in workers' : v.pc \in Copying => v \in workers
    /\ {"restart", "write"} \cap Faults = {} => \A v \in workers : v.pc \in Copying => v \in workers'

\* A message is queued.
Queues == \E q \in QueueId \ queued : \E m : Fresh(m) /\ Queue(q, m)

Submits == Queues /\ UNCHANGED <<workers, delivered, bounced>>

\* A worker that puts its message back does so in time; one that removes it is done with it.
InTime(v) ==
    /\ v.pc = "remove" => Pending(v.msg) = {}
    /\ v.pc = "save" /\ SenderDelays = {} => \A d \in Pending(v.msg) : v.next <= v.msg.domains[d].retry

\* Notifications about version n make it m.
Tells(w, n, m) ==
    /\ Reported(n, m)
    /\ \/ bounced' = Bump(bounced, w.q, DsnFor(n, now).failure)
       \/ "write" \in Faults /\ UNCHANGED bounced

\* The version a worker starts from becomes n, with deliveries to `got'.
Advances(w, n, got) ==
    \/ w.pc = "read" /\ message[w.q] # NoMessage /\ Expired(message[w.q], n) /\ got = {}
    \/ w.pc = "attempt" /\ \E d : Attempted(w.msg, n, d, got)

\* Worker w reads its message or tries a domain, and becomes v.
Moves(w, v) ==
    /\ workers' = (workers \ {w}) \cup {v} /\ v.q = w.q /\ v.pc \in Copying /\ InTime(v)
    /\ Queues \/ UNCHANGED <<message, events, queued>>
    /\ \E n, got :
         /\ Advances(w, n, got) /\ delivered' = Bump(delivered, w.q, got)
         /\ Tells(w, n, v.msg) \/ (v.pc = "attempt" /\ v.msg = n /\ UNCHANGED bounced)

\* The last write of worker w.
Ends(w) ==
    /\ Saves(w) \/ Removes(w)
    /\ UNCHANGED <<delivered, bounced>>
    /\ \A v \in workers' : v.pc \in Copying => v \in workers /\ v # w
    /\ \A v \in workers : v.pc \in Copying /\ v # w => v \in workers'

\* Nobody more is delivered to.
LEMMA BumpNobody ==
  ASSUME NEW counts \in [QueueId -> Counts], NEW q \in QueueId
  PROVE  Bump(counts, q, {}) = counts
<1> DEFINE c == [r \in Rcpt |-> IF r \in {} /\ counts[q][r] < 2 THEN counts[q][r] + 1 ELSE counts[q][r]]
<1>1. c = counts[q]
  BY DEF Counts
<1>2. Bump(counts, q, {}) = [counts EXCEPT ![q] = c]
  BY DEF Bump
<1> HIDE DEF c
<1> QED
  BY <1>1, <1>2

\* send_dsn.
LEMMA SendDsnTells ==
  ASSUME Sound, SpoolInv, Typed, NEW w \in workers, NEW n, IsMessage(n), SendDsn(w, n)
  PROVE  /\ Queues \/ UNCHANGED <<message, events, queued>>
         /\ Tells(w, n, AfterDsn(n, now))
<1>1. now \in Nat /\ w.q \in QueueId
  BY SpoolAssumption DEF SpoolInv, SpoolTypes, KnownIds
<1>2. Reported(n, AfterDsn(n, now))
  BY <1>1, DsnEffect
<1>3. Fresh(DsnMessage(now))
  BY <1>1, DsnFresh
<1>4. CASE HasDsn(n, now)
  <2>1. \/ \E q \in QueueId \ queued : Queue(q, DsnMessage(now))
        \/ UNCHANGED <<message, events, queued>>
    BY <1>4 DEF SendDsn, store
  <2>2. \/ bounced' = Bump(bounced, w.q, DsnFor(n, now).failure)
        \/ "write" \in Faults /\ UNCHANGED bounced
    BY <1>4 DEF SendDsn, UseFault
  <2> QED
    BY <1>2, <1>3, <2>1, <2>2 DEF Queues, Tells
<1>5. CASE ~HasDsn(n, now)
  <2>1. UNCHANGED <<message, events, queued>> /\ UNCHANGED bounced
    BY <1>5 DEF SendDsn, store
  <2>2. DsnFor(n, now).failure = {}
    BY <1>5 DEF HasDsn
  <2>3. Bump(bounced, w.q, {}) = bounced
    BY <1>1, BumpNobody DEF Typed
  <2> QED
    BY <1>2, <2>1, <2>2, <2>3 DEF Tells
<1> QED
  BY <1>4, <1>5

\* The record of a worker after it has read its message, with the schedule.
StartedAt(w, v, m) ==
    \/ Pending(m) = {} /\ v = [w EXCEPT !.pc = "remove", !.msg = m, !.status = "Completed"]
    \/ v = [w EXCEPT !.pc = "save", !.msg = m, !.next = NextDeliveryEvent(m, now), !.status = "Deferred"]
    \/ SenderDelays # {} /\ \E t : v = [w EXCEPT !.pc = "save", !.msg = m, !.next = t, !.status = "Deferred"]
    \/ v = [w EXCEPT !.pc = "attempt", !.msg = m, !.todo = DOMAIN m.domains]

\* The parts of deliver_task before the delivery.
LEMMA StartTaskSchedule ==
  ASSUME NEW w, StartTask(w)
  PROVE  /\ w.pc = "read" /\ message[w.q] # NoMessage /\ UNCHANGED delivered
         /\ SendDsn(w, HasPendingDelivery(message[w.q], now))
         /\ \E v : Becomes(w, v) /\ StartedAt(w, v, AfterDsn(HasPendingDelivery(message[w.q], now), now))
<1> DEFINE p == HasPendingDelivery(message[w.q], now)
           m == AfterDsn(p, now)
<1>1. w.pc = "read" /\ message[w.q] # NoMessage /\ UNCHANGED delivered
  BY Zenon DEF StartTask
<1>2. SendDsn(w, p)
  BY Zenon DEF StartTask
<1>3. \/ Pending(m) = {} /\ Becomes(w, [w EXCEPT !.pc = "remove", !.msg = m, !.status = "Completed"])
      \/ Becomes(w, [w EXCEPT !.pc = "save", !.msg = m, !.next = NextDeliveryEvent(m, now), !.status = "Deferred"])
      \/ \E delay \in SenderDelays :
            Becomes(w, [w EXCEPT !.pc = "save", !.msg = m, !.next = ThrottledEvent(m, now, At(now + delay)),
                                 !.status = "Deferred"])
      \/ Becomes(w, [w EXCEPT !.pc = "attempt", !.msg = m, !.todo = DOMAIN m.domains])
  BY Zenon DEF StartTask
<1> HIDE DEF m
<1>4. \E v : Becomes(w, v) /\ StartedAt(w, v, m)
  <2>1. CASE Pending(m) = {} /\ Becomes(w, [w EXCEPT !.pc = "remove", !.msg = m, !.status = "Completed"])
    BY Zenon, <2>1 DEF StartedAt
  <2>2. CASE Becomes(w, [w EXCEPT !.pc = "save", !.msg = m, !.next = NextDeliveryEvent(m, now), !.status = "Deferred"])
    BY Zenon, <2>2 DEF StartedAt
  <2>3. ASSUME NEW delay \in SenderDelays,
               Becomes(w, [w EXCEPT !.pc = "save", !.msg = m, !.next = ThrottledEvent(m, now, At(now + delay)),
                                    !.status = "Deferred"])
        PROVE  \E v : Becomes(w, v) /\ StartedAt(w, v, m)
    <3>1. SenderDelays # {}
      OBVIOUS
    <3> QED
      BY Zenon, <2>3, <3>1 DEF StartedAt
  <2>4. CASE Becomes(w, [w EXCEPT !.pc = "attempt", !.msg = m, !.todo = DOMAIN m.domains])
    BY Zenon, <2>4 DEF StartedAt
  <2> QED
    BY <1>3, <2>1, <2>2, <2>3, <2>4
<1> QED
  BY <1>1, <1>2, <1>4 DEF m

\* Fields of the record.
LEMMA StartedFields ==
  ASSUME NEW w, HasWorkerFields(w), NEW m, IsMessage(m), NEW v, StartedAt(w, v, m)
  PROVE  v.q = w.q /\ v.msg = m /\ v.pc \in Copying /\ InTime(v)
<1>1. CASE Pending(m) = {} /\ v = [w EXCEPT !.pc = "remove", !.msg = m, !.status = "Completed"]
  <2>1. v.q = w.q /\ v.msg = m /\ v.pc = "remove"
    BY <1>1 DEF HasWorkerFields
  <2> QED
    BY <1>1, <2>1 DEF Copying, InTime
<1>2. CASE v = [w EXCEPT !.pc = "save", !.msg = m, !.next = NextDeliveryEvent(m, now), !.status = "Deferred"]
  <2>1. v.q = w.q /\ v.msg = m /\ v.pc = "save" /\ v.next = NextDeliveryEvent(m, now)
    BY <1>2 DEF HasWorkerFields
  <2> QED
    BY <2>1, EventsAreFirst DEF Copying, InTime
<1>3. ASSUME SenderDelays # {}, NEW t, v = [w EXCEPT !.pc = "save", !.msg = m, !.next = t, !.status = "Deferred"]
      PROVE  v.q = w.q /\ v.msg = m /\ v.pc \in Copying /\ InTime(v)
  <2>1. v.q = w.q /\ v.msg = m /\ v.pc = "save"
    BY <1>3 DEF HasWorkerFields
  <2> QED
    BY <1>3, <2>1 DEF Copying, InTime
<1>4. CASE v = [w EXCEPT !.pc = "attempt", !.msg = m, !.todo = DOMAIN m.domains]
  <2>1. v.q = w.q /\ v.msg = m /\ v.pc = "attempt"
    BY <1>4 DEF HasWorkerFields
  <2> QED
    BY <2>1 DEF Copying, InTime
<1> QED
  BY Zenon, <1>1, <1>2, <1>3, <1>4 DEF StartedAt

\* A worker reads its message.
LEMMA StartTaskMoves ==
  ASSUME Sound, SpoolInv, Typed, NEW w \in workers, StartTask(w)
  PROVE  \E v : Moves(w, v)
<1> DEFINE p == HasPendingDelivery(message[w.q], now)
           m == AfterDsn(p, now)
<1>1. /\ w.pc = "read" /\ message[w.q] # NoMessage /\ UNCHANGED delivered
      /\ SendDsn(w, p) /\ \E v : Becomes(w, v) /\ StartedAt(w, v, m)
  BY StartTaskSchedule
<1>2. w.q \in QueueId /\ HasWorkerFields(w)
  BY DEF SpoolInv, SpoolTypes, KnownIds
<1>3. Expired(message[w.q], p)
  BY <1>1, <1>2, ExpiryEffect DEF Typed
<1>4. IsMessage(p)
  BY <1>3 DEF Expired, Keeps
<1>5. (Queues \/ UNCHANGED <<message, events, queued>>) /\ Tells(w, p, m)
  BY <1>1, <1>4, SendDsnTells
<1>6. IsMessage(m)
  BY <1>5 DEF Tells, Reported, Keeps
<1>7. PICK v : Becomes(w, v) /\ StartedAt(w, v, m)
  BY <1>1
<1> HIDE DEF m, p
<1>8. v.q = w.q /\ v.msg = m /\ v.pc \in Copying /\ InTime(v)
  BY <1>2, <1>6, <1>7, StartedFields
<1>9. Advances(w, p, {}) /\ delivered' = Bump(delivered, w.q, {})
  BY <1>1, <1>2, <1>3, BumpNobody DEF Advances, Typed
<1> QED
  BY <1>5, <1>7, <1>8, <1>9 DEF Moves, Becomes

\* The parts of the delivery of one domain.
LEMMA AttemptSchedule ==
  ASSUME NEW w, Attempt(w)
  PROVE  \E d \in w.todo : \E res \in AttemptResults(w.msg, d, now, Replies, RateDelays) :
           /\ delivered' = Bump(delivered, w.q, res.got)
           /\ \/ /\ Becomes(w, [w EXCEPT !.msg = res.msg, !.todo = @ \ {d}])
                 /\ UNCHANGED <<store, queued, chan, bounced, budget>>
              \/ /\ SendDsn(w, res.msg)
                 /\ Becomes(w, [w EXCEPT !.pc = "save", !.msg = AfterDsn(res.msg, now), !.todo = {},
                                         !.next = NextEvent(AfterDsn(res.msg, now)), !.status = "Deferred"])
              \/ /\ SendDsn(w, res.msg) /\ ~HasNextEvent(AfterDsn(res.msg, now))
                 /\ Becomes(w, [w EXCEPT !.pc = "remove", !.msg = AfterDsn(res.msg, now), !.todo = {},
                                         !.status = "Completed"])
  BY Zenon DEF Attempt

\* A worker tries a domain.
LEMMA AttemptMoves ==
  ASSUME Sound, SpoolInv, Typed, NEW w \in workers, Attempt(w)
  PROVE  \E v : Moves(w, v)
<1>1. w.q \in QueueId /\ HasWorkerFields(w) /\ now \in Nat /\ w.pc = "attempt"
  BY SpoolAssumption DEF SpoolInv, SpoolTypes, KnownIds, Attempt
<1>2. IsMessage(w.msg)
  BY <1>1 DEF Typed, Keeps, Copying
<1>3. PICK d \in w.todo : \E res \in AttemptResults(w.msg, d, now, Replies, RateDelays) :
        /\ delivered' = Bump(delivered, w.q, res.got)
        /\ \/ /\ Becomes(w, [w EXCEPT !.msg = res.msg, !.todo = @ \ {d}])
              /\ UNCHANGED <<store, queued, chan, bounced, budget>>
           \/ /\ SendDsn(w, res.msg)
              /\ Becomes(w, [w EXCEPT !.pc = "save", !.msg = AfterDsn(res.msg, now), !.todo = {},
                                      !.next = NextEvent(AfterDsn(res.msg, now)), !.status = "Deferred"])
           \/ /\ SendDsn(w, res.msg) /\ ~HasNextEvent(AfterDsn(res.msg, now))
              /\ Becomes(w, [w EXCEPT !.pc = "remove", !.msg = AfterDsn(res.msg, now), !.todo = {},
                                      !.status = "Completed"])
  BY AttemptSchedule
<1>4. PICK res \in AttemptResults(w.msg, d, now, Replies, RateDelays) :
        /\ delivered' = Bump(delivered, w.q, res.got)
        /\ \/ /\ Becomes(w, [w EXCEPT !.msg = res.msg, !.todo = @ \ {d}])
              /\ UNCHANGED <<store, queued, chan, bounced, budget>>
           \/ /\ SendDsn(w, res.msg)
              /\ Becomes(w, [w EXCEPT !.pc = "save", !.msg = AfterDsn(res.msg, now), !.todo = {},
                                      !.next = NextEvent(AfterDsn(res.msg, now)), !.status = "Deferred"])
           \/ /\ SendDsn(w, res.msg) /\ ~HasNextEvent(AfterDsn(res.msg, now))
              /\ Becomes(w, [w EXCEPT !.pc = "remove", !.msg = AfterDsn(res.msg, now), !.todo = {},
                                      !.status = "Completed"])
  BY <1>3
<1> DEFINE n == res.msg
           m == AfterDsn(n, now)
<1>5. Attempted(w.msg, n, d, res.got)
  BY <1>1, <1>2, ResultEffect
<1>6. IsMessage(n)
  BY <1>5 DEF Attempted, Keeps
<1>7. Advances(w, n, res.got)
  BY <1>1, <1>5 DEF Advances
<1>8. SendDsn(w, n) => (Queues \/ UNCHANGED <<message, events, queued>>) /\ Tells(w, n, m)
  BY <1>6, SendDsnTells
<1>9. SendDsn(w, n) => IsMessage(m)
  BY <1>8 DEF Tells, Reported, Keeps
<1> HIDE DEF m, n
<1>10. CASE /\ Becomes(w, [w EXCEPT !.msg = n, !.todo = @ \ {d}])
            /\ UNCHANGED <<store, queued, chan, bounced, budget>>
  <2> DEFINE v == [w EXCEPT !.msg = n, !.todo = @ \ {d}]
  <2>1. v.q = w.q /\ v.msg = n /\ v.pc = "attempt"
    BY <1>1 DEF HasWorkerFields
  <2>2. Becomes(w, v) /\ UNCHANGED bounced /\ UNCHANGED <<message, events, queued>>
    BY <1>10 DEF store
  <2> HIDE DEF v
  <2> QED
    BY <1>4, <1>7, <2>1, <2>2 DEF Moves, Becomes, Copying, InTime
<1>11. CASE /\ SendDsn(w, n)
            /\ Becomes(w, [w EXCEPT !.pc = "save", !.msg = m, !.todo = {}, !.next = NextEvent(m), !.status = "Deferred"])
  <2> DEFINE v == [w EXCEPT !.pc = "save", !.msg = m, !.todo = {}, !.next = NextEvent(m), !.status = "Deferred"]
  <2>1. v.q = w.q /\ v.msg = m /\ v.pc = "save" /\ v.next = NextEvent(m)
    BY <1>1 DEF HasWorkerFields
  <2>2. Becomes(w, v)
    BY <1>11
  <2> HIDE DEF v
  <2>3. InTime(v)
    BY <1>9, <1>11, <2>1, EventsAreFirst DEF InTime
  <2> QED
    BY <1>4, <1>7, <1>8, <1>11, <2>1, <2>2, <2>3 DEF Moves, Becomes, Copying
<1>12. CASE /\ SendDsn(w, n) /\ ~HasNextEvent(m)
            /\ Becomes(w, [w EXCEPT !.pc = "remove", !.msg = m, !.todo = {}, !.status = "Completed"])
  <2> DEFINE v == [w EXCEPT !.pc = "remove", !.msg = m, !.todo = {}, !.status = "Completed"]
  <2>1. v.q = w.q /\ v.msg = m /\ v.pc = "remove"
    BY <1>1 DEF HasWorkerFields
  <2>2. Becomes(w, v)
    BY <1>12
  <2> HIDE DEF v
  <2>3. InTime(v)
    BY <1>12, <2>1 DEF InTime, HasNextEvent
  <2> QED
    BY <1>4, <1>7, <1>8, <1>12, <2>1, <2>2, <2>3 DEF Moves, Becomes, Copying
<1> QED
  BY <1>4, <1>10, <1>11, <1>12 DEF m, n

\* The last write of a worker.
LEMMA WriteEnds ==
  ASSUME SpoolInv, NEW w \in workers, Write(w)
  PROVE  Quiet \/ Ends(w)
<1> DEFINE u == [w EXCEPT !.pc = "unlock", !.msg = NoMessage, !.next = 0]
<1>1. HasWorkerFields(w) /\ workers' = (workers \ {w}) \cup {u} /\ UNCHANGED <<queued, delivered, bounced>>
  BY DEF Write, SpoolInv, SpoolTypes, history, Becomes
<1>2. u.pc = "unlock"
  <2>1. HasWorkerFields(w)
    BY <1>1
  <2> QED
    BY <2>1 DEF HasWorkerFields
<1> HIDE DEF u
<1>3. /\ \A v \in workers' : v.pc \in Copying => v \in workers /\ v # w
      /\ \A v \in workers : v.pc \in Copying /\ v # w => v \in workers'
  BY <1>1, <1>2 DEF Copying
<1>4. CASE Saves(w) \/ Removes(w)
  BY <1>1, <1>3, <1>4 DEF Ends
<1>5. CASE /\ w.pc = "orphan" /\ events' = events \ {[q |-> w.q, due |-> w.due]}
           /\ UNCHANGED <<message, quota, budget>>
  <2>1. message[w.q] = NoMessage
    BY <1>5 DEF SpoolInv, WorkersAgree
  <2>2. \A e \in events : message[e.q] # NoMessage => e \in events'
    BY <1>5, <2>1
  <2> QED
    BY <1>1, <1>3, <1>5, <2>2 DEF Quiet, Copying
<1>6. CASE UseFault("write") /\ UNCHANGED store
  BY <1>1, <1>3, <1>6 DEF Quiet, UseFault, store
<1> QED
  BY <1>1, <1>4, <1>5, <1>6 DEF Write, Saves, Removes

\* Workers that begin, are refused, find nothing or end.
LEMMA OtherWorkQuiet ==
  ASSUME SpoolInv, NEW w \in workers, TryLock(w) \/ ReadNothing(w) \/ Finish(w)
  PROVE  Quiet
<1>1. HasWorkerFields(w)
  BY DEF SpoolInv, SpoolTypes
<1> DEFINE a == [w EXCEPT !.pc = "read", !.until = At(now + LockExpiry)]
           b == [w EXCEPT !.pc = "done", !.status = "Locked", !.until = At(now + LockExpiry + LockBackoff)]
           c == [w EXCEPT !.pc = "orphan", !.status = "Completed"]
<1>2. a.pc = "read" /\ b.pc = "done" /\ c.pc = "orphan"
  BY <1>1 DEF HasWorkerFields
<1>3. workers' \subseteq workers \cup {a, b, c} /\ workers \ {w} \subseteq workers' /\ w.pc \notin Copying
  BY DEF TryLock, ReadNothing, Finish, Becomes, Copying
<1> HIDE DEF a, b, c
<1>4. /\ \A v \in workers' : v.pc \in Copying => v \in workers
      /\ \A v \in workers : v.pc \in Copying => v \in workers'
  BY <1>2, <1>3 DEF Copying
<1>5. UNCHANGED <<message, events, queued, delivered, bounced>>
  BY DEF TryLock, ReadNothing, Finish, store, history
<1> QED
  BY <1>4, <1>5 DEF Quiet

\* A manager's loop ends no worker.
LEMMA DeliverEndsNobody ==
  ASSUME NEW n \in Node, NEW g, NEW refresh, Deliver(n, g, refresh)
  PROVE  workers \subseteq workers'
<1>1. ASSUME NEW scan, ProcessQueue(n, g, scan) PROVE workers \subseteq workers'
  BY <1>1 DEF ProcessQueue
<1> QED
  BY <1>1 DEF Deliver, Sleep

\* The steps of managers and nodes.
LEMMA OtherStepsQuiet ==
  ASSUME NEW n \in Node, Receive(n) \/ WakeUp(n) \/ Shutdown(n) \/ Restart(n)
  PROVE  Quiet
<1>1. \A v \in workers' : v \in workers \/ \E e \in events : v = NewWorker(n, e)
  BY DeliverStarts DEF Receive, WakeUp, Shutdown, Restart
<1>2. \A e \in events : NewWorker(n, e).pc = "lock"
  BY DEF NewWorker
<1>3. \A v \in workers' : v.pc \in Copying => v \in workers
  BY <1>1, <1>2 DEF Copying
<1>4. "restart" \in Faults \/ workers \subseteq workers'
  BY DeliverEndsNobody DEF Receive, WakeUp, Shutdown, Restart, UseFault
<1>5. UNCHANGED <<message, events, queued, delivered, bounced>>
  BY DEF Receive, WakeUp, Shutdown, Restart, store, history
<1> QED
  BY <1>3, <1>4, <1>5 DEF Quiet

\* A session accepts a message.
LEMMA SubmitSubmits ==
  ASSUME SpoolInv, NEW n \in Node, Submit(n)
  PROVE  Submits
<1>1. now \in Nat
  BY SpoolAssumption DEF SpoolInv, SpoolTypes
<1>2. \A env \in Envelopes : Fresh(BuildMessage(env, now))
  BY <1>1, SubmittedFresh
<1>3. Queues
  BY <1>2 DEF Submit, Queues
<1> QED
  BY <1>3 DEF Submit, Submits

\* Every step is one of these.
LEMMA StepKinds ==
  ASSUME Sound, SpoolInv, Typed, [Next]_vars
  PROVE  Quiet \/ Submits \/ \E w \in workers : Ends(w) \/ \E v : Moves(w, v)
<1>1. CASE UNCHANGED vars
  BY <1>1 DEF vars, Quiet
<1>2. ASSUME NEW w \in workers, Work(w)
      PROVE  Quiet \/ Ends(w) \/ \E v : Moves(w, v)
  BY <1>2, StartTaskMoves, AttemptMoves, WriteEnds, OtherWorkQuiet DEF Work
<1>3. ASSUME NEW n \in Node, Submit(n) \/ Receive(n) \/ WakeUp(n) \/ Shutdown(n) \/ Restart(n)
      PROVE  Quiet \/ Submits
  BY <1>3, SubmitSubmits, OtherStepsQuiet
<1>4. CASE Tick
  BY <1>4 DEF Quiet, Tick, store, history
<1>5. ~Api /\ \A n \in Node : ~HandleManageQueue(n)
  BY NoApiStep DEF Sound, SpoolInv, SpoolTypes, IdleApi, Api, ReadRequest, WriteRequest, EndRequest
<1> QED
  BY <1>1, <1>2, <1>3, <1>4, <1>5 DEF Next

\* What a message that is queued changes in the spool.
LEMMA QueuesKeep ==
  ASSUME SpoolInv, Queues \/ UNCHANGED <<message, events, queued>>
  PROVE  /\ \A p \in queued : message'[p] = message[p]
         /\ \A p \in QueueId \ queued :
              message'[p] # NoMessage =>
                Fresh(message'[p]) /\ [q |-> p, due |-> NextEvent(message'[p])] \in events'
         /\ queued \subseteq queued' /\ events \subseteq events'
<1>1. DOMAIN message = QueueId /\ queued \subseteq QueueId /\ \A p \in QueueId \ queued : message[p] = NoMessage
  BY DEF SpoolInv, SpoolTypes, KnownIds
<1>2. CASE UNCHANGED <<message, events, queued>>
  BY <1>1, <1>2
<1>3. CASE Queues
  <2>1. PICK p \in QueueId \ queued : \E m : Fresh(m) /\ Queue(p, m)
    BY <1>3 DEF Queues
  <2>2. PICK m : Fresh(m) /\ Queue(p, m)
    BY <2>1
  <2>3. /\ message' = [message EXCEPT ![p] = m] /\ queued' = queued \cup {p}
        /\ events' = events \cup {[q |-> p, due |-> NextEvent(m)]}
    BY <2>2 DEF Queue
  <2>4. message'[p] = m /\ \A k \in QueueId : k # p => message'[k] = message[k]
    BY <1>1, <2>3
  <2> QED
    BY <1>1, <2>2, <2>3, <2>4
<1> QED
  BY <1>2, <1>3

\* Where workers with copies are.
LEMMA CopyIds ==
  ASSUME SpoolInv, NEW w \in workers
  PROVE  /\ w.q \in QueueId /\ w.q \in queued
         /\ w.pc \in Copying => message[w.q] # NoMessage
         /\ w.pc \in {"read", "attempt", "save", "remove"} =>
              \A v \in workers : v.pc \in Copying /\ v # w => v.q # w.q
  BY DEF SpoolInv, KnownIds, WorkersAgree, OneWorkerPerMessage, Copying, Working

\* The write of a worker.
LEMMA EndsParts ==
  ASSUME SpoolInv, Typed, NEW w \in workers, Ends(w)
  PROVE  /\ w.pc \in {"save", "remove"} /\ Keeps(message[w.q], w.msg) /\ UNCHANGED queued
         /\ \A p \in QueueId : p # w.q => message'[p] = message[p]
         /\ \A e \in events : e.q # w.q => e \in events'
         /\ \A v \in workers' : v.pc \in Copying => v \in workers /\ v.q # w.q
         /\ \/ /\ w.pc = "remove" /\ message'[w.q] = NoMessage
            \/ /\ w.pc = "save" /\ [q |-> w.q, due |-> w.next] \in events'
               /\ message'[w.q] = ReleaseQuota(w.msg)
<1>1. w.pc \in {"save", "remove"} /\ UNCHANGED queued
  BY DEF Ends, Saves, Removes
<1>2. Keeps(message[w.q], w.msg) /\ w.q \in QueueId /\ DOMAIN message = QueueId
  BY <1>1 DEF Typed, Copying, SpoolInv, SpoolTypes, KnownIds
<1>3. \A v \in workers' : v.pc \in Copying => v \in workers /\ v.q # w.q
  BY <1>1, CopyIds DEF Ends
<1>4. CASE Saves(w)
  <2>1. /\ message' = [message EXCEPT ![w.q] = ReleaseQuota(w.msg)] /\ w.pc = "save"
        /\ events' = (events \ {[q |-> w.q, due |-> w.due]}) \cup {[q |-> w.q, due |-> w.next]}
    BY <1>4 DEF Saves, SaveChanges
  <2>2. \A e \in events : e.q # w.q => e \in events'
    BY <2>1
  <2>3. [q |-> w.q, due |-> w.next] \in events'
    BY <2>1
  <2> QED
    BY <1>1, <1>2, <1>3, <2>1, <2>2, <2>3
<1>5. CASE Removes(w)
  <2>1. /\ message' = [message EXCEPT ![w.q] = NoMessage] /\ w.pc = "remove"
        /\ events' = events \ {[q |-> w.q, due |-> w.due]}
    BY <1>5 DEF Removes, RemoveMessage
  <2>2. \A e \in events : e.q # w.q => e \in events'
    BY <2>1
  <2> QED
    BY <1>1, <1>2, <1>3, <2>1, <2>2
<1> QED
  BY <1>4, <1>5 DEF Ends

\* The version a worker starts from, and where it gets to.
LEMMA MovesParts ==
  ASSUME SpoolInv, Typed, NEW w \in workers, NEW v, Moves(w, v)
  PROVE  /\ w.pc \in {"read", "attempt"} /\ Keeps(message[w.q], v.msg)
         /\ \A u \in workers' : u.pc \in Copying => u = v \/ (u \in workers /\ u.q # w.q)
         /\ delivered' \in [QueueId -> Counts] /\ bounced' \in [QueueId -> Counts]
         /\ \A p \in QueueId : p # w.q => delivered'[p] = delivered[p] /\ bounced'[p] = bounced[p]
<1>1. PICK n, got :
        /\ Advances(w, n, got) /\ delivered' = Bump(delivered, w.q, got)
        /\ Tells(w, n, v.msg) \/ (v.pc = "attempt" /\ v.msg = n /\ UNCHANGED bounced)
  BY DEF Moves
<1>2. w.pc \in {"read", "attempt"} /\ w.q \in QueueId
  BY <1>1, CopyIds DEF Advances
<1>3. Keeps(message[w.q], n)
  <2>1. CASE w.pc = "read" /\ Expired(message[w.q], n)
    BY <2>1 DEF Expired
  <2>2. ASSUME w.pc = "attempt", NEW d, Attempted(w.msg, n, d, got) PROVE Keeps(message[w.q], n)
    <3>1. Keeps(message[w.q], w.msg) /\ Keeps(w.msg, n)
      BY <2>2 DEF Typed, Copying, Attempted
    <3> QED
      BY <3>1, KeepsTwice
  <2> QED
    BY <1>1, <2>1, <2>2 DEF Advances
<1>4. Keeps(message[w.q], v.msg)
  BY <1>1, <1>3, KeepsTwice DEF Tells, Reported
<1>5. \A u \in workers' : u.pc \in Copying => u = v \/ (u \in workers /\ u.q # w.q)
  BY <1>2, CopyIds DEF Moves
<1>6. delivered' \in [QueueId -> Counts] /\ \A p \in QueueId : p # w.q => delivered'[p] = delivered[p]
  BY <1>1, <1>2, BumpOne DEF Typed
<1>7. bounced' \in [QueueId -> Counts] /\ \A p \in QueueId : p # w.q => bounced'[p] = bounced[p]
  BY <1>1, <1>2, BumpOne DEF Typed, Tells
<1> QED
  BY <1>2, <1>4, <1>5, <1>6, <1>7

\* Messages stay messages.
LEMMA TypedStep ==
  ASSUME SpoolInv, Typed, Quiet \/ Submits \/ \E w \in workers : Ends(w) \/ \E v : Moves(w, v)
  PROVE  Typed'
<1>1. CASE Quiet
  BY <1>1 DEF Quiet, Typed
<1>2. ASSUME Queues \/ UNCHANGED <<message, events, queued>>
      PROVE  /\ \A q \in QueueId : message'[q] # NoMessage => IsMessage(message'[q])
             /\ \A w \in workers : message'[w.q] = message[w.q]
  BY <1>2, QueuesKeep, CopyIds DEF Typed, Fresh
<1>3. CASE Submits
  BY <1>2, <1>3 DEF Submits, Typed
<1>4. ASSUME NEW w \in workers, NEW v, Moves(w, v) PROVE Typed'
  <2>1. /\ \A q \in QueueId : message'[q] # NoMessage => IsMessage(message'[q])
        /\ \A u \in workers : message'[u.q] = message[u.q]
    BY <1>2, <1>4 DEF Moves
  <2>2. /\ Keeps(message[w.q], v.msg) /\ v.q = w.q
        /\ \A u \in workers' : u.pc \in Copying => u = v \/ (u \in workers /\ u.q # w.q)
        /\ delivered' \in [QueueId -> Counts] /\ bounced' \in [QueueId -> Counts]
    BY <1>4, MovesParts DEF Moves
  <2>3. \A u \in workers' : u.pc \in Copying => Keeps(message'[u.q], u.msg)
    BY <2>1, <2>2 DEF Typed
  <2> QED
    BY <2>1, <2>2, <2>3 DEF Typed
<1>5. ASSUME NEW w \in workers, Ends(w) PROVE Typed'
  <2>1. /\ Keeps(message[w.q], w.msg)
        /\ \A p \in QueueId : p # w.q => message'[p] = message[p]
        /\ \A v \in workers' : v.pc \in Copying => v \in workers /\ v.q # w.q
        /\ message'[w.q] \in {NoMessage, ReleaseQuota(w.msg)}
    BY <1>5, EndsParts
  <2>2. IsMessage(ReleaseQuota(w.msg))
    BY <2>1, SavedMessage DEF Keeps
  <2>3. \A q \in QueueId : message'[q] # NoMessage => IsMessage(message'[q])
    BY <2>1, <2>2 DEF Typed
  <2>4. \A v \in workers' : v.pc \in Copying => Keeps(message'[v.q], v.msg)
    BY <2>1, CopyIds DEF Typed
  <2>5. delivered' \in [QueueId -> Counts] /\ bounced' \in [QueueId -> Counts]
    BY <1>5 DEF Ends, Typed
  <2> QED
    BY <2>3, <2>4, <2>5 DEF Typed
<1> QED
  BY <1>1, <1>3, <1>4, <1>5

-------------------------------------------------------------------------------
(* Retries. *)

\* A worker that puts its message back has the time of its next event.
OnTime == RetriedOnTime /\ \A w \in workers : w.pc = "save" =>
              \A d \in Pending(w.msg) : w.next <= w.msg.domains[d].retry

\* Messages keep their events.
LEMMA OnTimeStep ==
  ASSUME SenderDelays = {}, SpoolInv, Typed, OnTime,
         Quiet \/ Submits \/ \E w \in workers : Ends(w) \/ \E v : Moves(w, v)
  PROVE  OnTime'
<1> DEFINE Retried(q) ==
             \E e \in events' : e.q = q /\ \A d \in Pending(message'[q]) : e.due <= message'[q].domains[d].retry
<1>1. ASSUME NEW q \in QueueId, message[q] # NoMessage, message'[q] = message[q], Pending(message[q]) # {},
             \A e \in events : e.q = q => e \in events'
      PROVE  Retried(q)
  BY <1>1 DEF OnTime, RetriedOnTime
<1>2. CASE Quiet
  <2>1. \A q \in QueueId : message'[q] # NoMessage /\ Pending(message'[q]) # {} => Retried(q)
    BY <1>1, <1>2 DEF Quiet
  <2> QED
    BY <1>2, <2>1 DEF Quiet, OnTime, RetriedOnTime, Copying
<1>3. ASSUME Queues \/ UNCHANGED <<message, events, queued>>,
             NEW q \in QueueId, message'[q] # NoMessage, Pending(message'[q]) # {}
      PROVE  Retried(q)
  <2>1. CASE q \in queued
    BY <1>1, <1>3, <2>1, QueuesKeep
  <2>2. CASE q \notin queued
    <3> DEFINE e == [q |-> q, due |-> NextEvent(message'[q])]
    <3>1. Fresh(message'[q]) /\ e \in events'
      BY <1>3, <2>2, QueuesKeep
    <3>2. e.q = q /\ e.due = NextEvent(message'[q])
      OBVIOUS
    <3> HIDE DEF e
    <3>3. \A d \in Pending(message'[q]) : e.due <= message'[q].domains[d].retry
      BY <3>1, <3>2, EventsAreFirst DEF Fresh
    <3> QED
      BY <3>1, <3>2, <3>3
  <2> QED
    BY <2>1, <2>2
<1>4. CASE Submits
  BY <1>3, <1>4 DEF Submits, OnTime, RetriedOnTime
<1>5. ASSUME NEW w \in workers, NEW v, Moves(w, v) PROVE OnTime'
  <2>1. RetriedOnTime'
    BY <1>3, <1>5 DEF Moves, RetriedOnTime
  <2>2. \A u \in workers' : u.pc = "save" => \A d \in Pending(u.msg) : u.next <= u.msg.domains[d].retry
    BY <1>5 DEF Moves, InTime, OnTime
  <2> QED
    BY <2>1, <2>2 DEF OnTime
<1>6. ASSUME NEW w \in workers, Ends(w) PROVE OnTime'
  <2>1. /\ w.pc \in {"save", "remove"} /\ Keeps(message[w.q], w.msg)
        /\ \A p \in QueueId : p # w.q => message'[p] = message[p]
        /\ \A e \in events : e.q # w.q => e \in events'
        /\ \A v \in workers' : v.pc \in Copying => v \in workers /\ v.q # w.q
        /\ \/ /\ w.pc = "remove" /\ message'[w.q] = NoMessage
           \/ /\ w.pc = "save" /\ [q |-> w.q, due |-> w.next] \in events'
              /\ message'[w.q] = ReleaseQuota(w.msg)
    BY <1>6, EndsParts
  <2>2. ASSUME NEW q \in QueueId, message'[q] # NoMessage, Pending(message'[q]) # {} PROVE Retried(q)
    <3>1. CASE q # w.q
      BY <1>1, <2>1, <2>2, <3>1
    <3>2. CASE q = w.q
      <4> DEFINE e == [q |-> w.q, due |-> w.next]
      <4>1. w.pc = "save" /\ e \in events' /\ message'[q] = ReleaseQuota(w.msg)
        BY <2>1, <2>2, <3>2
      <4>2. message'[q].domains = w.msg.domains
        BY <2>1, <4>1, SavedMessage DEF Keeps
      <4>3. Pending(message'[q]) = Pending(w.msg)
        BY <4>2 DEF Pending
      <4>4. e.q = q /\ e.due = w.next
        BY <3>2
      <4> HIDE DEF e
      <4>5. \A d \in Pending(message'[q]) : e.due <= message'[q].domains[d].retry
        BY <4>1, <4>2, <4>3, <4>4 DEF OnTime
      <4> QED
        BY <4>1, <4>4, <4>5
    <3> QED
      BY <3>1, <3>2
  <2>3. \A u \in workers' : u.pc = "save" => u \in workers
    BY <2>1 DEF Copying
  <2> QED
    BY <2>2, <2>3 DEF OnTime, RetriedOnTime
<1> QED
  BY <1>2, <1>4, <1>5, <1>6

\* The empty spool.
LEMMA InitTyped == ASSUME Sound PROVE Init => SpoolInv /\ Typed
<1> SUFFICES ASSUME Init PROVE SpoolInv /\ Typed
  OBVIOUS
<1>1. [q \in QueueId |-> [r \in Rcpt |-> 0]] \in [QueueId -> Counts]
  BY DEF Counts
<1>2. Typed
  BY <1>1 DEF Init, Typed
<1> QED
  BY <1>2, InitInv

\* Messages and copies are always well formed: every domain a recipient belongs to
\* is there, and every schedule is a time, whatever the workers and the faults do.
THEOREM MessagesWellFormed == ASSUME Sound PROVE Spec => [](SpoolInv /\ Typed)
<1>1. Init => SpoolInv /\ Typed
  BY InitTyped
<1>2. SpoolInv /\ Typed /\ [Next]_vars => (SpoolInv /\ Typed)'
  BY NextInv, StepKinds, TypedStep
<1> QED
  BY <1>1, <1>2, PTL DEF Spec

\* A stored message always has a queue event no later than its next retry: what
\* save_changes and queue write as the time of the event is never after the times
\* of the schedule, provided no sender is rate limited (next_event_after skips a
\* retry that is due).
THEOREM RetriesAreOnTime == ASSUME Sound, SenderDelays = {} PROVE Spec => []RetriedOnTime
<1> DEFINE Inv == SpoolInv /\ Typed /\ OnTime
<1>1. Init => Inv
  BY InitTyped DEF Init, OnTime, RetriedOnTime
<1>2. Inv /\ [Next]_vars => Inv'
  BY NextInv, StepKinds, TypedStep, OnTimeStep
<1>3. Inv => RetriedOnTime
  BY DEF OnTime
<1> QED
  BY <1>1, <1>2, <1>3, PTL DEF Spec

-------------------------------------------------------------------------------
(* No silent loss. *)

\* Messages and copies are accounted for; a worker that removes its message has
\* told the sender.
LossInv ==
    /\ \A q \in QueueId : message[q] # NoMessage => Accounted(message[q], delivered[q], bounced[q])
    /\ \A w \in workers :
         /\ w.pc \in Copying => Accounted(w.msg, delivered[w.q], bounced[w.q])
         /\ w.pc = "remove" => Told(w.msg, delivered[w.q], bounced[w.q])

\* The version a worker gets to.
LEMMA MovesAccounted ==
  ASSUME "TemporaryFailure" \notin Replies, "write" \notin Faults,
         SpoolInv, Typed, LossInv, NEW w \in workers, NEW v, Moves(w, v)
  PROVE  /\ \A r \in Rcpt : /\ delivered[w.q][r] > 0 => delivered'[w.q][r] > 0
                            /\ bounced[w.q][r] > 0 => bounced'[w.q][r] > 0
         /\ Accounted(v.msg, delivered'[w.q], bounced'[w.q])
         /\ v.pc = "remove" => Told(v.msg, delivered'[w.q], bounced'[w.q])
<1>1. PICK n, got :
        /\ Advances(w, n, got) /\ delivered' = Bump(delivered, w.q, got)
        /\ Tells(w, n, v.msg) \/ (v.pc = "attempt" /\ v.msg = n /\ UNCHANGED bounced)
  BY DEF Moves
<1> DEFINE D == delivered[w.q]
           B == bounced[w.q]
           E == delivered'[w.q]
           C == bounced'[w.q]
<1>2. w.q \in QueueId /\ D \in Counts /\ B \in Counts
  BY CopyIds DEF Typed
<1>3. E = Bumped(D, got)
  BY <1>1, <1>2, BumpOne DEF Typed
<1>4. \A r \in Rcpt : (D[r] > 0 => E[r] > 0) /\ (r \in got => E[r] > 0)
  BY <1>2, <1>3, BumpedGrows
<1>5. C = B \/ C = Bumped(B, DsnFor(n, now).failure)
  BY <1>1, <1>2, BumpOne DEF Typed, Tells
<1>6. \A r \in Rcpt : B[r] > 0 => C[r] > 0
  BY <1>2, <1>5, BumpedGrows
<1> HIDE DEF D, B, E, C
<1>7. Accounted(n, E, B) /\ IsMessage(n)
  <2>1. CASE w.pc = "read" /\ message[w.q] # NoMessage /\ Expired(message[w.q], n)
    <3>1. IsMessage(message[w.q]) /\ Accounted(message[w.q], D, B)
      BY <1>2, <2>1 DEF Typed, LossInv, D, B
    <3>2. Accounted(n, D, B) /\ IsMessage(n)
      BY <2>1, <3>1, AccountedExpired DEF Expired, Keeps
    <3> QED
      BY <1>4, <3>2, AccountedMore
  <2>2. ASSUME w.pc = "attempt", NEW d, Attempted(w.msg, n, d, got) PROVE Accounted(n, E, B) /\ IsMessage(n)
    <3>1. IsMessage(w.msg) /\ Accounted(w.msg, D, B)
      BY <2>2 DEF Typed, LossInv, Copying, Keeps, D, B
    <3>2. IsMessage(n)
      BY <2>2 DEF Attempted, Keeps
    <3>3. Attempted(w.msg, n, d, got)
      BY <2>2
    <3>4. Accounted(n, E, B)
      BY <1>4, <3>1, <3>3, AccountedAttempted
    <3> QED
      BY <3>2, <3>4
  <2> QED
    BY <1>1, <2>1, <2>2 DEF Advances
<1>8. CASE Tells(w, n, v.msg)
  <2>1. Reported(n, v.msg) /\ C = Bumped(B, DsnFor(n, now).failure)
    BY <1>2, <1>8, BumpOne DEF Tells, Typed, B, C
  <2>2. \A r \in Rcpt : (B[r] > 0 => C[r] > 0) /\ (r \in DsnFor(n, now).failure => C[r] > 0)
    BY <1>2, <2>1, BumpedGrows
  <2>3. Accounted(v.msg, E, C) /\ (Pending(v.msg) = {} => Told(v.msg, E, C))
    BY <1>7, <2>1, <2>2, AccountedReported
  <2>4. v.pc = "remove" => Pending(v.msg) = {}
    BY DEF Moves, InTime
  <2> QED
    BY <1>4, <1>6, <2>3, <2>4 DEF D, B, E, C
<1>9. CASE v.pc = "attempt" /\ v.msg = n /\ UNCHANGED bounced
  <2>1. C = B
    BY <1>9 DEF B, C
  <2> QED
    BY <1>4, <1>6, <1>7, <1>9, <2>1 DEF D, B, E, C
<1> QED
  BY <1>1, <1>8, <1>9

\* Recipients stay accounted for.
LEMMA LossStep ==
  ASSUME "TemporaryFailure" \notin Replies, "write" \notin Faults, SpoolInv, Typed, LossInv,
         Quiet \/ Submits \/ \E w \in workers : Ends(w) \/ \E v : Moves(w, v)
  PROVE  LossInv'
<1>1. CASE Quiet
  BY <1>1 DEF Quiet, LossInv, Copying
<1>2. CASE Submits
  <2>1. \A q \in QueueId : message'[q] # NoMessage => Accounted(message'[q], delivered[q], bounced[q])
    BY <1>2, QueuesKeep, AccountedFresh DEF Submits, LossInv
  <2> QED
    BY <1>2, <2>1 DEF Submits, LossInv
<1>3. ASSUME NEW w \in workers, NEW v, Moves(w, v) PROVE LossInv'
  <2>1. /\ \A r \in Rcpt : /\ delivered[w.q][r] > 0 => delivered'[w.q][r] > 0
                           /\ bounced[w.q][r] > 0 => bounced'[w.q][r] > 0
        /\ Accounted(v.msg, delivered'[w.q], bounced'[w.q])
        /\ v.pc = "remove" => Told(v.msg, delivered'[w.q], bounced'[w.q])
    BY <1>3, MovesAccounted
  <2>2. /\ \A u \in workers' : u.pc \in Copying => u = v \/ (u \in workers /\ u.q # w.q)
        /\ \A p \in QueueId : p # w.q => delivered'[p] = delivered[p] /\ bounced'[p] = bounced[p]
        /\ v.q = w.q /\ w.q \in QueueId /\ w.q \in queued
    BY <1>3, MovesParts, CopyIds DEF Moves
  <2>3. ASSUME NEW q \in QueueId, message'[q] # NoMessage
        PROVE  Accounted(message'[q], delivered'[q], bounced'[q])
    <3>1. CASE q \notin queued
      BY <1>3, <2>3, <3>1, QueuesKeep, AccountedFresh DEF Moves
    <3>2. CASE q \in queued
      <4>1. message'[q] = message[q]
        BY <1>3, <3>2, QueuesKeep DEF Moves
      <4>2. IsMessage(message[q]) /\ Accounted(message[q], delivered[q], bounced[q])
        BY <2>3, <4>1 DEF Typed, LossInv
      <4>3. CASE q = w.q
        BY <2>1, <4>1, <4>2, <4>3, AccountedMore
      <4>4. CASE q # w.q
        BY <2>2, <4>1, <4>2, <4>4
      <4> QED
        BY <4>3, <4>4
    <3> QED
      BY <3>1, <3>2
  <2>4. ASSUME NEW u \in workers', u.pc \in Copying
        PROVE  /\ Accounted(u.msg, delivered'[u.q], bounced'[u.q])
               /\ u.pc = "remove" => Told(u.msg, delivered'[u.q], bounced'[u.q])
    <3>1. CASE u = v
      BY <2>1, <2>2, <3>1
    <3>2. CASE u \in workers /\ u.q # w.q
      <4>1. delivered'[u.q] = delivered[u.q] /\ bounced'[u.q] = bounced[u.q]
        BY <2>2, <3>2, CopyIds
      <4> QED
        BY <2>4, <3>2, <4>1 DEF LossInv
    <3> QED
      BY <2>2, <2>4, <3>1, <3>2
  <2> QED
    BY <2>3, <2>4 DEF LossInv, Copying
<1>4. ASSUME NEW w \in workers, Ends(w) PROVE LossInv'
  <2>1. /\ w.pc \in Copying /\ Keeps(message[w.q], w.msg)
        /\ \A p \in QueueId : p # w.q => message'[p] = message[p]
        /\ \A v \in workers' : v.pc \in Copying => v \in workers /\ v.q # w.q
        /\ message'[w.q] \in {NoMessage, ReleaseQuota(w.msg)}
    BY <1>4, EndsParts DEF Copying
  <2>2. UNCHANGED <<delivered, bounced>>
    BY <1>4 DEF Ends
  <2>3. Accounted(ReleaseQuota(w.msg), delivered[w.q], bounced[w.q])
    <3> DEFINE n == ReleaseQuota(w.msg)
    <3>1. n.returnPath = w.msg.returnPath /\ n.domains = w.msg.domains /\ n.rcpts = w.msg.rcpts
      BY <2>1, SavedMessage DEF Keeps
    <3>2. Accounted(w.msg, delivered[w.q], bounced[w.q])
      BY <2>1 DEF LossInv
    <3> HIDE DEF n
    <3>3. Accounted(n, delivered[w.q], bounced[w.q])
      BY <3>1, <3>2 DEF Accounted
    <3> QED
      BY <3>3 DEF n
  <2>4. \A q \in QueueId : message'[q] # NoMessage => Accounted(message'[q], delivered[q], bounced[q])
    BY <2>1, <2>3 DEF LossInv
  <2> QED
    BY <2>1, <2>2, <2>4 DEF LossInv, Copying
<1> QED
  BY <1>1, <1>2, <1>3, <1>4

\* Only a worker that has told the sender takes a message out of the spool.
LEMMA OnlyToldLeave ==
  ASSUME Absent, SpoolInv, Typed, LossInv,
         Quiet \/ Submits \/ \E w \in workers : Ends(w) \/ \E v : Moves(w, v),
         NEW q \in QueueId, message[q] # NoMessage, message'[q] = NoMessage
  PROVE  Told(message[q], delivered[q], bounced[q])
<1>1. ~Quiet
  BY DEF Quiet
<1>2. q \in queued
  BY DEF SpoolInv, KnownIds
<1>3. ~(Queues \/ UNCHANGED <<message, events, queued>>)
  BY <1>2, QueuesKeep
<1>4. PICK w \in workers : Ends(w)
  BY <1>1, <1>3 DEF Submits, Moves
<1>5. /\ Keeps(message[w.q], w.msg)
      /\ \A p \in QueueId : p # w.q => message'[p] = message[p]
      /\ \/ w.pc = "remove" /\ message'[w.q] = NoMessage
         \/ w.pc = "save" /\ message'[w.q] = ReleaseQuota(w.msg)
  BY <1>4, EndsParts
<1>6. ReleaseQuota(w.msg) # NoMessage
  <2>1. IsMessage(ReleaseQuota(w.msg))
    BY <1>5, SavedMessage DEF Keeps
  <2> QED
    BY <2>1 DEF IsMessage, Absent
<1>7. q = w.q /\ w.pc = "remove"
  BY <1>5, <1>6
<1>8. Told(w.msg, delivered[q], bounced[q])
  BY <1>7 DEF LossInv
<1> QED
  BY <1>5, <1>7, <1>8 DEF Told, Keeps

\* No recipient is lost silently: a worker removes a message with a return path
\* when each recipient was delivered to or its failure was reported, unless the
\* sender asked not to hear of it.  That needs replies that are final (a recipient
\* left with a temporary failure is not reported when its domain fails or
\* completes) and notifications that can be queued (send_dsn ignores failures).
THEOREM NothingLostSilently ==
  ASSUME Sound, Absent, "TemporaryFailure" \notin Replies, "write" \notin Faults
  PROVE  Spec => NoSilentLoss
<1> DEFINE Inv == SpoolInv /\ Typed /\ LossInv
<1>1. Init => Inv
  BY InitTyped DEF Init, LossInv
<1>2. Inv /\ [Next]_vars => Inv'
  BY NextInv, StepKinds, TypedStep, LossStep
<1>3. Inv /\ [Next]_vars =>
        [\A q \in QueueId :
           message[q] # NoMessage /\ message'[q] = NoMessage /\ message[q].returnPath =>
             \A r \in DOMAIN message[q].rcpts :
               \/ delivered[q][r] > 0
               \/ bounced[q][r] > 0
               \/ "failure" \notin message[q].rcpts[r].notify
               \/ "never" \in message[q].rcpts[r].notify]_vars
  BY StepKinds, OnlyToldLeave DEF Told
<1> QED
  BY <1>1, <1>2, <1>3, PTL DEF Spec, NoSilentLoss

-------------------------------------------------------------------------------
(* Reports. *)

\* Nobody has a copy of message q.
Idle(q) == \A w \in workers : w.q = q => w.pc \notin Copying

\* The latest version of each message is exact; what is not queued has no counts.
OnceInv ==
    /\ \A q \in QueueId : q \notin queued => \A r \in Rcpt : delivered[q][r] = 0 /\ bounced[q][r] = 0
    /\ \A w \in workers : w.pc \in Copying => Once(w.msg, delivered[w.q], bounced[w.q])
    /\ \A q \in QueueId : message[q] # NoMessage /\ Idle(q) => Once(message[q], delivered[q], bounced[q])
    /\ ReportedOnce

\* The version a worker gets to.
LEMMA MovesOnce ==
  ASSUME SpoolInv, Typed, OnceInv, NEW w \in workers, NEW v, Moves(w, v)
  PROVE  Once(v.msg, delivered'[w.q], bounced'[w.q])
<1>1. PICK n, got :
        /\ Advances(w, n, got) /\ delivered' = Bump(delivered, w.q, got)
        /\ Tells(w, n, v.msg) \/ (v.pc = "attempt" /\ v.msg = n /\ UNCHANGED bounced)
  BY DEF Moves
<1> DEFINE D == delivered[w.q]
           B == bounced[w.q]
           E == delivered'[w.q]
           C == bounced'[w.q]
<1>2. w.q \in QueueId /\ D \in Counts /\ B \in Counts
  BY CopyIds DEF Typed
<1>3. E = Bumped(D, got)
  BY <1>1, <1>2, BumpOne DEF Typed
<1>4. C = B \/ C = Bumped(B, DsnFor(n, now).failure)
  BY <1>1, <1>2, BumpOne DEF Typed, Tells
<1>5. w.pc = "read" => Idle(w.q)
  BY CopyIds DEF Idle, Copying
<1>6. got = {} => E = D
  BY <1>1, <1>2, BumpNobody DEF Typed
<1>7. /\ w.pc = "read" /\ message[w.q] # NoMessage => IsMessage(message[w.q]) /\ Once(message[w.q], D, B)
      /\ w.pc = "attempt" => IsMessage(w.msg) /\ Once(w.msg, D, B)
  BY <1>2, <1>5 DEF OnceInv, Typed, Copying, Keeps
<1>8. UNCHANGED bounced => C = B
  OBVIOUS
<1> HIDE DEF D, B, E, C
<1>9. Once(n, E, B) /\ IsMessage(n)
  <2>1. CASE w.pc = "read" /\ message[w.q] # NoMessage /\ Expired(message[w.q], n) /\ got = {}
    <3>1. Once(n, D, B)
      BY <1>7, <2>1, OnceExpired
    <3> QED
      BY <1>6, <2>1, <3>1 DEF Expired, Keeps
  <2>2. ASSUME w.pc = "attempt", NEW d, Attempted(w.msg, n, d, got) PROVE Once(n, E, B) /\ IsMessage(n)
    <3>1. Attempted(w.msg, n, d, got)
      BY <2>2
    <3>2. Once(n, Bumped(D, got), B)
      BY <1>2, <1>7, <2>2, <3>1, OnceAttempted
    <3>3. IsMessage(n)
      BY <3>1 DEF Attempted, Keeps
    <3> QED
      BY <1>3, <3>2, <3>3
  <2> QED
    BY <1>1, <2>1, <2>2 DEF Advances
<1>10. CASE Tells(w, n, v.msg)
  <2>1. Reported(n, v.msg)
    BY <1>10 DEF Tells
  <2>2. Once(v.msg, E, C)
    BY <1>2, <1>4, <1>9, <2>1, OnceReported
  <2> QED
    BY <2>2 DEF E, C
<1>11. CASE v.pc = "attempt" /\ v.msg = n /\ UNCHANGED bounced
  BY <1>8, <1>9, <1>11 DEF E, C
<1> QED
  BY <1>1, <1>10, <1>11

\* The latest versions stay exact.
LEMMA OnceStep ==
  ASSUME "write" \notin Faults, "restart" \notin Faults, SpoolInv, Typed, OnceInv,
         Quiet \/ Submits \/ \E w \in workers : Ends(w) \/ \E v : Moves(w, v)
  PROVE  OnceInv'
<1>1. CASE Quiet
  <2>1. /\ UNCHANGED <<message, queued, delivered, bounced>>
        /\ \A v : v.pc \in Copying => (v \in workers' <=> v \in workers)
    BY <1>1 DEF Quiet
  <2>2. \A q : Idle(q)' => Idle(q)
    BY <2>1 DEF Idle
  <2> QED
    BY <2>1, <2>2 DEF OnceInv, ReportedOnce
<1>2. ASSUME NEW m, NEW D, NEW B, \A r \in Rcpt : D[r] = 0 /\ B[r] = 0 PROVE Once(m, D, B)
  BY <1>2 DEF Once
<1>3. CASE Submits
  <2>1. Queues /\ UNCHANGED <<workers, delivered, bounced>>
    BY <1>3 DEF Submits
  <2>2. queued \subseteq queued' /\ \A q \in queued : message'[q] = message[q]
    BY <2>1, QueuesKeep
  <2>3. \A q \in QueueId : message'[q] # NoMessage /\ Idle(q)' => Once(message'[q], delivered[q], bounced[q])
    BY <1>2, <2>1, <2>2 DEF OnceInv, Idle
  <2> QED
    BY <2>1, <2>2, <2>3 DEF OnceInv, ReportedOnce
<1>4. ASSUME NEW w \in workers, NEW v, Moves(w, v) PROVE OnceInv'
  <2>1. Once(v.msg, delivered'[w.q], bounced'[w.q])
    BY <1>4, MovesOnce
  <2>2. /\ \A u \in workers' : u.pc \in Copying => u = v \/ (u \in workers /\ u.q # w.q)
        /\ \A p \in QueueId : p # w.q => delivered'[p] = delivered[p] /\ bounced'[p] = bounced[p]
        /\ v.q = w.q /\ w.q \in QueueId /\ w.q \in queued /\ v.pc \in Copying
        /\ workers' = (workers \ {w}) \cup {v}
    BY <1>4, MovesParts, CopyIds DEF Moves
  <2>3. queued \subseteq queued' /\ \A q \in queued : message'[q] = message[q]
    BY <1>4, QueuesKeep DEF Moves
  <2>4. \A q \in QueueId : q \notin queued' => \A r \in Rcpt : delivered'[q][r] = 0 /\ bounced'[q][r] = 0
    BY <2>2, <2>3 DEF OnceInv
  <2>5. ASSUME NEW u \in workers', u.pc \in Copying PROVE Once(u.msg, delivered'[u.q], bounced'[u.q])
    <3>1. CASE u = v
      BY <2>1, <2>2, <3>1
    <3>2. CASE u \in workers /\ u.q # w.q
      <4>1. delivered'[u.q] = delivered[u.q] /\ bounced'[u.q] = bounced[u.q]
        BY <2>2, <3>2, CopyIds
      <4> QED
        BY <2>5, <3>2, <4>1 DEF OnceInv
    <3> QED
      BY <2>2, <2>5, <3>1, <3>2
  <2>6. ASSUME NEW q \in QueueId, message'[q] # NoMessage, Idle(q)'
        PROVE  Once(message'[q], delivered'[q], bounced'[q])
    <3>1. q # w.q
      BY <2>2, <2>6 DEF Idle
    <3>2. Idle(q)
      BY <2>2, <2>6, <3>1 DEF Idle
    <3>3. CASE q \in queued
      BY <2>2, <2>3, <2>6, <3>1, <3>2, <3>3 DEF OnceInv
    <3>4. CASE q \notin queued
      BY <1>2, <2>2, <3>1, <3>4 DEF OnceInv
    <3> QED
      BY <3>3, <3>4
  <2>7. ReportedOnce'
    <3> SUFFICES ASSUME NEW q \in QueueId, NEW r \in Rcpt PROVE delivered'[q][r] + bounced'[q][r] <= 1
      BY DEF ReportedOnce
    <3>1. CASE q = w.q
      BY <2>1, <3>1, OnceEach
    <3>2. CASE q # w.q
      BY <2>2, <3>2 DEF OnceInv, ReportedOnce
    <3> QED
      BY <3>1, <3>2
  <2> QED
    BY <2>4, <2>5, <2>6, <2>7 DEF OnceInv
<1>5. ASSUME NEW w \in workers, Ends(w) PROVE OnceInv'
  <2>1. /\ w.pc \in Copying /\ Keeps(message[w.q], w.msg) /\ UNCHANGED queued
        /\ \A p \in QueueId : p # w.q => message'[p] = message[p]
        /\ \A v \in workers' : v.pc \in Copying => v \in workers /\ v.q # w.q
        /\ message'[w.q] \in {NoMessage, ReleaseQuota(w.msg)}
    BY <1>5, EndsParts DEF Copying
  <2>2. UNCHANGED <<delivered, bounced>> /\ \A v \in workers : v.pc \in Copying /\ v # w => v \in workers'
    BY <1>5 DEF Ends
  <2>3. Once(ReleaseQuota(w.msg), delivered[w.q], bounced[w.q])
    <3> DEFINE n == ReleaseQuota(w.msg)
    <3>1. n.domains = w.msg.domains /\ n.rcpts = w.msg.rcpts
      BY <2>1, SavedMessage DEF Keeps
    <3>2. Once(w.msg, delivered[w.q], bounced[w.q])
      BY <2>1 DEF OnceInv
    <3> HIDE DEF n
    <3>3. Once(n, delivered[w.q], bounced[w.q])
      BY <3>1, <3>2 DEF Once, DomainStatus
    <3> QED
      BY <3>3 DEF n
  <2>4. ASSUME NEW q \in QueueId, message'[q] # NoMessage, Idle(q)'
        PROVE  Once(message'[q], delivered[q], bounced[q])
    <3>1. CASE q = w.q
      BY <2>1, <2>3, <2>4, <3>1
    <3>2. CASE q # w.q
      <4>1. Idle(q)
        BY <2>2, <2>4, <3>2 DEF Idle
      <4> QED
        BY <2>1, <2>4, <3>2, <4>1 DEF OnceInv
    <3> QED
      BY <3>1, <3>2
  <2> QED
    BY <2>1, <2>2, <2>4 DEF OnceInv, ReportedOnce
<1> QED
  BY <1>1, <1>3, <1>4, <1>5

\* The sender is told of the failure of a recipient at most once, and not of that
\* of a recipient that was delivered to, which happens at most once too.  A worker
\* that crashes, or whose save fails, after a delivery or a report repeats it.
THEOREM ToldOnce ==
  ASSUME Sound, "write" \notin Faults, "restart" \notin Faults
  PROVE  Spec => []ReportedOnce
<1> DEFINE Inv == SpoolInv /\ Typed /\ OnceInv
<1>1. Init => Inv
  BY InitTyped DEF Init, OnceInv, Idle, ReportedOnce
<1>2. Inv /\ [Next]_vars => Inv'
  BY NextInv, StepKinds, TypedStep, OnceStep
<1>3. Inv => ReportedOnce
  BY DEF OnceInv
<1> QED
  BY <1>1, <1>2, <1>3, PTL DEF Spec
===============================================================================
