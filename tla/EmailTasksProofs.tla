--------------------------- MODULE EmailTasksProofs ---------------------------
(***************************************************************************)
(* Proofs about EmailTasks, for any number of nodes, documents, contents   *)
(* and tasks: no message is found by another's words, none is forgotten by *)
(* the indexer, a purge deletes nothing that has come since, and the spam  *)
(* filter learns from a task once.                                         *)
(***************************************************************************)
EXTENDS EmailTasks, FiniteSetTheorems, TLAPS

-------------------------------------------------------------------------------
(* Sequences of tasks. *)

\* The first entry and the rest.
LEMMA Entries ==
  ASSUME NEW T, NEW s \in Seq(T)
  PROVE  /\ ToSet(s) \subseteq T
         /\ s # <<>> => Head(s) \in ToSet(s) /\ Tail(s) \in Seq(T) /\ ToSet(Tail(s)) \subseteq ToSet(s)
  BY DEF ToSet

LEMMA NoEntries == ToSet(<<>>) = {}
  BY DEF ToSet

\* The beginning of a list of the tasks of S.
LEMMA Beginning ==
  ASSUME NEW S, IsFiniteSet(S), NEW s \in SetToSeqs(S), NEW k \in 0..Cardinality(S)
  PROVE  SubSeq(s, 1, k) \in Seq(S) /\ ToSet(SubSeq(s, 1, k)) \subseteq S /\ Len(s) = Cardinality(S)
<1>1. Cardinality(S) \in Nat
  BY FS_CardinalityType
<1>2. s \in [1..Cardinality(S) -> S]
  BY DEF SetToSeqs
<1>3. s \in Seq(S) /\ Len(s) = Cardinality(S)
  BY <1>1, <1>2
<1>4. SubSeq(s, 1, k) \in Seq(S)
  BY <1>1, <1>3
<1> QED
  BY <1>3, <1>4, Entries

-------------------------------------------------------------------------------
(* The inductive invariant. *)

LoopType == [pc: {"wait", "lock", "read", "apply", "clear"}, entries: Seq(Task),
             unlock: SUBSET LockKeys, skip: [1..MaxSeq -> 0..Horizon]]

PurgeType == [pc: {"idle", "terms", "delete", "end"}, ids: SUBSET Doc]

Email == [hash: Hash, tomb: BOOLEAN]

\* TypeOK but for the sequence numbers.
Types ==
    /\ now \in 0..MaxTime /\ seq \in 0..MaxSeq /\ faults \in 0..MaxFaults
    /\ email \in [Doc -> Email \cup {NoEmail}]
    /\ terms \in [Doc -> SUBSET Hash] /\ tasks \subseteq Task
    /\ locks \in [LockKeys -> 0..Horizon] /\ plock \in 0..Horizon
    /\ permit \in [Node -> BOOLEAN]
    /\ loop \in [Node -> LoopType] /\ purge \in [Node -> PurgeType]
    /\ reindex \subseteq Doc \X Hash /\ trained \in [1..MaxSeq -> 0..2]

Busy(n) == loop[n].pc \in {"read", "apply", "clear"}

\* The tasks that are queued or on the list of a node.
Known == tasks \cup UNION {ToSet(loop[n].entries) : n \in Node}

\* Sequence numbers are drawn once; a node at work has a task; the links a reindex has
\* collected are one for each document.
Numbered ==
    /\ \A t \in Known : t.seq <= seq
    /\ \A t, u \in Known : t.seq = u.seq => t = u
    /\ \A n \in Node : Busy(n) => loop[n].entries # <<>>
    /\ \A x, y \in reindex : x[1] = y[1] => x = y

Base == Types /\ Numbered

LEMMA KnownTasks ==
  ASSUME Types
  PROVE  /\ Known \subseteq Task
         /\ \A n \in Node : /\ loop[n] \in LoopType /\ loop[n].entries \in Seq(Task)
                            /\ ToSet(loop[n].entries) \subseteq Known
<1>1. \A n \in Node : loop[n] \in LoopType /\ loop[n].entries \in Seq(Task)
  BY DEF Types, LoopType
<1>2. \A n \in Node : ToSet(loop[n].entries) \subseteq Task
  BY <1>1, Entries
<1> QED
  BY <1>1, <1>2 DEF Known, Types

\* The task a node is at.
LEMMA AtTask ==
  ASSUME Base, NEW n \in Node, Busy(n)
  PROVE  /\ Current(n) \in Task /\ Current(n) \in ToSet(loop[n].entries) /\ Current(n) \in Known
         /\ Tail(loop[n].entries) \in Seq(Task) /\ ToSet(Tail(loop[n].entries)) \subseteq ToSet(loop[n].entries)
<1>1. loop[n].entries \in Seq(Task) /\ loop[n].entries # <<>> /\ ToSet(loop[n].entries) \subseteq Known /\ Known \subseteq Task
  BY KnownTasks DEF Base, Numbered
<1>2. Head(loop[n].entries) \in ToSet(loop[n].entries)
  BY <1>1, Entries
<1> QED
  BY <1>1, <1>2, Entries DEF Current

\* One loop moves.
LEMMA OneLoop ==
  ASSUME NEW n \in Node, NEW l \in LoopType, loop \in [Node -> LoopType], loop' = [loop EXCEPT ![n] = l]
  PROVE  loop' \in [Node -> LoopType] /\ loop'[n] = l /\ \A m \in Node : m # n => loop'[m] = loop[m]
  OBVIOUS

\* What the loops know when one of them drops entries or reads them from the queue.
LEMMA KnowLess ==
  ASSUME NEW n \in Node, Numbered, tasks' \subseteq tasks, UNCHANGED <<seq, reindex>>,
         ToSet(loop'[n].entries) \subseteq Known,
         \A m \in Node : m # n => loop'[m] = loop[m],
         loop'[n].pc \in {"read", "apply", "clear"} => loop'[n].entries # <<>>
  PROVE  Numbered' /\ Known' \subseteq Known
<1>1. Known' \subseteq Known
  <2>1. \A m \in Node : ToSet(loop'[m].entries) \subseteq Known
    BY DEF Known
  <2> QED
    BY <2>1 DEF Known
<1>2. \A m \in Node : Busy(m)' => loop'[m].entries # <<>>
  BY DEF Numbered, Busy
<1> QED
  BY <1>1, <1>2 DEF Numbered

\* Steps that leave the loops alone.
LEMMA SameLoops ==
  ASSUME UNCHANGED <<loop, tasks, seq, reindex>>, Numbered
  PROVE  Numbered' /\ Known' = Known
  BY DEF Numbered, Known, Busy

\* New tasks have numbers of their own.
LEMMA KnowMore ==
  ASSUME Types, Numbered, UNCHANGED loop, NEW new \in SUBSET Task, tasks' = tasks \cup new,
         seq' \in Nat, seq <= seq', \A x, y \in reindex' : x[1] = y[1] => x = y,
         \A t \in new : t.seq > seq /\ t.seq <= seq',
         \A t, u \in new : t.seq = u.seq => t = u
  PROVE  Numbered' /\ Known' = Known \cup new
<1>1. Known' = Known \cup new
  BY DEF Known
<1>2. Known \subseteq Task
  BY KnownTasks
<1>3. \A t \in Task : t.seq \in Nat
  BY DEF Task
<1>4. seq \in Nat /\ \A t \in Known : t.seq <= seq
  BY DEF Types, Numbered
<1>5. \A t \in Known \cup new : t.seq <= seq'
  BY <1>2, <1>3, <1>4
<1>6. \A t, u \in Known \cup new : t.seq = u.seq => t = u
  <2>1. \A t \in Known, u \in new : t.seq # u.seq
    BY <1>2, <1>3, <1>4
  <2> QED
    BY <2>1 DEF Numbered
<1>7. \A n \in Node : Busy(n)' => loop'[n].entries # <<>>
  BY DEF Numbered, Busy
<1> QED
  BY <1>1, <1>5, <1>6, <1>7 DEF Numbered

\* The lists a node reads are of finitely many tasks.
LEMMA FinitelyMany ==
  ASSUME Base
  PROVE  /\ IsFiniteSet(tasks) /\ IsFiniteSet(reindex)
<1>1. MaxSeq \in Nat
  BY TaskAssumption
<1> DEFINE f == [t \in tasks |-> t.seq]
           g == [x \in reindex |-> x[1]]
<1>2. f \in [tasks -> 1..MaxSeq] /\ \A a, b \in tasks : f[a] = f[b] => a = b
  BY DEF Base, Types, Numbered, Known, Task
<1>3. g \in [reindex -> Doc] /\ \A a, b \in reindex : g[a] = g[b] => a = b
  BY DEF Base, Types, Numbered
<1> HIDE DEF f, g
<1>4. f \in Injection(tasks, 1..MaxSeq) /\ g \in Injection(reindex, Doc)
  BY <1>2, <1>3 DEF Injection, IsInjective
<1>5. IsFiniteSet(1..MaxSeq) /\ IsFiniteSet(Doc)
  BY <1>1, FS_Interval, TaskAssumption
<1>6. IsFiniteSet(tasks)
  BY <1>4, <1>5, FS_Injection
<1>7. IsFiniteSet(reindex)
  BY <1>4, <1>5, FS_Injection
<1> QED
  BY <1>6, <1>7

-------------------------------------------------------------------------------
(* What the steps of a loop do to it. *)

\* The parts of a loop.
LEMMA LoopParts ==
  ASSUME NEW l \in LoopType
  PROVE  /\ l.pc \in {"wait", "lock", "read", "apply", "clear"} /\ l.entries \in Seq(Task)
         /\ l.unlock \in SUBSET LockKeys /\ l.skip \in [1..MaxSeq -> 0..Horizon]
  BY DEF LoopType

\* The program counter moves.
LEMMA Turns ==
  ASSUME loop \in [Node -> LoopType], NEW n \in Node, NEW c \in {"wait", "lock", "read", "apply", "clear"},
         loop' = [loop EXCEPT ![n].pc = c]
  PROVE  /\ loop' \in [Node -> LoopType] /\ \A m \in Node : m # n => loop'[m] = loop[m]
         /\ loop'[n].pc = c /\ loop'[n].entries = loop[n].entries /\ loop'[n].unlock = loop[n].unlock
<1> DEFINE l == [loop[n] EXCEPT !.pc = c]
<1>1. l \in LoopType /\ l.pc = c /\ l.entries = loop[n].entries /\ l.unlock = loop[n].unlock
  BY DEF LoopType
<1>2. loop' = [loop EXCEPT ![n] = l]
  OBVIOUS
<1> HIDE DEF l
<1> QED
  BY <1>1, <1>2, OneLoop

\* The next entry is taken.
LEMMA Continues ==
  ASSUME loop \in [Node -> LoopType], NEW n \in Node, Continue(n), loop[n].entries # <<>>
  PROVE  /\ loop' \in [Node -> LoopType] /\ \A m \in Node : m # n => loop'[m] = loop[m]
         /\ loop'[n].pc = "lock" /\ loop'[n].entries = Tail(loop[n].entries) /\ loop'[n].unlock = loop[n].unlock
<1> DEFINE l == [loop[n] EXCEPT !.pc = "lock", !.entries = Tail(loop[n].entries)]
<1>1. Tail(loop[n].entries) \in Seq(Task)
  BY LoopParts, Entries
<1>2. l \in LoopType /\ l.pc = "lock" /\ l.entries = Tail(loop[n].entries) /\ l.unlock = loop[n].unlock
  BY <1>1 DEF LoopType
<1>3. loop' = [loop EXCEPT ![n] = l]
  BY DEF Continue
<1> HIDE DEF l
<1> QED
  BY <1>2, <1>3, OneLoop

\* The lock of the first entry is had.
LEMMA Locks ==
  ASSUME loop \in [Node -> LoopType], NEW n \in Node, NEW u \in SUBSET LockKeys,
         loop' = [loop EXCEPT ![n].pc = "read", ![n].unlock = u]
  PROVE  /\ loop' \in [Node -> LoopType] /\ \A m \in Node : m # n => loop'[m] = loop[m]
         /\ loop'[n].pc = "read" /\ loop'[n].entries = loop[n].entries /\ loop'[n].unlock = u
<1> DEFINE l == [loop[n] EXCEPT !.pc = "read", !.unlock = u]
<1>1. l \in LoopType /\ l.pc = "read" /\ l.entries = loop[n].entries /\ l.unlock = u
  BY DEF LoopType
<1>2. loop' = [loop EXCEPT ![n] = l]
  OBVIOUS
<1> HIDE DEF l
<1> QED
  BY <1>1, <1>2, OneLoop

\* The first entry is locked, and skipped.
LEMMA Skips ==
  ASSUME loop \in [Node -> LoopType], NEW n \in Node, loop[n].entries # <<>>,
         NEW s \in 1..MaxSeq, NEW x \in 0..Horizon,
         loop' = [loop EXCEPT ![n].entries = Tail(loop[n].entries), ![n].skip[s] = x]
  PROVE  /\ loop' \in [Node -> LoopType] /\ \A m \in Node : m # n => loop'[m] = loop[m]
         /\ loop'[n].pc = loop[n].pc /\ loop'[n].entries = Tail(loop[n].entries)
         /\ loop'[n].unlock = loop[n].unlock
<1> DEFINE k == [loop[n].skip EXCEPT ![s] = x]
           l == [loop[n] EXCEPT !.entries = Tail(loop[n].entries), !.skip = k]
<1>1. Tail(loop[n].entries) \in Seq(Task)
  BY LoopParts, Entries
<1>2. k \in [1..MaxSeq -> 0..Horizon]
  BY LoopParts
<1>3. loop' = [loop EXCEPT ![n] = l]
  OBVIOUS
<1> HIDE DEF k
<1>4. l \in LoopType /\ l.pc = loop[n].pc /\ l.entries = Tail(loop[n].entries) /\ l.unlock = loop[n].unlock
  BY <1>1, <1>2 DEF LoopType
<1> HIDE DEF l
<1> QED
  BY <1>3, <1>4, OneLoop

\* A list of tasks is read.
LEMMA Starts ==
  ASSUME loop \in [Node -> LoopType], NEW n \in Node, NEW s \in Seq(Task),
         loop' = [loop EXCEPT ![n].pc = "lock", ![n].entries = s]
  PROVE  /\ loop' \in [Node -> LoopType] /\ \A m \in Node : m # n => loop'[m] = loop[m]
         /\ loop'[n].pc = "lock" /\ loop'[n].entries = s /\ loop'[n].unlock = loop[n].unlock
<1> DEFINE l == [loop[n] EXCEPT !.pc = "lock", !.entries = s]
<1>1. l \in LoopType /\ l.pc = "lock" /\ l.entries = s /\ l.unlock = loop[n].unlock
  BY DEF LoopType
<1>2. loop' = [loop EXCEPT ![n] = l]
  OBVIOUS
<1> HIDE DEF l
<1> QED
  BY <1>1, <1>2, OneLoop

\* The round ends.
LEMMA Rests ==
  ASSUME loop \in [Node -> LoopType], NEW n \in Node, NEW k \in [1..MaxSeq -> 0..Horizon],
         loop' = [loop EXCEPT ![n].pc = "wait", ![n].unlock = {}, ![n].skip = k]
  PROVE  /\ loop' \in [Node -> LoopType] /\ \A m \in Node : m # n => loop'[m] = loop[m]
         /\ loop'[n].pc = "wait" /\ loop'[n].entries = loop[n].entries /\ loop'[n].unlock = {}
<1> DEFINE l == [loop[n] EXCEPT !.pc = "wait", !.unlock = {}, !.skip = k]
<1>1. l \in LoopType /\ l.pc = "wait" /\ l.entries = loop[n].entries /\ l.unlock = {}
  BY DEF LoopType
<1>2. loop' = [loop EXCEPT ![n] = l]
  OBVIOUS
<1> HIDE DEF l
<1> QED
  BY <1>1, <1>2, OneLoop

\* The locks of tasks, and their times.
LEMMA LockFacts ==
  /\ \A t \in Task : LockKey(t) \in LockKeys /\ LockExpiry(t) \in Nat \ {0}
  /\ \A x \in Nat : At(x) \in 0..Horizon
  /\ \A x \in Nat : x < Horizon => At(x) = x
  /\ \A x, y \in Nat : y < x /\ y < Horizon => y < At(x)
  BY TaskAssumption DEF Task, LockKey, LockKeys, LockExpiry, At

-------------------------------------------------------------------------------
(* Every step keeps the types and the numbers. *)

\* The tasks of a new message.
LEMMA BaseIngest ==
  ASSUME Base, NEW n \in Node, NEW d \in Doc, NEW h \in Hash, NEW train \in BOOLEAN,
         Ingest(n, d, h, train)
  PROVE  Base'
<1> DEFINE new(k, a) == [seq |-> seq + k, doc |-> d, hash |-> h, action |-> a]
           more == {new(1, "index")} \cup (IF train THEN {new(2, "train")} ELSE {})
<1>1. MaxSeq \in Nat /\ seq \in 0..MaxSeq /\ seq' \in 0..MaxSeq /\ seq < seq'
  BY TaskAssumption DEF Base, Types, Ingest
<1>2. more \subseteq Task
  BY <1>1 DEF Ingest, Task
<1>3. \A t \in more : t.seq > seq /\ t.seq <= seq'
  BY <1>1 DEF Ingest
<1>4. \A t, u \in more : t.seq = u.seq => t = u
  BY <1>1
<1>5. tasks' = tasks \cup more
  BY DEF Ingest
<1>6. UNCHANGED <<now, terms, locks, plock, loop, purge, reindex, trained, faults>>
  BY DEF Ingest, clocks
<1>7. email' \in [Doc -> Email \cup {NoEmail}]
  BY DEF Base, Types, Email, Ingest
<1>8. permit' \in [Node -> BOOLEAN]
  BY DEF Base, Types, Ingest, Notify
<1> HIDE DEF more
<1>9. Numbered'
  <2>1. Types /\ Numbered /\ loop' = loop /\ seq' \in Nat /\ seq <= seq' /\ more \in SUBSET Task
    BY <1>1, <1>2, <1>6 DEF Base
  <2>2. \A x, y \in reindex' : x[1] = y[1] => x = y
    BY <2>1, <1>6 DEF Numbered
  <2> QED
    BY <2>1, <2>2, <1>3, <1>4, <1>5, KnowMore
<1>10. Types'
  BY <1>1, <1>2, <1>5, <1>6, <1>7, <1>8 DEF Base, Types
<1> QED
  BY <1>9, <1>10 DEF Base

LEMMA BaseTrain ==
  ASSUME Base, NEW n \in Node, NEW d \in Doc, Train(n, d)
  PROVE  Base'
<1> DEFINE t == [seq |-> seq', doc |-> d, hash |-> email[d].hash, action |-> "train"]
<1>1. MaxSeq \in Nat /\ seq \in 0..MaxSeq /\ seq' \in 0..MaxSeq /\ seq' = seq + 1
  BY TaskAssumption DEF Base, Types, Train
<1>2. email[d] \in Email
  BY DEF Train, Live, Base, Types
<1>3. t \in Task /\ t.seq = seq'
  BY <1>1, <1>2 DEF Email, Task
<1>4. tasks' = tasks \cup {t}
  BY DEF Train
<1>5. UNCHANGED <<now, email, terms, locks, plock, loop, purge, reindex, trained, faults>>
  BY DEF Train, clocks
<1>6. permit' \in [Node -> BOOLEAN]
  BY DEF Base, Types, Train, Notify
<1> HIDE DEF t
<1>7. Numbered'
  <2>1. Types /\ Numbered /\ loop' = loop /\ seq' \in Nat /\ seq <= seq' /\ {t} \in SUBSET Task
    BY <1>1, <1>3, <1>5 DEF Base
  <2>2. \A x, y \in reindex' : x[1] = y[1] => x = y
    BY <2>1, <1>5 DEF Numbered
  <2>3. \A u \in {t} : u.seq > seq /\ u.seq <= seq'
    BY <1>1, <1>3
  <2>4. \A u, v \in {t} : u.seq = v.seq => u = v
    OBVIOUS
  <2> QED
    BY <2>1, <2>2, <2>3, <2>4, <1>4, KnowMore
<1>8. Types'
  BY <1>1, <1>3, <1>4, <1>5, <1>6 DEF Base, Types
<1> QED
  BY <1>7, <1>8 DEF Base

\* The tasks of a reindex, one for each link.
LEMMA BaseQueueIndexing ==
  ASSUME Base, NEW n \in Node, QueueIndexing(n)
  PROVE  Base'
<1>1. PICK order \in SetToSeqs(reindex) :
        tasks' = tasks \cup {[seq |-> seq + i, doc |-> order[i][1], hash |-> order[i][2],
                              action |-> "index"] : i \in DOMAIN order}
  BY DEF QueueIndexing
<1> DEFINE task(i) == [seq |-> seq + i, doc |-> order[i][1], hash |-> order[i][2], action |-> "index"]
           more == {task(i) : i \in DOMAIN order}
<1>2. Cardinality(reindex) \in Nat
  BY FinitelyMany, FS_CardinalityType
<1>3. MaxSeq \in Nat /\ seq \in 0..MaxSeq /\ seq' = seq + Cardinality(reindex) /\ seq' <= MaxSeq
  BY TaskAssumption DEF Base, Types, QueueIndexing
<1>4. order \in [1..Cardinality(reindex) -> reindex]
  BY DEF SetToSeqs
<1>5. \A i \in DOMAIN order : /\ i \in Nat /\ 1 <= i /\ i <= Cardinality(reindex)
                              /\ order[i][1] \in Doc /\ order[i][2] \in Hash
  <2>1. \A i \in DOMAIN order : i \in 1..Cardinality(reindex) /\ order[i] \in Doc \X Hash
    BY <1>4 DEF Base, Types
  <2> QED
    BY <2>1, <1>2
<1>6. \A i \in DOMAIN order : task(i) \in Task /\ task(i).seq = seq + i
  BY <1>2, <1>3, <1>5 DEF Task
<1> HIDE DEF task
<1>7. more \subseteq Task
  BY <1>6
<1>8. \A t \in more : t.seq > seq /\ t.seq <= seq'
  BY <1>2, <1>3, <1>5, <1>6
<1>9. \A t, u \in more : t.seq = u.seq => t = u
  <2> SUFFICES ASSUME NEW i \in DOMAIN order, NEW j \in DOMAIN order, task(i).seq = task(j).seq
               PROVE  task(i) = task(j)
    OBVIOUS
  <2>1. i = j
    BY <1>3, <1>5, <1>6
  <2> QED
    BY <2>1
<1>10. tasks' = tasks \cup more
  BY <1>1 DEF task
<1>11. reindex' = {} /\ UNCHANGED <<now, email, terms, locks, plock, loop, purge, trained, faults>>
  BY DEF QueueIndexing, clocks
<1>12. permit' \in [Node -> BOOLEAN]
  BY DEF Base, Types, QueueIndexing, Notify
<1> HIDE DEF more
<1>13. Numbered'
  <2>1. Types /\ Numbered /\ loop' = loop /\ seq' \in Nat /\ seq <= seq' /\ more \in SUBSET Task
    BY <1>2, <1>3, <1>7, <1>11 DEF Base
  <2>2. \A x, y \in reindex' : x[1] = y[1] => x = y
    BY <1>11
  <2> QED
    BY <2>1, <2>2, <1>8, <1>9, <1>10, KnowMore
<1>14. seq' \in 0..MaxSeq
  BY <1>2, <1>3
<1>15. Types'
  BY <1>7, <1>10, <1>11, <1>12, <1>14 DEF Base, Types
<1> QED
  BY <1>13, <1>15 DEF Base

LEMMA BaseCollectLinks ==
  ASSUME Base, CollectLinks
  PROVE  Base'
<1>1. reindex' \subseteq Doc \X Hash
  BY DEF CollectLinks, Base, Types, Email
<1>2. \A x, y \in reindex' : x[1] = y[1] => x = y
  BY DEF CollectLinks
<1>3. UNCHANGED <<now, email, terms, tasks, seq, locks, plock, permit, loop, purge, trained, faults>>
  BY DEF CollectLinks, store, clocks
<1>4. Numbered'
  BY <1>2, <1>3 DEF Base, Numbered, Known, Busy
<1> QED
  BY <1>1, <1>3, <1>4 DEF Base, Types

\* Steps that leave the queue and the loops alone.
LEMMA BaseRest ==
  ASSUME Base, UNCHANGED <<loop, tasks, seq, reindex>>, Types'
  PROVE  Base'
  BY SameLoops DEF Base

LEMMA BaseTombstone ==
  ASSUME Base, NEW d \in Doc, Tombstone(d)
  PROVE  Base'
<1>1. email' \in [Doc -> Email \cup {NoEmail}]
  BY DEF Tombstone, Live, Base, Types, Email
<1> QED
  BY <1>1, BaseRest DEF Base, Types, Tombstone, clocks

LEMMA BaseOtherNews ==
  ASSUME Base, NEW n \in Node, OtherNews(n)
  PROVE  Base'
  BY BaseRest DEF Base, Types, OtherNews, Notify, store, clocks

LEMMA BaseTick ==
  ASSUME Base, Tick
  PROVE  Base'
<1>1. now' \in 0..MaxTime
  BY TaskAssumption DEF Tick, Base, Types
<1> QED
  BY <1>1, BaseRest DEF Base, Types, Tick, store

\* Failures are counted.
LEMMA Faulty ==
  ASSUME faults \in 0..MaxFaults, NEW kind, Fault(kind) \/ UNCHANGED faults
  PROVE  faults' \in 0..MaxFaults
  BY TaskAssumption DEF Fault

-------------------------------------------------------------------------------
(* The steps of the task loop, one by one. *)

\* Only the loop of node n moves.
OnlyLoop(n) == loop' \in [Node -> LoopType] /\ \A m \in Node : m # n => loop'[m] = loop[m]

LEMMA ScanDoes ==
  ASSUME Base, NEW n \in Node, Scan(n)
  PROVE  /\ OnlyLoop(n) /\ loop[n].pc = "wait" /\ loop'[n].pc = "lock" /\ loop'[n].unlock = loop[n].unlock
         /\ ToSet(loop'[n].entries) \subseteq tasks
         /\ UNCHANGED <<now, email, terms, tasks, seq, locks, plock, purge, reindex, trained>>
         /\ permit' \in [Node -> BOOLEAN] /\ faults' \in 0..MaxFaults /\ faults' >= faults
<1> DEFINE due == {t \in tasks : loop[n].skip[t.seq] = 0 \/ now >= loop[n].skip[t.seq]}
<1>1. PICK sorted \in SetToSeqs(due), k \in 0..Cardinality(due) :
        /\ loop' = [loop EXCEPT ![n].pc = "lock", ![n].entries = SubSeq(sorted, 1, k)]
        /\ IF k = Len(sorted) THEN UNCHANGED faults ELSE Fault("scan")
  BY DEF Scan
<1>2. loop[n].pc = "wait" /\ permit' = [permit EXCEPT ![n] = FALSE]
      /\ UNCHANGED <<now, email, terms, tasks, seq, locks, plock, purge, reindex, trained>>
  BY DEF Scan, store, clocks
<1>3. due \subseteq tasks /\ tasks \subseteq Task /\ loop \in [Node -> LoopType]
  BY DEF Base, Types
<1> HIDE DEF due
<1>4. IsFiniteSet(due)
  BY <1>3, FinitelyMany, FS_Subset
<1> DEFINE s == SubSeq(sorted, 1, k)
<1>5. s \in Seq(due) /\ ToSet(s) \subseteq due
  BY <1>4, Beginning
<1>6. s \in Seq(Task)
  BY <1>3, <1>5
<1>7. loop' = [loop EXCEPT ![n].pc = "lock", ![n].entries = s]
  BY <1>1
<1> HIDE DEF s
<1>8. /\ loop' \in [Node -> LoopType] /\ \A m \in Node : m # n => loop'[m] = loop[m]
      /\ loop'[n].pc = "lock" /\ loop'[n].entries = s /\ loop'[n].unlock = loop[n].unlock
  BY <1>3, <1>6, <1>7, Starts
<1>9. faults' \in 0..MaxFaults /\ faults' >= faults
  <2>1. Fault("scan") \/ faults' = faults
    BY <1>1
  <2> QED
    BY <2>1, TaskAssumption DEF Fault, Base, Types
<1>10. permit' \in [Node -> BOOLEAN]
  BY <1>2 DEF Base, Types
<1> QED
  BY <1>2, <1>3, <1>5, <1>8, <1>9, <1>10 DEF OnlyLoop

\* The lock is had, or the entry skipped.
LEMMA TryLockDoes ==
  ASSUME Base, NEW n \in Node, TryLock(n)
  PROVE  /\ OnlyLoop(n) /\ loop[n].pc = "lock" /\ loop[n].entries # <<>>
         /\ Current(n) \in Task /\ Current(n) \in ToSet(loop[n].entries)
         /\ UNCHANGED <<now, email, terms, tasks, seq, plock, permit, purge, reindex, trained>>
         /\ faults' \in 0..MaxFaults /\ faults' >= faults
         /\ \/ /\ locks[LockKey(Current(n))] <= now
               /\ locks' = [locks EXCEPT ![LockKey(Current(n))] = At(now + LockExpiry(Current(n)))]
               /\ loop'[n].pc = "read" /\ loop'[n].entries = loop[n].entries
               /\ loop'[n].unlock = IF Current(n).action = "index" THEN loop[n].unlock \cup {LockKey(Current(n))}
                                    ELSE loop[n].unlock
            \/ /\ locks' = locks /\ loop'[n].pc = "lock" /\ loop'[n].entries = Tail(loop[n].entries)
               /\ loop'[n].unlock = loop[n].unlock
<1> DEFINE t == Current(n)
           key == LockKey(t)
           u == IF t.action = "index" THEN loop[n].unlock \cup {key} ELSE loop[n].unlock
           x == At(now + LockExpiry(t) + 1)
<1>1. /\ loop[n].pc = "lock" /\ loop[n].entries # <<>>
      /\ \/ /\ locks[key] <= now /\ locks' = [locks EXCEPT ![key] = At(now + LockExpiry(t))]
            /\ loop' = [loop EXCEPT ![n].pc = "read", ![n].unlock = IF t.action = "index" THEN @ \cup {key} ELSE @]
            /\ UNCHANGED faults
         \/ /\ (locks[key] > now /\ UNCHANGED faults) \/ Fault("lock")
            /\ loop' = [loop EXCEPT ![n].entries = Tail(@), ![n].skip[t.seq] = x]
            /\ UNCHANGED locks
      /\ UNCHANGED <<now, email, terms, tasks, seq, plock, permit, purge, reindex, trained>>
  BY Zenon DEF TryLock, store
<1>2. loop \in [Node -> LoopType] /\ loop[n] \in LoopType
  BY DEF Base, Types
<1>3. loop[n].entries \in Seq(Task)
  BY <1>2, LoopParts
<1>4. t \in ToSet(loop[n].entries) /\ t \in Task
  BY <1>1, <1>3, Entries DEF Current
<1>5. now \in Nat /\ key \in LockKeys /\ LockExpiry(t) \in Nat /\ t.seq \in 1..MaxSeq
  <2> HIDE DEF t
  <2>1. now \in Nat
    BY TaskAssumption DEF Base, Types
  <2>2. LockKey(t) \in LockKeys /\ LockExpiry(t) \in Nat
    BY <1>4, LockFacts
  <2>3. t.seq \in 1..MaxSeq
    BY <1>4 DEF Task
  <2> QED
    BY <2>1, <2>2, <2>3
<1>6. x \in 0..Horizon
  <2>1. now + LockExpiry(t) + 1 \in Nat
    BY <1>5
  <2> QED
    BY <2>1, LockFacts
<1>7. u \in SUBSET LockKeys
  BY <1>2, <1>5, LoopParts
<1>8. faults' \in 0..MaxFaults /\ faults' >= faults
  BY <1>1, TaskAssumption DEF Fault, Base, Types
<1>9. CASE locks' = locks /\ loop' = [loop EXCEPT ![n].entries = Tail(@), ![n].skip[t.seq] = x]
  <2> HIDE DEF t, x
  <2>1. loop' = [loop EXCEPT ![n].entries = Tail(loop[n].entries), ![n].skip[t.seq] = x]
    BY <1>9, <1>2
  <2>2. /\ loop' \in [Node -> LoopType] /\ \A m \in Node : m # n => loop'[m] = loop[m]
        /\ loop'[n].pc = loop[n].pc /\ loop'[n].entries = Tail(loop[n].entries)
        /\ loop'[n].unlock = loop[n].unlock
    BY <2>1, <1>1, <1>2, <1>5, <1>6, Skips
  <2>3. OnlyLoop(n) /\ loop'[n].pc = "lock"
    BY <2>2, <1>1 DEF OnlyLoop
  <2> QED
    BY <2>2, <2>3, <1>9, <1>1, <1>4, <1>8 DEF t
<1>10. CASE /\ locks[key] <= now /\ locks' = [locks EXCEPT ![key] = At(now + LockExpiry(t))]
            /\ loop' = [loop EXCEPT ![n].pc = "read", ![n].unlock = IF t.action = "index" THEN @ \cup {key} ELSE @]
  <2>1. loop' = [loop EXCEPT ![n].pc = "read", ![n].unlock = u]
    BY <1>10, <1>2
  <2> HIDE DEF u
  <2>2. /\ loop' \in [Node -> LoopType] /\ \A m \in Node : m # n => loop'[m] = loop[m]
        /\ loop'[n].pc = "read" /\ loop'[n].entries = loop[n].entries /\ loop'[n].unlock = u
    BY <2>1, <1>2, <1>7, Locks
  <2> QED
    BY <2>2, <1>10, <1>1, <1>4, <1>8 DEF OnlyLoop, u
<1> QED
  BY <1>1, <1>9, <1>10

\* The message is there, or the task has ended; a failure passes over it.
LEMMA ReadDoes ==
  ASSUME Base, NEW n \in Node, Read(n)
  PROVE  /\ OnlyLoop(n) /\ loop[n].pc = "read" /\ loop'[n].unlock = loop[n].unlock
         /\ UNCHANGED <<now, email, terms, tasks, seq, locks, plock, permit, purge, reindex, trained>>
         /\ faults' \in 0..MaxFaults /\ faults' >= faults
         /\ \/ /\ PurgeMeetsIndexer \/ \A m \in Node : Current(n).doc \notin purge[m].ids
               /\ loop'[n].entries = loop[n].entries
               /\ loop'[n].pc = IF email[Current(n).doc] # NoEmail /\ email[Current(n).doc].hash = Current(n).hash
                                THEN "apply" ELSE "clear"
            \/ loop'[n].pc = "lock" /\ loop'[n].entries = Tail(loop[n].entries) /\ faults' = faults + 1
<1> DEFINE t == Current(n)
           c == IF email[t.doc] # NoEmail /\ email[t.doc].hash = t.hash THEN "apply" ELSE "clear"
<1>1. /\ loop[n].pc = "read"
      /\ UNCHANGED <<now, email, terms, tasks, seq, locks, plock, permit, purge, reindex, trained>>
      /\ \/ /\ PurgeMeetsIndexer \/ \A m \in Node : t.doc \notin purge[m].ids
            /\ loop' = [loop EXCEPT ![n].pc = c]
            /\ UNCHANGED faults
         \/ Fault("read") /\ Continue(n)
  BY Zenon DEF Read, store, clocks
<1>2. loop \in [Node -> LoopType] /\ loop[n].entries # <<>> /\ c \in {"apply", "clear"}
  BY <1>1 DEF Base, Types, Numbered, Busy
<1>3. faults' \in 0..MaxFaults /\ faults' >= faults
  BY <1>1, TaskAssumption DEF Fault, Base, Types
<1>4. CASE Fault("read") /\ Continue(n)
  <2>1. faults' = faults + 1
    BY <1>4 DEF Fault
  <2> QED
    BY <2>1, <1>1, <1>2, <1>3, <1>4, Continues DEF OnlyLoop
<1>5. CASE /\ PurgeMeetsIndexer \/ \A m \in Node : t.doc \notin purge[m].ids
           /\ loop' = [loop EXCEPT ![n].pc = c]
  <2> HIDE DEF c
  <2>1. /\ loop' \in [Node -> LoopType] /\ \A m \in Node : m # n => loop'[m] = loop[m]
        /\ loop'[n].pc = c /\ loop'[n].entries = loop[n].entries /\ loop'[n].unlock = loop[n].unlock
    BY <1>2, <1>5, Turns
  <2> QED
    BY <2>1, <1>1, <1>3, <1>5 DEF OnlyLoop, c
<1> QED
  BY <1>1, <1>4, <1>5

\* A training, an indexing, or a failure to index that has written something or nothing.
LEMMA ApplyDoes ==
  ASSUME Base, NEW n \in Node, Apply(n)
  PROVE  /\ OnlyLoop(n) /\ loop[n].pc = "apply" /\ loop'[n].unlock = loop[n].unlock
         /\ UNCHANGED <<now, email, tasks, seq, locks, plock, permit, purge, reindex>>
         /\ faults' \in 0..MaxFaults /\ faults' >= faults
         /\ \/ /\ Current(n).action = "train" /\ loop'[n].pc = "clear" /\ loop'[n].entries = loop[n].entries
               /\ terms' = terms /\ Trained(Current(n))
            \/ /\ Current(n).action = "index" /\ loop'[n].pc = "clear" /\ loop'[n].entries = loop[n].entries
               /\ terms' = FtsIndex(Current(n)) /\ trained' = trained
            \/ /\ Current(n).action = "index" /\ loop'[n].pc = "lock"
               /\ loop'[n].entries = Tail(loop[n].entries) /\ faults' = faults + 1
               /\ terms' \in {terms, FtsIndex(Current(n))} /\ trained' = trained
<1> DEFINE t == Current(n)
<1>1. /\ loop[n].pc = "apply"
      /\ UNCHANGED <<now, email, tasks, seq, locks, plock, permit, purge, reindex>>
      /\ \/ /\ t.action = "train" /\ Trained(t)
            /\ loop' = [loop EXCEPT ![n].pc = "clear"] /\ UNCHANGED <<terms, faults>>
         \/ /\ t.action = "index" /\ terms' = FtsIndex(t)
            /\ loop' = [loop EXCEPT ![n].pc = "clear"] /\ UNCHANGED <<trained, faults>>
         \/ /\ t.action = "index" /\ Fault("index") /\ Continue(n)
            /\ terms' \in {terms, FtsIndex(t)} /\ UNCHANGED trained
  BY Zenon DEF Apply, clocks
<1>2. loop \in [Node -> LoopType] /\ loop[n].entries # <<>>
  BY <1>1 DEF Base, Types, Numbered, Busy
<1>3. faults' \in 0..MaxFaults /\ faults' >= faults
  BY <1>1, TaskAssumption DEF Fault, Base, Types
<1>4. CASE loop' = [loop EXCEPT ![n].pc = "clear"]
  <2>1. /\ loop' \in [Node -> LoopType] /\ \A m \in Node : m # n => loop'[m] = loop[m]
        /\ loop'[n].pc = "clear" /\ loop'[n].entries = loop[n].entries /\ loop'[n].unlock = loop[n].unlock
    BY <1>2, <1>4, Turns
  <2>2. ~Continue(n)
    <3>1. Continue(n) => loop'[n].pc = "lock"
      BY <1>2, Continues
    <3> QED
      BY <3>1, <2>1
  <2> QED
    BY <2>1, <2>2, <1>1, <1>3 DEF OnlyLoop
<1>5. CASE /\ t.action = "index" /\ Fault("index") /\ Continue(n)
           /\ terms' \in {terms, FtsIndex(t)} /\ UNCHANGED trained
  <2>1. faults' = faults + 1
    BY <1>5 DEF Fault
  <2> QED
    BY <2>1, <1>1, <1>2, <1>3, <1>5, Continues DEF OnlyLoop
<1> QED
  BY <1>1, <1>4, <1>5

\* The entry leaves the queue, or a failure keeps it.
LEMMA ClearDoes ==
  ASSUME Base, NEW n \in Node, Clear(n)
  PROVE  /\ OnlyLoop(n) /\ loop[n].pc = "clear" /\ loop'[n].unlock = loop[n].unlock
         /\ loop'[n].pc = "lock" /\ loop'[n].entries = Tail(loop[n].entries)
         /\ UNCHANGED <<now, email, terms, seq, locks, plock, permit, purge, reindex, trained>>
         /\ faults' \in 0..MaxFaults /\ faults' >= faults
         /\ tasks' = tasks \ {Current(n)} \/ (tasks' = tasks /\ faults' = faults + 1)
<1>1. /\ loop[n].pc = "clear" /\ Continue(n)
      /\ (tasks' = tasks \ {Current(n)} /\ UNCHANGED faults) \/ (Fault("clear") /\ UNCHANGED tasks)
      /\ UNCHANGED <<now, email, terms, seq, locks, plock, permit, purge, reindex, trained>>
  BY Zenon DEF Clear, clocks
<1>2. loop \in [Node -> LoopType] /\ loop[n].entries # <<>>
  BY <1>1 DEF Base, Types, Numbered, Busy
<1>3. /\ faults' \in 0..MaxFaults /\ faults' >= faults
      /\ tasks' = tasks \ {Current(n)} \/ (tasks' = tasks /\ faults' = faults + 1)
  BY <1>1, TaskAssumption DEF Fault, Base, Types
<1> QED
  BY <1>1, <1>2, <1>3, Continues DEF OnlyLoop

LEMMA UnlockDoes ==
  ASSUME Base, NEW n \in Node, Unlock(n)
  PROVE  /\ OnlyLoop(n) /\ loop[n].pc = "lock" /\ loop[n].entries = <<>>
         /\ loop'[n].pc = "wait" /\ loop'[n].entries = <<>> /\ loop'[n].unlock = {}
         /\ locks' = [k \in LockKeys |-> IF k \in loop[n].unlock THEN 0 ELSE locks[k]]
         /\ UNCHANGED <<now, email, terms, tasks, seq, plock, permit, purge, reindex, trained, faults>>
<1>1. /\ loop[n].pc = "lock" /\ loop[n].entries = <<>>
      /\ locks' = [k \in LockKeys |-> IF k \in loop[n].unlock THEN 0 ELSE locks[k]]
      /\ loop' = [loop EXCEPT ![n].pc = "wait", ![n].unlock = {}, ![n].skip = StillSkipped(n)]
      /\ UNCHANGED <<now, email, terms, tasks, seq, plock, permit, purge, reindex, trained, faults>>
  BY Zenon DEF Unlock, store
<1>2. loop \in [Node -> LoopType] /\ loop[n] \in LoopType /\ Horizon \in Nat
  BY TaskAssumption DEF Base, Types
<1>3. StillSkipped(n) \in [1..MaxSeq -> 0..Horizon]
  <2> DEFINE k == loop[n].skip
  <2>1. k \in [1..MaxSeq -> 0..Horizon]
    BY <1>2, LoopParts
  <2>2. StillSkipped(n) = [s \in 1..MaxSeq |-> IF k[s] > now THEN k[s] ELSE 0]
    BY DEF StillSkipped
  <2> HIDE DEF k
  <2>3. 0 \in 0..Horizon
    BY <1>2
  <2> QED
    BY <2>1, <2>2, <2>3
<1>4. /\ loop' \in [Node -> LoopType] /\ \A m \in Node : m # n => loop'[m] = loop[m]
      /\ loop'[n].pc = "wait" /\ loop'[n].entries = loop[n].entries /\ loop'[n].unlock = {}
  BY <1>1, <1>2, <1>3, Rests
<1> QED
  BY <1>1, <1>4 DEF OnlyLoop

LEMMA CrashDoes ==
  ASSUME Base, NEW n \in Node, Crash(n)
  PROVE  /\ OnlyLoop(n) /\ loop'[n].pc = "wait" /\ loop'[n].entries = <<>> /\ loop'[n].unlock = {}
         /\ purge' = [purge EXCEPT ![n] = IdlePurge]
         /\ UNCHANGED <<now, email, terms, tasks, seq, locks, plock, reindex, trained>>
         /\ permit' \in [Node -> BOOLEAN] /\ faults' \in 0..MaxFaults /\ faults' = faults + 1
<1>1. /\ Fault("crash") /\ loop' = [loop EXCEPT ![n] = IdleLoop] /\ permit' = [permit EXCEPT ![n] = TRUE]
      /\ purge' = [purge EXCEPT ![n] = IdlePurge]
      /\ UNCHANGED <<now, email, terms, tasks, seq, locks, plock, reindex, trained>>
  BY DEF Crash, store, clocks
<1>2. IdleLoop \in LoopType /\ IdleLoop.pc = "wait" /\ IdleLoop.entries = <<>> /\ IdleLoop.unlock = {}
  BY TaskAssumption DEF IdleLoop, LoopType
<1>3. loop \in [Node -> LoopType] /\ permit \in [Node -> BOOLEAN]
  BY DEF Base, Types
<1>4. /\ loop' \in [Node -> LoopType] /\ loop'[n] = IdleLoop /\ \A m \in Node : m # n => loop'[m] = loop[m]
  BY <1>1, <1>2, <1>3, OneLoop
<1>5. faults' \in 0..MaxFaults /\ faults' = faults + 1
  BY <1>1, TaskAssumption DEF Fault, Base, Types
<1> QED
  BY <1>1, <1>2, <1>3, <1>4, <1>5 DEF OnlyLoop

\* Terms are added.
LEMMA MoreTerms ==
  ASSUME terms \in [Doc -> SUBSET Hash], NEW t, t.hash \in Hash
  PROVE  /\ FtsIndex(t) \in [Doc -> SUBSET Hash]
         /\ \A d \in Doc : FtsIndex(t)[d] = IF d = t.doc THEN terms[d] \cup {t.hash} ELSE terms[d]
  BY DEF FtsIndex

\* A step of the loop of node n keeps the types and the numbers.
LEMMA BaseLoop ==
  ASSUME Base, NEW n \in Node, OnlyLoop(n), ToSet(loop'[n].entries) \subseteq Known,
         loop'[n].pc \in {"read", "apply", "clear"} => loop'[n].entries # <<>>,
         tasks' \subseteq tasks, UNCHANGED <<now, email, seq, plock, reindex>>,
         terms' \in [Doc -> SUBSET Hash], locks' \in [LockKeys -> 0..Horizon],
         permit' \in [Node -> BOOLEAN], purge' \in [Node -> PurgeType],
         trained' \in [1..MaxSeq -> 0..2], faults' \in 0..MaxFaults
  PROVE  Base'
<1>1. Numbered'
  BY KnowLess DEF Base, OnlyLoop
<1>2. Types'
  BY DEF Base, Types, OnlyLoop
<1> QED
  BY <1>1, <1>2 DEF Base

LEMMA BaseScan ==
  ASSUME Base, NEW n \in Node, Scan(n)
  PROVE  Base'
<1>1. /\ OnlyLoop(n) /\ loop'[n].pc = "lock" /\ ToSet(loop'[n].entries) \subseteq tasks
      /\ UNCHANGED <<now, email, terms, tasks, seq, locks, plock, purge, reindex, trained>>
      /\ permit' \in [Node -> BOOLEAN] /\ faults' \in 0..MaxFaults
  BY ScanDoes
<1>2. ToSet(loop'[n].entries) \subseteq Known
  BY <1>1 DEF Known
<1> QED
  BY <1>1, <1>2, BaseLoop DEF Base, Types

LEMMA BaseTryLock ==
  ASSUME Base, NEW n \in Node, TryLock(n)
  PROVE  Base'
<1>1. /\ OnlyLoop(n) /\ loop[n].entries # <<>> /\ Current(n) \in Task
      /\ UNCHANGED <<now, email, terms, tasks, seq, plock, permit, purge, reindex, trained>>
      /\ faults' \in 0..MaxFaults
      /\ \/ /\ locks' = [locks EXCEPT ![LockKey(Current(n))] = At(now + LockExpiry(Current(n)))]
            /\ loop'[n].entries = loop[n].entries
         \/ locks' = locks /\ loop'[n].pc = "lock" /\ loop'[n].entries = Tail(loop[n].entries)
  BY TryLockDoes
<1>2. ToSet(loop[n].entries) \subseteq Known /\ ToSet(Tail(loop[n].entries)) \subseteq ToSet(loop[n].entries)
  BY <1>1, KnownTasks, Entries DEF Base
<1>3. At(now + LockExpiry(Current(n))) \in 0..Horizon
  <2>1. now \in Nat /\ LockExpiry(Current(n)) \in Nat
    BY <1>1, LockFacts, TaskAssumption DEF Base, Types
  <2>2. now + LockExpiry(Current(n)) \in Nat
    BY <2>1
  <2> QED
    BY <2>2, LockFacts
<1>4. locks' \in [LockKeys -> 0..Horizon]
  BY <1>1, <1>3 DEF Base, Types
<1> QED
  BY <1>1, <1>2, <1>4, BaseLoop DEF Base, Types

LEMMA BaseRead ==
  ASSUME Base, NEW n \in Node, Read(n)
  PROVE  Base'
<1>1. /\ OnlyLoop(n) /\ loop[n].pc = "read"
      /\ UNCHANGED <<now, email, terms, tasks, seq, locks, plock, permit, purge, reindex, trained>>
      /\ faults' \in 0..MaxFaults
      /\ \/ loop'[n].entries = loop[n].entries
         \/ loop'[n].pc = "lock" /\ loop'[n].entries = Tail(loop[n].entries)
  BY ReadDoes
<1>2. loop[n].entries # <<>> /\ Busy(n)
  BY <1>1 DEF Base, Numbered, Busy
<1>3. ToSet(loop[n].entries) \subseteq Known /\ ToSet(Tail(loop[n].entries)) \subseteq ToSet(loop[n].entries)
  BY <1>2, AtTask, KnownTasks DEF Base
<1> QED
  BY <1>1, <1>2, <1>3, BaseLoop DEF Base, Types

LEMMA BaseApply ==
  ASSUME Base, NEW n \in Node, Apply(n)
  PROVE  Base'
<1>1. /\ OnlyLoop(n) /\ loop[n].pc = "apply"
      /\ UNCHANGED <<now, email, tasks, seq, locks, plock, permit, purge, reindex>>
      /\ faults' \in 0..MaxFaults
      /\ \/ loop'[n].entries = loop[n].entries
         \/ loop'[n].pc = "lock" /\ loop'[n].entries = Tail(loop[n].entries)
      /\ terms' \in {terms, FtsIndex(Current(n))}
      /\ trained' = trained \/ Trained(Current(n))
  BY ApplyDoes
<1>2. loop[n].entries # <<>> /\ Busy(n)
  BY <1>1 DEF Base, Numbered, Busy
<1>3. /\ ToSet(loop[n].entries) \subseteq Known /\ ToSet(Tail(loop[n].entries)) \subseteq ToSet(loop[n].entries)
      /\ Current(n).hash \in Hash
  BY <1>2, AtTask, KnownTasks DEF Base, Task
<1>4. terms' \in [Doc -> SUBSET Hash]
  BY <1>1, <1>3, MoreTerms DEF Base, Types
<1>5. trained' \in [1..MaxSeq -> 0..2]
  BY <1>1 DEF Trained, Base, Types
<1> QED
  BY <1>1, <1>2, <1>3, <1>4, <1>5, BaseLoop DEF Base, Types

LEMMA BaseClear ==
  ASSUME Base, NEW n \in Node, Clear(n)
  PROVE  Base'
<1>1. /\ OnlyLoop(n) /\ loop[n].pc = "clear" /\ loop'[n].pc = "lock" /\ loop'[n].entries = Tail(loop[n].entries)
      /\ UNCHANGED <<now, email, terms, seq, locks, plock, permit, purge, reindex, trained>>
      /\ faults' \in 0..MaxFaults /\ tasks' \subseteq tasks
  BY ClearDoes
<1>2. Busy(n)
  BY <1>1 DEF Busy
<1>3. ToSet(loop[n].entries) \subseteq Known /\ ToSet(Tail(loop[n].entries)) \subseteq ToSet(loop[n].entries)
  BY <1>2, AtTask, KnownTasks DEF Base
<1> QED
  BY <1>1, <1>3, BaseLoop DEF Base, Types

LEMMA BaseUnlock ==
  ASSUME Base, NEW n \in Node, Unlock(n)
  PROVE  Base'
<1>1. /\ OnlyLoop(n) /\ loop'[n].pc = "wait" /\ loop'[n].entries = <<>>
      /\ locks' = [k \in LockKeys |-> IF k \in loop[n].unlock THEN 0 ELSE locks[k]]
      /\ UNCHANGED <<now, email, terms, tasks, seq, plock, permit, purge, reindex, trained, faults>>
  BY UnlockDoes
<1>2. locks' \in [LockKeys -> 0..Horizon]
  BY <1>1, TaskAssumption DEF Base, Types
<1> QED
  BY <1>1, <1>2, NoEntries, BaseLoop DEF Base, Types

LEMMA BaseCrash ==
  ASSUME Base, NEW n \in Node, Crash(n)
  PROVE  Base'
<1>1. /\ OnlyLoop(n) /\ loop'[n].pc = "wait" /\ loop'[n].entries = <<>>
      /\ purge' = [purge EXCEPT ![n] = IdlePurge]
      /\ UNCHANGED <<now, email, terms, tasks, seq, locks, plock, reindex, trained>>
      /\ permit' \in [Node -> BOOLEAN] /\ faults' \in 0..MaxFaults
  BY CrashDoes
<1>2. purge' \in [Node -> PurgeType]
  BY <1>1 DEF Base, Types, PurgeType, IdlePurge
<1> QED
  BY <1>1, <1>2, NoEntries, BaseLoop DEF Base, Types

-------------------------------------------------------------------------------
(* The steps of a purge. *)

\* The messages that are too old get a tombstone, and no other changes.
LEMMA Expunged ==
  ASSUME Base, AutoExpunge
  PROVE  /\ email' \in [Doc -> Email \cup {NoEmail}]
         /\ \A d \in Doc : \/ email'[d] = email[d]
                           \/ Live(d) /\ email'[d].tomb /\ email'[d].hash = email[d].hash /\ email'[d] # NoEmail
<1>1. PICK old \in SUBSET {d \in Doc : Live(d)} :
        email' = [d \in Doc |-> IF d \in old THEN [email[d] EXCEPT !.tomb = TRUE] ELSE email[d]]
  BY DEF AutoExpunge
<1>2. \A d \in Doc : email[d] \in Email \cup {NoEmail}
  BY DEF Base, Types
<1>3. \A d \in old : email[d] \in Email
  BY <1>2 DEF Live
<1>4. \A e \in Email : [e EXCEPT !.tomb = TRUE] \in Email
                       /\ [e EXCEPT !.tomb = TRUE].tomb /\ [e EXCEPT !.tomb = TRUE].hash = e.hash
  BY DEF Email
<1>5. \A d \in Doc : email'[d] \in Email \cup {NoEmail}
  BY <1>1, <1>2, <1>3, <1>4
<1>6. \A d \in Doc : d \notin old => email'[d] = email[d]
  BY <1>1
<1>7. \A d \in old : d \in Doc /\ Live(d) /\ email'[d] = [email[d] EXCEPT !.tomb = TRUE]
  BY <1>1
<1>8. \A d \in old : Live(d) /\ email'[d].tomb /\ email'[d].hash = email[d].hash
  BY <1>3, <1>4, <1>7
<1>9. email' \in [Doc -> Email \cup {NoEmail}]
  BY <1>1, <1>5
<1>10. \A d \in old : email'[d] # NoEmail
  <2>1. NoEmail \notin Email
    BY TaskAssumption DEF Email
  <2> QED
    BY <2>1, <1>3, <1>4, <1>7
<1> QED
  BY <1>6, <1>8, <1>9, <1>10

LEMMA BaseStartPurge ==
  ASSUME Base, NEW n \in Node, StartPurge(n)
  PROVE  Base'
<1>1. email' \in [Doc -> Email \cup {NoEmail}]
  BY Expunged DEF StartPurge
<1>2. plock' \in 0..Horizon
  <2>1. now + PurgeExpiry \in Nat
    BY TaskAssumption DEF Base, Types
  <2> QED
    BY <2>1, LockFacts DEF StartPurge
<1>3. purge' \in [Node -> PurgeType]
  BY DEF StartPurge, Base, Types, PurgeType
<1>4. UNCHANGED <<terms, tasks, seq, now, locks, permit, loop, reindex, trained, faults>>
  BY DEF StartPurge
<1>5. Types'
  BY <1>1, <1>2, <1>3, <1>4 DEF Base, Types
<1> QED
  BY <1>4, <1>5, BaseRest

LEMMA BaseRemoveTerms ==
  ASSUME Base, NEW n \in Node, RemoveTerms(n)
  PROVE  Base'
<1>1. terms' \in [Doc -> SUBSET Hash]
  BY DEF RemoveTerms, FtsRemove, Base, Types
<1>2. [pc |-> "delete", ids |-> Tombstoned] \in PurgeType
  BY DEF PurgeType, Tombstoned
<1>3. purge' \in [Node -> PurgeType]
  BY <1>2 DEF RemoveTerms, Base, Types
<1>4. UNCHANGED <<email, tasks, seq, now, locks, plock, permit, loop, reindex, trained, faults>>
  BY DEF RemoveTerms, clocks
<1>5. Types'
  BY <1>1, <1>3, <1>4 DEF Base, Types
<1> QED
  BY <1>4, <1>5, BaseRest

LEMMA BaseDeleteDocument ==
  ASSUME Base, NEW n \in Node, NEW d \in Doc, DeleteDocument(n, d)
  PROVE  Base'
<1>1. email' \in [Doc -> Email \cup {NoEmail}]
  BY DEF DeleteDocument, Base, Types
<1>2. purge' \in [Node -> PurgeType]
  BY DEF DeleteDocument, Base, Types, PurgeType
<1>3. UNCHANGED <<terms, tasks, seq, now, locks, plock, permit, loop, reindex, trained, faults>>
  BY DEF DeleteDocument, clocks
<1>4. Types'
  BY <1>1, <1>2, <1>3 DEF Base, Types
<1> QED
  BY <1>3, <1>4, BaseRest

LEMMA BaseAbandonPurge ==
  ASSUME Base, NEW n \in Node, AbandonPurge(n)
  PROVE  Base'
<1>1. faults' \in 0..MaxFaults
  BY TaskAssumption DEF AbandonPurge, Fault, Base, Types
<1>2. [pc |-> "end", ids |-> {}] \in PurgeType
  BY DEF PurgeType
<1>3. purge' \in [Node -> PurgeType]
  BY <1>2 DEF AbandonPurge, Base, Types
<1>4. UNCHANGED <<email, terms, tasks, seq, now, locks, plock, permit, loop, reindex, trained>>
  BY DEF AbandonPurge, store, clocks
<1>5. Types'
  BY <1>1, <1>3, <1>4 DEF Base, Types
<1> QED
  BY <1>4, <1>5, BaseRest

LEMMA BaseEndPurge ==
  ASSUME Base, NEW n \in Node, EndPurge(n)
  PROVE  Base'
<1>1. IdlePurge \in PurgeType /\ plock' = 0 /\ 0 \in 0..Horizon
  BY TaskAssumption DEF PurgeType, IdlePurge, EndPurge
<1>2. purge' \in [Node -> PurgeType]
  BY <1>1 DEF EndPurge, Base, Types
<1>3. UNCHANGED <<email, terms, tasks, seq, now, locks, permit, loop, reindex, trained, faults>>
  BY DEF EndPurge, store
<1>4. Types'
  BY <1>1, <1>2, <1>3 DEF Base, Types
<1> QED
  BY <1>3, <1>4, BaseRest

LEMMA BaseStep ==
  ASSUME Base, [Next]_vars
  PROVE  Base'
<1>1. ASSUME NEW n \in Node, Request(n) PROVE Base'
  BY <1>1, BaseIngest, BaseTrain, BaseQueueIndexing, BaseOtherNews DEF Request
<1>2. ASSUME NEW n \in Node, Loop(n) PROVE Base'
  BY <1>2, BaseScan, BaseTryLock, BaseRead, BaseApply, BaseClear, BaseUnlock DEF Loop
<1>3. ASSUME NEW n \in Node, Purge(n) PROVE Base'
  BY <1>3, BaseStartPurge, BaseRemoveTerms, BaseAbandonPurge, BaseEndPurge, BaseDeleteDocument DEF Purge
<1>4. CASE UNCHANGED vars
  <2>1. UNCHANGED <<now, email, terms, tasks, seq, locks, plock, permit, loop, purge, reindex, trained, faults>>
    BY <1>4 DEF vars
  <2>2. Types'
    BY <2>1 DEF Base, Types
  <2> QED
    BY <2>1, <2>2, BaseRest
<1> QED
  BY <1>1, <1>2, <1>3, <1>4, BaseCrash, BaseTombstone, BaseCollectLinks, BaseTick DEF Next

LEMMA BaseInit ==
  ASSUME Init
  PROVE  Base
<1>1. MaxSeq \in Nat /\ Horizon \in Nat /\ MaxTime \in Nat /\ MaxFaults \in Nat
  BY TaskAssumption
<1>2. IdleLoop \in LoopType /\ IdlePurge \in PurgeType /\ IdleLoop.entries = <<>> /\ IdleLoop.pc = "wait"
  BY <1>1 DEF IdleLoop, IdlePurge, LoopType, PurgeType
<1>3. Types
  BY <1>1, <1>2 DEF Init, Types
<1>4. \A n \in Node : loop[n] = IdleLoop
  BY DEF Init
<1>5. Known = {}
  BY <1>2, <1>4, NoEntries DEF Known, Init
<1>6. Numbered
  BY <1>2, <1>4, <1>5 DEF Numbered, Busy, Init
<1> QED
  BY <1>3, <1>6 DEF Base

-------------------------------------------------------------------------------
(* What most steps leave as it was. *)

\* No message comes or goes, though some get a tombstone; no term and no task goes, no
\* purge has more to delete, and nobody gets to apply or clear a task.
Quiet ==
    /\ \A d \in Doc : \/ email'[d] = email[d]
                      \/ Live(d) /\ email'[d].tomb /\ email'[d].hash = email[d].hash /\ email'[d] # NoEmail
    /\ terms' = terms /\ tasks \subseteq tasks'
    /\ \A m \in Node : purge'[m].ids \subseteq purge[m].ids
    /\ \A m \in Node : loop'[m].pc \in {"apply", "clear"} => loop'[m] = loop[m]

LEMMA QuietRequest ==
  ASSUME Base, NEW n \in Node, QueueIndexing(n) \/ OtherNews(n) \/ \E d \in Doc : Train(n, d)
  PROVE  Quiet
  BY Zenon DEF QueueIndexing, OtherNews, Train, store, Quiet

LEMMA QuietLoop ==
  ASSUME Base, NEW n \in Node, Scan(n) \/ TryLock(n) \/ Unlock(n)
  PROVE  Quiet
<1>1. CASE Scan(n)
  <2>1. OnlyLoop(n) /\ loop'[n].pc = "lock" /\ UNCHANGED <<email, terms, tasks, purge>>
    BY <1>1, ScanDoes
  <2> QED
    BY <2>1 DEF Quiet, OnlyLoop
<1>2. CASE TryLock(n)
  <2>1. OnlyLoop(n) /\ loop'[n].pc \in {"lock", "read"} /\ UNCHANGED <<email, terms, tasks, purge>>
    BY <1>2, TryLockDoes
  <2> QED
    BY <2>1 DEF Quiet, OnlyLoop
<1>3. CASE Unlock(n)
  <2>1. OnlyLoop(n) /\ loop'[n].pc = "wait" /\ UNCHANGED <<email, terms, tasks, purge>>
    BY <1>3, UnlockDoes
  <2> QED
    BY <2>1 DEF Quiet, OnlyLoop
<1> QED
  BY <1>1, <1>2, <1>3

\* The parts of a purge.
LEMMA OnePurge ==
  ASSUME purge \in [Node -> PurgeType], NEW n \in Node, NEW p \in PurgeType, purge' = [purge EXCEPT ![n] = p]
  PROVE  purge'[n] = p /\ \A m \in Node : m # n => purge'[m] = purge[m]
  OBVIOUS

LEMMA QuietPurge ==
  ASSUME Base, NEW n \in Node, StartPurge(n) \/ AbandonPurge(n) \/ EndPurge(n) \/ Crash(n)
  PROVE  Quiet
<1>0. purge \in [Node -> PurgeType] /\ purge[n] \in PurgeType
  BY DEF Base, Types
<1>1. CASE StartPurge(n)
  <2> DEFINE p == [purge[n] EXCEPT !.pc = "terms"]
  <2>1. p \in PurgeType /\ p.ids = purge[n].ids
    BY <1>0 DEF PurgeType
  <2>2. purge' = [purge EXCEPT ![n] = p]
    BY <1>1, <1>0 DEF StartPurge
  <2> HIDE DEF p
  <2>3. \A m \in Node : purge'[m].ids \subseteq purge[m].ids
    BY <2>1, <2>2, <1>0, OnePurge
  <2> QED
    BY <2>3, <1>1, Expunged DEF StartPurge, Quiet
<1>2. CASE AbandonPurge(n)
  <2> DEFINE p == [pc |-> "end", ids |-> {}]
  <2>1. p \in PurgeType /\ p.ids = {}
    BY DEF PurgeType
  <2>2. purge' = [purge EXCEPT ![n] = p]
    BY <1>2 DEF AbandonPurge
  <2> HIDE DEF p
  <2>3. \A m \in Node : purge'[m].ids \subseteq purge[m].ids
    BY <2>1, <2>2, <1>0, OnePurge
  <2> QED
    BY <2>3, <1>2 DEF AbandonPurge, store, Quiet
<1>3. IdlePurge \in PurgeType /\ IdlePurge.ids = {}
  BY DEF PurgeType, IdlePurge
<1>4. CASE EndPurge(n)
  <2>1. \A m \in Node : purge'[m].ids \subseteq purge[m].ids
    BY <1>3, <1>4, <1>0, OnePurge DEF EndPurge
  <2> QED
    BY <2>1, <1>4 DEF EndPurge, store, Quiet
<1>5. CASE Crash(n)
  <2>1. /\ OnlyLoop(n) /\ loop'[n].pc = "wait" /\ purge' = [purge EXCEPT ![n] = IdlePurge]
        /\ UNCHANGED <<email, terms, tasks>>
    BY <1>5, CrashDoes
  <2>2. \A m \in Node : purge'[m].ids \subseteq purge[m].ids
    BY <2>1, <1>3, <1>0, OnePurge
  <2> QED
    BY <2>1, <2>2 DEF Quiet, OnlyLoop
<1> QED
  BY <1>1, <1>2, <1>4, <1>5

LEMMA QuietRest ==
  ASSUME Base, CollectLinks \/ Tick \/ UNCHANGED vars \/ \E d \in Doc : Tombstone(d)
  PROVE  Quiet
<1>1. CASE CollectLinks \/ Tick \/ UNCHANGED vars
  BY <1>1, Zenon DEF CollectLinks, Tick, vars, store, Quiet
<1>2. ASSUME NEW d \in Doc, Tombstone(d)
      PROVE  Quiet
  <2> DEFINE e == [email[d] EXCEPT !.tomb = TRUE]
  <2>1. email[d] \in Email /\ Live(d) /\ NoEmail \notin Email
    BY <1>2, TaskAssumption DEF Tombstone, Live, Base, Types, Email
  <2>2. e \in Email /\ e.tomb /\ e.hash = email[d].hash
    BY <2>1 DEF Email
  <2>3. email' = [email EXCEPT ![d] = e] /\ UNCHANGED <<terms, tasks, loop, purge>>
    BY <1>2 DEF Tombstone
  <2> HIDE DEF e
  <2>4. email'[d] = e /\ \A x \in Doc : x # d => email'[x] = email[x]
    BY <2>3 DEF Base, Types
  <2> QED
    BY <2>1, <2>2, <2>3, <2>4 DEF Quiet
<1> QED
  BY <1>1, <1>2

\* The steps that are not quiet.
LEMMA QuietOrNot ==
  ASSUME Base, [Next]_vars
  PROVE  \/ Quiet
         \/ \E n \in Node : \/ Read(n) \/ Apply(n) \/ Clear(n) \/ RemoveTerms(n)
                            \/ \E d \in Doc : DeleteDocument(n, d)
                            \/ \E d \in Doc, h \in Hash, train \in BOOLEAN : Ingest(n, d, h, train)
<1>1. ASSUME NEW n \in Node, Request(n)
      PROVE  Quiet \/ \E d \in Doc, h \in Hash, train \in BOOLEAN : Ingest(n, d, h, train)
  BY <1>1, QuietRequest DEF Request
<1>2. ASSUME NEW n \in Node, Loop(n)
      PROVE  Quiet \/ Read(n) \/ Apply(n) \/ Clear(n)
  BY <1>2, QuietLoop DEF Loop
<1>3. ASSUME NEW n \in Node, Purge(n)
      PROVE  Quiet \/ RemoveTerms(n) \/ \E d \in Doc : DeleteDocument(n, d)
  BY <1>3, QuietPurge DEF Purge
<1> QED
  BY <1>1, <1>2, <1>3, QuietPurge, QuietRest DEF Next

-------------------------------------------------------------------------------
(* No message is forgotten by the indexer. *)

\* A task that was queued after t and does the same is still queued.
Later(t) == \E u \in tasks : u.action = "index" /\ u.doc = t.doc /\ u.hash = t.hash /\ u.seq > t.seq

\* The message of task t is still there.
Matters(t) == Live(t.doc) /\ email[t.doc].hash = t.hash

\* A task that is about to be cleared has been done, or will be by a later one.
Clearable(n) ==
    loop[n].pc = "clear" /\ Current(n).action = "index" /\ Matters(Current(n)) =>
        Current(n).hash \in terms[Current(n).doc] \/ Later(Current(n))

Kept == NeverForgotten /\ \A n \in Node : Clearable(n)

\* The tasks that nodes are about to clear are tasks of documents.
LEMMA AtClear ==
  ASSUME Base, NEW n \in Node, loop[n].pc \in {"apply", "clear"}
  PROVE  /\ Current(n) \in Task /\ Current(n).doc \in Doc /\ Current(n).hash \in Hash /\ Current(n).seq \in Nat
         /\ Current(n) \in Known /\ Current(n) \in ToSet(loop[n].entries)
<1>1. Current(n) \in Task /\ Current(n) \in Known /\ Current(n) \in ToSet(loop[n].entries)
  BY AtTask DEF Busy
<1> QED
  BY <1>1 DEF Task

LEMMA KeptQuiet ==
  ASSUME Base, Kept, Quiet
  PROVE  Kept'
<1>1. \A d \in Doc : Live(d)' => Live(d) /\ email'[d].hash = email[d].hash
  BY DEF Live, Quiet
<1>2. terms' = terms /\ tasks \subseteq tasks'
  BY DEF Quiet
<1>3. NeverForgotten'
  BY <1>1, <1>2 DEF Kept, NeverForgotten
<1>4. ASSUME NEW n \in Node
      PROVE  Clearable(n)'
  <2> SUFFICES ASSUME loop'[n].pc = "clear", Current(n)'.action = "index", Matters(Current(n))'
               PROVE  (Current(n).hash \in terms[Current(n).doc])' \/ Later(Current(n))'
    BY DEF Clearable
  <2>1. loop'[n] = loop[n] /\ Current(n)' = Current(n)
    BY DEF Quiet, Current
  <2>2. Current(n).doc \in Doc /\ loop[n].pc = "clear" /\ Current(n).action = "index"
    BY <2>1, AtClear
  <2>3. Matters(Current(n))
    BY <2>1, <2>2, <1>1 DEF Matters
  <2>4. Current(n).hash \in terms[Current(n).doc] \/ Later(Current(n))
    BY <2>2, <2>3 DEF Kept, Clearable
  <2> QED
    BY <2>1, <2>4, <1>2 DEF Later
<1> QED
  BY <1>3, <1>4 DEF Kept

\* A new message is to be indexed.
LEMMA KeptIngest ==
  ASSUME Base, Kept, NEW n \in Node, NEW d \in Doc, NEW h \in Hash, NEW train \in BOOLEAN,
         Ingest(n, d, h, train)
  PROVE  Kept'
<1> DEFINE t == [seq |-> seq + 1, doc |-> d, hash |-> h, action |-> "index"]
           e == [hash |-> h, tomb |-> FALSE]
<1>1. t \in tasks' /\ tasks \subseteq tasks' /\ terms' = terms /\ loop' = loop /\ email[d] = NoEmail
  BY DEF Ingest
<1>2. t.seq = seq + 1 /\ t.doc = d /\ t.hash = h /\ t.action = "index" /\ e.hash = h
  OBVIOUS
<1>3. email' = [email EXCEPT ![d] = e]
  BY DEF Ingest
<1> HIDE DEF t, e
<1>4. email'[d] = e /\ \A x \in Doc : x # d => email'[x] = email[x]
  BY <1>3 DEF Base, Types
<1>5. NeverForgotten'
  <2> SUFFICES ASSUME NEW x \in Doc, Live(x)', (email[x].hash \notin terms[x])'
               PROVE  \E u \in tasks' : u.action = "index" /\ u.doc = x /\ u.hash = email'[x].hash
    BY DEF NeverForgotten
  <2>1. CASE x = d
    BY <2>1, <1>1, <1>2, <1>4
  <2>2. CASE x # d
    <3>1. email'[x] = email[x] /\ Live(x)
      BY <2>2, <1>4 DEF Live
    <3> QED
      BY <3>1, <1>1 DEF Kept, NeverForgotten
  <2> QED
    BY <2>1, <2>2
<1>6. ASSUME NEW m \in Node
      PROVE  Clearable(m)'
  <2> SUFFICES ASSUME loop[m].pc = "clear", Current(m).action = "index", Matters(Current(m))'
               PROVE  Current(m).hash \in terms[Current(m).doc] \/ Later(Current(m))'
    <3>1. Current(m)' = Current(m)
      BY <1>1 DEF Current
    <3> QED
      BY <3>1, <1>1 DEF Clearable
  <2> DEFINE c == Current(m)
  <2>1. c \in Known /\ c.doc \in Doc /\ c.seq \in Nat
    BY AtClear
  <2>2. Current(m)' = c
    BY <1>1 DEF Current
  <2>3. Live(c.doc)' /\ email'[c.doc].hash = c.hash
    BY <2>2 DEF Matters
  <2>4. CASE c.doc = d
    <3>1. c.seq <= seq /\ seq \in Nat
      BY <2>1 DEF Base, Numbered, Types
    <3>2. c.hash = h
      BY <2>3, <2>4, <1>2, <1>4
    <3>3. t.seq > c.seq
      BY <3>1, <2>1, <1>2
    <3>4. \E u \in tasks' : u.action = "index" /\ u.doc = c.doc /\ u.hash = c.hash /\ u.seq > c.seq
      BY <3>2, <3>3, <2>4, <1>1, <1>2
    <3> QED
      BY <3>4, <2>2 DEF Later
  <2>5. CASE c.doc # d
    <3>1. email'[c.doc] = email[c.doc]
      BY <2>1, <2>5, <1>4
    <3>2. Matters(c)
      BY <3>1, <2>2, <2>3 DEF Matters, Live
    <3>3. c.hash \in terms[c.doc] \/ Later(c)
      BY <3>2 DEF Kept, Clearable
    <3> QED
      BY <3>3, <2>2, <1>1 DEF Later
  <2> QED
    BY <2>4, <2>5
<1> QED
  BY <1>5, <1>6 DEF Kept

\* A task whose message is gone has ended.
LEMMA KeptRead ==
  ASSUME Base, Kept, NEW n \in Node, Read(n)
  PROVE  Kept'
<1>1. /\ OnlyLoop(n) /\ UNCHANGED <<email, terms, tasks>>
      /\ \/ /\ loop'[n].entries = loop[n].entries
            /\ loop'[n].pc = IF email[Current(n).doc] # NoEmail /\ email[Current(n).doc].hash = Current(n).hash
                             THEN "apply" ELSE "clear"
         \/ loop'[n].pc = "lock"
  BY ReadDoes
<1>2. NeverForgotten'
  BY <1>1 DEF Kept, NeverForgotten, Live
<1>3. Clearable(n)'
  <2>1. CASE loop'[n].pc = "clear"
    <3>1. Current(n)' = Current(n)
      BY <2>1, <1>1 DEF Current
    <3>2. ~Matters(Current(n))'
      BY <2>1, <3>1, <1>1 DEF Matters, Live
    <3> QED
      BY <3>2 DEF Clearable
  <2> QED
    BY <2>1 DEF Clearable
<1>4. \A m \in Node : m # n => (Clearable(m) <=> Clearable(m)')
  BY <1>1 DEF OnlyLoop, Clearable, Matters, Live, Later, Current
<1> QED
  BY <1>2, <1>3, <1>4 DEF Kept

\* Terms are written before the task is cleared.
LEMMA KeptApply ==
  ASSUME Base, Kept, NEW n \in Node, Apply(n)
  PROVE  Kept'
<1> DEFINE t == Current(n)
<1>1. /\ OnlyLoop(n) /\ loop[n].pc = "apply" /\ UNCHANGED <<email, tasks>>
      /\ \/ t.action = "train" /\ loop'[n].pc = "clear" /\ loop'[n].entries = loop[n].entries /\ terms' = terms
         \/ t.action = "index" /\ loop'[n].entries = loop[n].entries /\ terms' = FtsIndex(t)
         \/ loop'[n].pc = "lock" /\ terms' \in {terms, FtsIndex(t)}
  BY ApplyDoes
<1>2. t.doc \in Doc /\ t.hash \in Hash
  BY <1>1, AtClear
<1>3. terms \in [Doc -> SUBSET Hash]
  BY DEF Base, Types
<1>4. /\ \A d \in Doc : terms[d] \subseteq terms'[d]
      /\ terms' = FtsIndex(t) => t.hash \in terms'[t.doc]
  <2>1. terms' = terms \/ terms' = FtsIndex(t)
    BY <1>1
  <2> HIDE DEF t
  <2>2. \A d \in Doc : FtsIndex(t)[d] = IF d = t.doc THEN terms[d] \cup {t.hash} ELSE terms[d]
    BY <1>2, <1>3, MoreTerms
  <2> QED
    BY <2>1, <2>2, <1>2
<1>5. NeverForgotten'
  BY <1>1, <1>4 DEF Kept, NeverForgotten, Live
<1>6. Clearable(n)'
  <2> SUFFICES ASSUME loop'[n].pc = "clear", Current(n)'.action = "index"
               PROVE  (Current(n).hash \in terms[Current(n).doc])'
    BY DEF Clearable
  <2>1. Current(n)' = t
    BY <1>1 DEF Current
  <2> QED
    BY <2>1, <1>1, <1>4
<1>7. ASSUME NEW m \in Node, m # n
      PROVE  Clearable(m)'
  <2> SUFFICES ASSUME loop'[m].pc = "clear", Current(m)'.action = "index", Matters(Current(m))'
               PROVE  (Current(m).hash \in terms[Current(m).doc])' \/ Later(Current(m))'
    BY DEF Clearable
  <2>1. loop'[m] = loop[m] /\ Current(m)' = Current(m)
    BY <1>1, <1>7 DEF OnlyLoop, Current
  <2>2. Current(m).doc \in Doc /\ Matters(Current(m))
    BY <2>1, <1>1, AtClear DEF Matters, Live
  <2>3. Current(m).hash \in terms[Current(m).doc] \/ Later(Current(m))
    BY <2>1, <2>2 DEF Kept, Clearable
  <2> QED
    BY <2>1, <2>2, <2>3, <1>1, <1>4 DEF Later
<1> QED
  BY <1>5, <1>6, <1>7 DEF Kept

\* When the task of a message that is not in the index is cleared, a later one is queued.
LEMMA KeptClear ==
  ASSUME Base, Kept, NEW n \in Node, Clear(n)
  PROVE  Kept'
<1> DEFINE t == Current(n)
<1>1. /\ OnlyLoop(n) /\ loop[n].pc = "clear" /\ loop'[n].pc = "lock" /\ UNCHANGED <<email, terms>>
      /\ tasks' = tasks \ {t} \/ tasks' = tasks
  BY ClearDoes
<1>2. t \in Task /\ t.doc \in Doc /\ t.seq \in Nat
  BY <1>1, AtClear
<1>3. \A u \in tasks : u.seq \in Nat
  BY DEF Base, Types, Task
<1> HIDE DEF t
<1>4. ASSUME t.action = "index", Matters(t), t.hash \notin terms[t.doc]
      PROVE  \E u \in tasks' : u.action = "index" /\ u.doc = t.doc /\ u.hash = t.hash /\ u.seq > t.seq
  <2>1. PICK u \in tasks : u.action = "index" /\ u.doc = t.doc /\ u.hash = t.hash /\ u.seq > t.seq
    BY <1>1, <1>4 DEF Kept, Clearable, Later, t
  <2>2. u # t
    BY <2>1, <1>2
  <2> QED
    BY <2>1, <2>2, <1>1
<1>5. NeverForgotten'
  <2> SUFFICES ASSUME NEW d \in Doc, Live(d), email[d].hash \notin terms[d]
               PROVE  \E u \in tasks' : u.action = "index" /\ u.doc = d /\ u.hash = email[d].hash
    BY <1>1 DEF NeverForgotten, Live
  <2>1. PICK u \in tasks : u.action = "index" /\ u.doc = d /\ u.hash = email[d].hash
    BY DEF Kept, NeverForgotten
  <2>2. CASE u \in tasks'
    BY <2>1, <2>2
  <2>3. CASE u \notin tasks'
    <3>1. u = t
      BY <2>3, <1>1
    <3>2. Matters(t) /\ t.action = "index" /\ t.hash \notin terms[t.doc] /\ t.doc = d /\ t.hash = email[d].hash
      BY <3>1, <2>1 DEF Matters
    <3> QED
      BY <3>2, <1>4
  <2> QED
    BY <2>2, <2>3
<1>6. ASSUME NEW m \in Node
      PROVE  Clearable(m)'
  <2> SUFFICES ASSUME loop'[m].pc = "clear", Current(m)'.action = "index", Matters(Current(m))',
                      (Current(m).hash \notin terms[Current(m).doc])'
               PROVE  Later(Current(m))'
    BY DEF Clearable
  <2> DEFINE c == Current(m)
  <2>1. loop'[m] = loop[m] /\ Current(m)' = c
    BY <1>1 DEF OnlyLoop, Current
  <2>2. c.seq \in Nat /\ Matters(c) /\ c.action = "index" /\ c.hash \notin terms[c.doc]
    BY <2>1, <1>1, AtClear DEF Matters, Live
  <2>3. PICK u \in tasks : u.action = "index" /\ u.doc = c.doc /\ u.hash = c.hash /\ u.seq > c.seq
    BY <2>1, <2>2 DEF Kept, Clearable, Later
  <2>4. CASE u \in tasks'
    BY <2>1, <2>3, <2>4 DEF Later
  <2>5. CASE u \notin tasks'
    <3>1. u = t
      BY <2>5, <1>1
    <3>2. Matters(t) /\ t.action = "index" /\ t.hash \notin terms[t.doc]
      BY <3>1, <2>2, <2>3 DEF Matters
    <3>3. PICK v \in tasks' : v.action = "index" /\ v.doc = t.doc /\ v.hash = t.hash /\ v.seq > t.seq
      BY <3>2, <1>4
    <3>4. v \in tasks /\ v.seq > c.seq
      BY <3>1, <3>3, <2>2, <2>3, <1>1, <1>2, <1>3
    <3> QED
      BY <3>1, <3>3, <3>4, <2>1, <2>3 DEF Later
  <2> QED
    BY <2>4, <2>5
<1> QED
  BY <1>5, <1>6 DEF Kept

\* A purge takes terms only from messages that are deleted.
LEMMA KeptPurge ==
  ASSUME Base, Kept, NEW n \in Node, RemoveTerms(n) \/ \E d \in Doc : DeleteDocument(n, d)
  PROVE  Kept'
<1>1. \A d \in Doc : Live(d)' => Live(d) /\ email'[d] = email[d] /\ terms'[d] = terms[d]
  BY DEF RemoveTerms, DeleteDocument, FtsRemove, Tombstoned, Live, Base, Types
<1>2. UNCHANGED <<tasks, loop>>
  BY DEF RemoveTerms, DeleteDocument
<1>3. NeverForgotten'
  BY <1>1, <1>2 DEF Kept, NeverForgotten
<1>4. ASSUME NEW m \in Node
      PROVE  Clearable(m)'
  <2> SUFFICES ASSUME loop'[m].pc = "clear", Current(m)'.action = "index", Matters(Current(m))'
               PROVE  (Current(m).hash \in terms[Current(m).doc])' \/ Later(Current(m))'
    BY DEF Clearable
  <2>1. loop'[m] = loop[m] /\ Current(m)' = Current(m)
    BY <1>2 DEF Current
  <2>2. Current(m).doc \in Doc
    BY <2>1, AtClear
  <2>3. Matters(Current(m)) /\ terms'[Current(m).doc] = terms[Current(m).doc]
    BY <2>1, <2>2, <1>1 DEF Matters
  <2>4. Current(m).hash \in terms[Current(m).doc] \/ Later(Current(m))
    BY <2>1, <2>3 DEF Kept, Clearable
  <2> QED
    BY <2>1, <2>3, <2>4, <1>2 DEF Later
<1> QED
  BY <1>3, <1>4 DEF Kept

LEMMA KeptStep ==
  ASSUME Base, Kept, [Next]_vars
  PROVE  Kept'
  BY QuietOrNot, KeptQuiet, KeptIngest, KeptRead, KeptApply, KeptClear, KeptPurge

-------------------------------------------------------------------------------
(* No message is found by the words of another. *)

\* The terms under an id are those of its message.
Own(d) == terms[d] \subseteq IF email[d] = NoEmail THEN {} ELSE {email[d].hash}

\* A node that indexes a message has read the one that is there, and nobody is about to delete it.
Truly(n) ==
    loop[n].pc = "apply" /\ Current(n).action = "index" =>
        /\ email[Current(n).doc] # NoEmail /\ email[Current(n).doc].hash = Current(n).hash
        /\ \A m \in Node : Current(n).doc \notin purge[m].ids

\* What a purge is going to delete has no terms.
Purged(m) == \A d \in purge[m].ids : terms[d] = {}

Fts == (\A d \in Doc : Own(d)) /\ (\A n \in Node : Truly(n)) /\ (\A m \in Node : Purged(m))

LEMMA FtsQuiet ==
  ASSUME Base, Fts, Quiet
  PROVE  Fts'
<1>1. \A d \in Doc : /\ email'[d] = NoEmail <=> email[d] = NoEmail
                     /\ email[d] # NoEmail => email'[d].hash = email[d].hash
  BY DEF Quiet, Live
<1>2. terms' = terms /\ \A m \in Node : purge'[m].ids \subseteq purge[m].ids
  BY DEF Quiet
<1>3. \A d \in Doc : Own(d)'
  BY <1>1, <1>2 DEF Fts, Own
<1>4. ASSUME NEW n \in Node
      PROVE  Truly(n)'
  <2> SUFFICES ASSUME loop'[n].pc = "apply", Current(n)'.action = "index"
               PROVE  /\ (email[Current(n).doc] # NoEmail)' /\ (email[Current(n).doc].hash = Current(n).hash)'
                      /\ \A m \in Node : (Current(n).doc \notin purge[m].ids)'
    BY DEF Truly
  <2>1. loop'[n] = loop[n] /\ Current(n)' = Current(n)
    BY DEF Quiet, Current
  <2>2. Current(n).doc \in Doc
    BY <2>1, AtClear
  <2>3. /\ email[Current(n).doc] # NoEmail /\ email[Current(n).doc].hash = Current(n).hash
        /\ \A m \in Node : Current(n).doc \notin purge[m].ids
    BY <2>1 DEF Fts, Truly
  <2> QED
    BY <2>1, <2>2, <2>3, <1>1, <1>2
<1>5. \A m \in Node : Purged(m)'
  BY <1>2 DEF Fts, Purged
<1> QED
  BY <1>3, <1>4, <1>5 DEF Fts

LEMMA FtsIngest ==
  ASSUME Base, Fts, NEW n \in Node, NEW d \in Doc, NEW h \in Hash, NEW train \in BOOLEAN,
         Ingest(n, d, h, train)
  PROVE  Fts'
<1>1. email[d] = NoEmail /\ UNCHANGED <<terms, loop, purge>> /\ \A x \in Doc : x # d => email'[x] = email[x]
  BY DEF Ingest, Base, Types
<1>2. terms[d] = {}
  BY <1>1 DEF Fts, Own
<1>3. \A x \in Doc : Own(x)'
  BY <1>1, <1>2 DEF Fts, Own
<1>4. ASSUME NEW m \in Node
      PROVE  Truly(m)'
  <2>1. Current(m)' = Current(m) /\ loop' = loop /\ purge' = purge
    BY <1>1 DEF Current
  <2>2. CASE loop[m].pc = "apply" /\ Current(m).action = "index"
    <3>1. Current(m).doc \in Doc /\ Current(m).doc # d
      BY <2>2, <1>1, AtClear DEF Fts, Truly
    <3>2. email'[Current(m).doc] = email[Current(m).doc]
      BY <3>1, <1>1
    <3> QED
      BY <3>2, <2>1 DEF Fts, Truly
  <2> QED
    BY <2>1, <2>2 DEF Truly
<1>5. \A m \in Node : Purged(m)'
  BY <1>1 DEF Fts, Purged
<1> QED
  BY <1>3, <1>4, <1>5 DEF Fts

\* The hash in the task is compared with the message's.
LEMMA FtsRead ==
  ASSUME ~PurgeMeetsIndexer, Base, Fts, NEW n \in Node, Read(n)
  PROVE  Fts'
<1>1. /\ OnlyLoop(n) /\ UNCHANGED <<email, terms, purge>>
      /\ \/ /\ \A m \in Node : Current(n).doc \notin purge[m].ids
            /\ loop'[n].entries = loop[n].entries
            /\ loop'[n].pc = IF email[Current(n).doc] # NoEmail /\ email[Current(n).doc].hash = Current(n).hash
                             THEN "apply" ELSE "clear"
         \/ loop'[n].pc = "lock"
  BY ReadDoes
<1>2. Truly(n)'
  <2>1. CASE loop'[n].pc = "apply"
    <3>1. Current(n)' = Current(n)
      BY <2>1, <1>1 DEF Current
    <3> QED
      BY <2>1, <3>1, <1>1 DEF Truly
  <2> QED
    BY <2>1 DEF Truly
<1>3. \A m \in Node : m # n => (Truly(m) <=> Truly(m)')
  BY <1>1 DEF OnlyLoop, Truly, Current
<1> QED
  BY <1>1, <1>2, <1>3 DEF Fts, Own, Purged

LEMMA FtsApply ==
  ASSUME Base, Fts, NEW n \in Node, Apply(n)
  PROVE  Fts'
<1> DEFINE t == Current(n)
<1>1. /\ OnlyLoop(n) /\ loop[n].pc = "apply" /\ UNCHANGED <<email, purge>> /\ loop'[n].pc # "apply"
      /\ terms' = terms \/ (t.action = "index" /\ terms' = FtsIndex(t))
  BY ApplyDoes
<1>2. t.doc \in Doc /\ t.hash \in Hash /\ terms \in [Doc -> SUBSET Hash]
  BY <1>1, AtClear DEF Base, Types
<1>3. t.action = "index" => /\ email[t.doc] # NoEmail /\ email[t.doc].hash = t.hash
                            /\ \A m \in Node : t.doc \notin purge[m].ids
  BY <1>1 DEF Fts, Truly
<1> HIDE DEF t
<1>4. \A d \in Doc : \/ terms'[d] = terms[d]
                     \/ d = t.doc /\ t.action = "index" /\ terms'[d] = terms[d] \cup {t.hash}
  <2>1. \A d \in Doc : FtsIndex(t)[d] = IF d = t.doc THEN terms[d] \cup {t.hash} ELSE terms[d]
    BY <1>2, MoreTerms
  <2>2. terms' = terms \/ (t.action = "index" /\ terms' = FtsIndex(t))
    BY <1>1
  <2> QED
    BY <2>1, <2>2
<1>5. \A d \in Doc : Own(d)'
  BY <1>1, <1>3, <1>4 DEF Fts, Own
<1>6. \A m \in Node : Purged(m)'
  <2>1. \A m \in Node : purge[m].ids \subseteq Doc
    BY DEF Base, Types, PurgeType
  <2> QED
    BY <2>1, <1>1, <1>3, <1>4 DEF Fts, Purged
<1>7. \A m \in Node : Truly(m)'
  BY <1>1 DEF Fts, Truly, OnlyLoop, Current
<1> QED
  BY <1>5, <1>6, <1>7 DEF Fts

LEMMA FtsClear ==
  ASSUME Base, Fts, NEW n \in Node, Clear(n)
  PROVE  Fts'
<1>1. OnlyLoop(n) /\ loop'[n].pc = "lock" /\ UNCHANGED <<email, terms, purge>>
  BY ClearDoes
<1>2. \A m \in Node : Truly(m)'
  BY <1>1 DEF Fts, Truly, OnlyLoop, Current
<1> QED
  BY <1>1, <1>2 DEF Fts, Own, Purged

LEMMA FtsRemoveTerms ==
  ASSUME ~PurgeMeetsIndexer, Base, Fts, NEW n \in Node, RemoveTerms(n)
  PROVE  Fts'
<1>1. /\ \A d \in Tombstoned : ~BeingIndexed(d)
      /\ terms' = FtsRemove(Tombstoned) /\ purge' = [purge EXCEPT ![n] = [pc |-> "delete", ids |-> Tombstoned]]
      /\ UNCHANGED <<email, loop>>
  BY DEF RemoveTerms
<1>2. /\ purge'[n].ids = Tombstoned /\ \A m \in Node : m # n => purge'[m] = purge[m]
      /\ Tombstoned \subseteq Doc
  BY <1>1 DEF Base, Types, Tombstoned
<1>3. \A d \in Doc : terms'[d] = IF d \in Tombstoned THEN {} ELSE terms[d]
  BY <1>1 DEF FtsRemove
<1>4. \A d \in Doc : Own(d)'
  BY <1>1, <1>3 DEF Fts, Own
<1>5. ASSUME NEW m \in Node
      PROVE  Purged(m)'
  <2>1. purge[m].ids \subseteq Doc
    BY DEF Base, Types, PurgeType
  <2> QED
    BY <2>1, <1>2, <1>3 DEF Fts, Purged
<1>6. ASSUME NEW m \in Node
      PROVE  Truly(m)'
  <2>1. loop'[m] = loop[m] /\ Current(m)' = Current(m) /\ email' = email
    BY <1>1 DEF Current
  <2>2. CASE loop[m].pc = "apply" /\ Current(m).action = "index"
    <3>1. Current(m).doc \notin Tombstoned
      BY <2>2, <1>1 DEF BeingIndexed
    <3>2. \A q \in Node : Current(m).doc \notin purge'[q].ids
      BY <2>2, <3>1, <1>2 DEF Fts, Truly
    <3> QED
      BY <2>1, <2>2, <3>2 DEF Fts, Truly
  <2> QED
    BY <2>1, <2>2 DEF Truly
<1> QED
  BY <1>4, <1>5, <1>6 DEF Fts

LEMMA FtsDelete ==
  ASSUME Base, Fts, NEW n \in Node, NEW d \in Doc, DeleteDocument(n, d)
  PROVE  Fts'
<1> DEFINE p == [purge[n] EXCEPT !.ids = @ \ {d}]
<1>1. d \in purge[n].ids /\ email' = [email EXCEPT ![d] = NoEmail] /\ UNCHANGED <<terms, loop>>
      /\ purge' = [purge EXCEPT ![n] = p]
  BY DEF DeleteDocument
<1>2. purge \in [Node -> PurgeType] /\ purge[n] \in PurgeType
  BY DEF Base, Types
<1>3. p \in PurgeType /\ p.ids \subseteq purge[n].ids
  BY <1>2 DEF PurgeType
<1> HIDE DEF p
<1>4. \A m \in Node : purge'[m].ids \subseteq purge[m].ids
  BY <1>1, <1>2, <1>3, OnePurge
<1>5. terms[d] = {} /\ email'[d] = NoEmail /\ \A x \in Doc : x # d => email'[x] = email[x]
  BY <1>1 DEF Fts, Purged, Base, Types
<1>6. \A x \in Doc : Own(x)'
  BY <1>1, <1>5 DEF Fts, Own
<1>7. \A m \in Node : Purged(m)'
  BY <1>1, <1>4 DEF Fts, Purged
<1>8. ASSUME NEW m \in Node
      PROVE  Truly(m)'
  <2>1. loop'[m] = loop[m] /\ Current(m)' = Current(m)
    BY <1>1 DEF Current
  <2>2. CASE loop[m].pc = "apply" /\ Current(m).action = "index"
    <3>1. Current(m).doc \in Doc /\ Current(m).doc # d
      BY <2>2, <1>1, AtClear DEF Fts, Truly
    <3>2. email'[Current(m).doc] = email[Current(m).doc]
      BY <3>1, <1>5
    <3> QED
      BY <2>1, <2>2, <3>2, <1>4 DEF Fts, Truly
  <2> QED
    BY <2>1, <2>2 DEF Truly
<1> QED
  BY <1>6, <1>7, <1>8 DEF Fts

LEMMA FtsStep ==
  ASSUME ~PurgeMeetsIndexer, Base, Fts, [Next]_vars
  PROVE  Fts'
  BY QuietOrNot, FtsQuiet, FtsIngest, FtsRead, FtsApply, FtsClear, FtsRemoveTerms, FtsDelete

-------------------------------------------------------------------------------
(* One purge at a time, as long as it does not outlast its lock. *)

Purging(n) == purge[n].pc # "idle"

\* The account is locked while it is purged, by one node, which deletes what has a tombstone.
Single ==
    /\ \A n \in Node : Purging(n) => plock > now
    /\ \A m, n \in Node : Purging(m) /\ Purging(n) => m = n
    /\ \A n \in Node : \A d \in purge[n].ids : email[d] # NoEmail /\ email[d].tomb
    /\ \A n \in Node : ~Purging(n) => purge[n].ids = {}

\* Messages may come and get tombstones.
LEMMA SingleSame ==
  ASSUME Base, Single, UNCHANGED <<now, plock, purge>>,
         \A d \in Doc : email[d] # NoEmail /\ email[d].tomb => email'[d] = email[d]
  PROVE  Single'
<1>1. \A n \in Node : purge[n].ids \subseteq Doc
  BY DEF Base, Types, PurgeType
<1> QED
  BY <1>1 DEF Single, Purging

LEMMA SingleRequest ==
  ASSUME Base, Single, NEW n \in Node, Request(n) \/ Loop(n)
  PROVE  Single'
<1>1. UNCHANGED <<now, plock, purge>>
  <2>1. CASE Request(n)
    BY <2>1, Zenon DEF Request, Ingest, Train, QueueIndexing, OtherNews, clocks
  <2>2. CASE Loop(n)
    BY <2>2, ScanDoes, TryLockDoes, ReadDoes, ApplyDoes, ClearDoes, UnlockDoes DEF Loop
  <2> QED
    BY <2>1, <2>2
<1>2. \A d \in Doc : email[d] # NoEmail /\ email[d].tomb => email'[d] = email[d]
  <2>1. CASE Request(n)
    <3>1. CASE \E d \in Doc, h \in Hash, train \in BOOLEAN : Ingest(n, d, h, train)
      BY <3>1 DEF Ingest, Base, Types
    <3>2. CASE QueueIndexing(n) \/ OtherNews(n) \/ \E d \in Doc : Train(n, d)
      BY <3>2 DEF QueueIndexing, OtherNews, Train, store
    <3> QED
      BY <2>1, <3>1, <3>2 DEF Request
  <2>2. CASE Loop(n)
    BY <2>2, ScanDoes, TryLockDoes, ReadDoes, ApplyDoes, ClearDoes, UnlockDoes DEF Loop
  <2> QED
    BY <2>1, <2>2
<1> QED
  BY <1>1, <1>2, SingleSame

LEMMA SingleRest ==
  ASSUME Base, Single, CollectLinks \/ UNCHANGED vars \/ \E d \in Doc : Tombstone(d)
  PROVE  Single'
<1>1. UNCHANGED <<now, plock, purge>>
  BY Zenon DEF CollectLinks, vars, Tombstone, clocks
<1>2. Quiet
  BY QuietRest
<1>3. \A d \in Doc : email[d] # NoEmail /\ email[d].tomb => email'[d] = email[d]
  BY <1>2 DEF Quiet, Live
<1> QED
  BY <1>1, <1>3, SingleSame

LEMMA SingleTick ==
  ASSUME ~LocksOutlasted, Base, Single, Tick
  PROVE  Single'
<1>1. UNCHANGED <<email, plock, purge>> /\ \A n \in Node : Purging(n) => plock > now'
  BY DEF Tick, store, Purging
<1> QED
  BY <1>1 DEF Single, Purging

LEMMA SingleStart ==
  ASSUME MaxTime < Horizon, Base, Single, NEW n \in Node, StartPurge(n)
  PROVE  Single'
<1> DEFINE p == [purge[n] EXCEPT !.pc = "terms"]
<1>1. purge \in [Node -> PurgeType] /\ purge[n] \in PurgeType /\ now \in Nat /\ plock \in Nat /\ now < Horizon
  BY TaskAssumption DEF Base, Types
<1>2. /\ purge' = [purge EXCEPT ![n] = p] /\ plock <= now /\ plock' = At(now + PurgeExpiry) /\ now' = now
      /\ ~Purging(n)
  BY <1>1 DEF StartPurge, Purging
<1>3. p \in PurgeType /\ p.pc = "terms" /\ p.ids = purge[n].ids
  BY <1>1 DEF PurgeType
<1> HIDE DEF p
<1>4. \A m \in Node : ~Purging(m)
  BY <1>1, <1>2 DEF Single
<1>5. purge'[n] = p /\ \A m \in Node : m # n => purge'[m] = purge[m]
  BY <1>1, <1>2, <1>3, OnePurge
<1>6. plock' > now'
  <2>1. now + PurgeExpiry \in Nat /\ now < now + PurgeExpiry
    BY <1>1, TaskAssumption
  <2> QED
    BY <2>1, <1>1, <1>2, LockFacts
<1>7. \A m \in Node : purge'[m].ids = {}
  BY <1>3, <1>4, <1>5 DEF Single
<1>8. \A m \in Node : Purging(m)' => m = n
  BY <1>4, <1>5 DEF Purging
<1> QED
  BY <1>6, <1>7, <1>8 DEF Single

\* A purge goes on, and ends.
LEMMA SinglePurge ==
  ASSUME Base, Single, NEW n \in Node,
         RemoveTerms(n) \/ AbandonPurge(n) \/ EndPurge(n) \/ \E d \in Doc : DeleteDocument(n, d)
  PROVE  Single'
<1>1. purge \in [Node -> PurgeType] /\ purge[n] \in PurgeType
  BY DEF Base, Types
<1>2. Purging(n)
  BY DEF RemoveTerms, AbandonPurge, EndPurge, DeleteDocument, Purging
<1>3. \A m \in Node : m # n => ~Purging(m) /\ purge[m].ids = {}
  BY <1>2 DEF Single
<1>4. plock > now
  BY <1>2 DEF Single
<1>5. CASE RemoveTerms(n)
  <2> DEFINE p == [pc |-> "delete", ids |-> Tombstoned]
  <2>1. purge' = [purge EXCEPT ![n] = p] /\ UNCHANGED <<now, plock, email>>
    BY <1>5 DEF RemoveTerms, clocks
  <2>2. p \in PurgeType /\ p.pc = "delete" /\ p.ids = Tombstoned
    BY DEF PurgeType, Tombstoned
  <2> HIDE DEF p
  <2>3. purge'[n] = p /\ \A m \in Node : m # n => purge'[m] = purge[m]
    BY <2>1, <2>2, <1>1, OnePurge
  <2>4. \A m \in Node : Purging(m)' => m = n
    BY <2>3, <1>3 DEF Purging
  <2>5. Purging(n)' /\ \A d \in purge'[n].ids : email'[d] # NoEmail /\ email'[d].tomb
    BY <2>1, <2>2, <2>3 DEF Purging, Tombstoned
  <2> QED
    BY <2>1, <2>3, <2>4, <2>5, <1>3, <1>4 DEF Single
<1>6. CASE AbandonPurge(n)
  <2> DEFINE p == [pc |-> "end", ids |-> {}]
  <2>1. purge' = [purge EXCEPT ![n] = p] /\ UNCHANGED <<now, plock>>
    BY <1>6 DEF AbandonPurge, clocks
  <2>2. p \in PurgeType /\ p.pc = "end" /\ p.ids = {}
    BY DEF PurgeType
  <2> HIDE DEF p
  <2>3. purge'[n] = p /\ \A m \in Node : m # n => purge'[m] = purge[m]
    BY <2>1, <2>2, <1>1, OnePurge
  <2>4. \A m \in Node : (Purging(m)' => m = n) /\ purge'[m].ids = {}
    BY <2>2, <2>3, <1>3 DEF Purging
  <2> QED
    BY <2>1, <2>4, <1>4 DEF Single
<1>7. CASE EndPurge(n)
  <2>1. purge' = [purge EXCEPT ![n] = IdlePurge]
    BY <1>7 DEF EndPurge
  <2>2. IdlePurge \in PurgeType /\ IdlePurge.pc = "idle" /\ IdlePurge.ids = {}
    BY DEF PurgeType, IdlePurge
  <2>3. purge'[n] = IdlePurge /\ \A m \in Node : m # n => purge'[m] = purge[m]
    BY <2>1, <2>2, <1>1, OnePurge
  <2>4. \A m \in Node : ~Purging(m)' /\ purge'[m].ids = {}
    BY <2>2, <2>3, <1>3 DEF Purging
  <2> QED
    BY <2>4 DEF Single
<1>8. ASSUME NEW d \in Doc, DeleteDocument(n, d)
      PROVE  Single'
  <2> DEFINE p == [purge[n] EXCEPT !.ids = @ \ {d}]
  <2>1. purge' = [purge EXCEPT ![n] = p] /\ UNCHANGED <<now, plock>> /\ email' = [email EXCEPT ![d] = NoEmail]
    BY <1>8 DEF DeleteDocument, clocks
  <2>2. p \in PurgeType /\ p.pc = purge[n].pc /\ p.ids = purge[n].ids \ {d}
    BY <1>1 DEF PurgeType
  <2> HIDE DEF p
  <2>3. purge'[n] = p /\ \A m \in Node : m # n => purge'[m] = purge[m]
    BY <2>1, <2>2, <1>1, OnePurge
  <2>4. Purging(n)' /\ \A m \in Node : Purging(m)' => m = n
    BY <2>2, <2>3, <1>2, <1>3 DEF Purging
  <2>5. \A x \in Doc : x # d => email'[x] = email[x]
    BY <2>1 DEF Base, Types
  <2>6. \A x \in purge'[n].ids : email'[x] # NoEmail /\ email'[x].tomb
    <3>1. purge[n].ids \subseteq Doc
      BY <1>1 DEF PurgeType
    <3> QED
      BY <3>1, <2>2, <2>3, <2>5 DEF Single
  <2> QED
    BY <2>1, <2>3, <2>4, <2>6, <1>3, <1>4 DEF Single
<1> QED
  BY <1>5, <1>6, <1>7, <1>8

LEMMA SingleCrash ==
  ASSUME Base, Single, NEW n \in Node, Crash(n)
  PROVE  Single'
<1>1. purge \in [Node -> PurgeType]
  BY DEF Base, Types
<1>2. purge' = [purge EXCEPT ![n] = IdlePurge] /\ UNCHANGED <<now, plock, email>>
  BY CrashDoes
<1>3. IdlePurge \in PurgeType /\ IdlePurge.pc = "idle" /\ IdlePurge.ids = {}
  BY DEF PurgeType, IdlePurge
<1>4. purge'[n] = IdlePurge /\ \A m \in Node : m # n => purge'[m] = purge[m]
  BY <1>1, <1>2, <1>3, OnePurge
<1>5. \A m \in Node : (Purging(m)' => m # n /\ Purging(m)) /\ (purge'[m] = purge[m] \/ purge'[m].ids = {})
  BY <1>3, <1>4 DEF Purging
<1> QED
  BY <1>2, <1>4, <1>5, <1>3 DEF Single, Purging

LEMMA SingleStep ==
  ASSUME ~LocksOutlasted, MaxTime < Horizon, Base, Single, [Next]_vars
  PROVE  Single'
<1>1. ASSUME NEW n \in Node, Purge(n) PROVE Single'
  BY <1>1, SingleStart, SinglePurge DEF Purge
<1> QED
  BY <1>1, SingleRequest, SingleCrash, SingleRest, SingleTick DEF Next

\* What is deleted had a tombstone.
LEMMA NothingLive ==
  ASSUME Base, Single, [Next]_vars
  PROVE  \A d \in Doc : Live(d) => email'[d] # NoEmail
<1>1. CASE Quiet
  BY <1>1 DEF Quiet, Live
<1>2. ASSUME NEW n \in Node, Read(n) \/ Apply(n) \/ Clear(n) \/ RemoveTerms(n)
      PROVE  email' = email
  BY <1>2, ReadDoes, ApplyDoes, ClearDoes DEF RemoveTerms
<1>3. ASSUME NEW n \in Node, NEW d \in Doc, DeleteDocument(n, d)
      PROVE  \A x \in Doc : Live(x) => email'[x] # NoEmail
  <2>1. ~Live(d)
    BY <1>3 DEF DeleteDocument, Single, Live
  <2>2. \A x \in Doc : x # d => email'[x] = email[x]
    BY <1>3 DEF DeleteDocument, Base, Types
  <2> QED
    BY <2>1, <2>2 DEF Live
<1>4. ASSUME NEW n \in Node, NEW d \in Doc, NEW h \in Hash, NEW train \in BOOLEAN, Ingest(n, d, h, train)
      PROVE  \A x \in Doc : Live(x) => email'[x] # NoEmail
  <2>1. ~Live(d)
    BY <1>4 DEF Ingest, Live
  <2>2. \A x \in Doc : x # d => email'[x] = email[x]
    BY <1>4 DEF Ingest, Base, Types
  <2> QED
    BY <2>1, <2>2 DEF Live
<1> QED
  BY <1>1, <1>2, <1>3, <1>4, QuietOrNot DEF Live

-------------------------------------------------------------------------------
(* The filter learns from a task once, as long as no round outlasts its locks. *)

\* A node is at a training.
Teaching(n) == Busy(n) /\ Current(n).action = "train"

\* A document that is being trained on is locked, by one node; what a round will unlock are
\* locks of indexing.
Held ==
    /\ \A n \in Node : Teaching(n) => locks[LockKey(Current(n))] > now
    /\ \A m, n \in Node : Teaching(m) /\ Teaching(n) /\ Current(m).doc = Current(n).doc => m = n
    /\ \A n \in Node : \A k \in loop[n].unlock : k[1] = "index"

\* A task the filter has learnt from is still locked for all who have it on their lists, is
\* not taken up again, and stays queued only until the one who did it clears it.
Learnt(s) ==
    /\ s <= seq
    /\ \A n \in Node : \A t \in ToSet(loop[n].entries) :
         t.seq = s => t.action = "train" /\ locks[LockKey(t)] > now
    /\ \A n \in Node : Busy(n) /\ Current(n).seq = s => loop[n].pc = "clear"
    /\ \A t \in tasks : t.seq = s => \E n \in Node : loop[n].pc = "clear" /\ Current(n) = t

Taught == faults = 0 => \A s \in 1..MaxSeq : trained[s] <= 1 /\ (trained[s] = 1 => Learnt(s))

Lessons == Held /\ Taught

\* The keys of the locks.
LEMMA Keys ==
  ASSUME NEW t \in Task, NEW u \in Task
  PROVE  /\ t.action = "index" => LockKey(t)[1] = "index"
         /\ t.action = "train" => LockKey(t)[1] = "train" /\ LockKey(t)[2] = t.doc
         /\ LockKey(t) = LockKey(u) /\ t.action = "train" => u.action = "train" /\ u.doc = t.doc
         /\ t.action = "train" /\ u.action = "train" /\ u.doc = t.doc => LockKey(t) = LockKey(u)
  BY DEF Task, LockKey

\* A step that leaves the loops, the locks and the clock alone, and may queue new tasks.
LEMMA LessonsRest ==
  ASSUME Base, Lessons, UNCHANGED <<now, locks, loop, trained>>, seq <= seq', seq' \in Nat,
         faults' \in Nat, faults' >= faults, tasks \subseteq tasks',
         \A t \in tasks' \ tasks : t.seq > seq /\ t.seq \in Nat
  PROVE  Lessons'
<1>1. \A n \in Node : Current(n)' = Current(n) /\ (Busy(n)' <=> Busy(n)) /\ (Teaching(n)' <=> Teaching(n))
  BY DEF Current, Busy, Teaching
<1>2. Held'
  BY <1>1 DEF Lessons, Held
<1>3. ASSUME NEW s \in 1..MaxSeq, Learnt(s)
      PROVE  Learnt(s)'
  <2>1. s \in Nat /\ seq \in Nat
    BY TaskAssumption DEF Base, Types
  <2>2. s <= seq' /\ \A t \in tasks' : t.seq = s => t \in tasks
    BY <1>3, <2>1 DEF Learnt
  <2>3. \A n \in Node : \A t \in ToSet(loop[n].entries) : t.seq = s => t.action = "train" /\ locks'[LockKey(t)] > now'
    BY <1>3 DEF Learnt
  <2>4. \A n \in Node : Busy(n) /\ Current(n).seq = s => loop[n].pc = "clear"
    BY <1>3 DEF Learnt
  <2>5. \A t \in tasks' : t.seq = s => \E n \in Node : loop[n].pc = "clear" /\ Current(n) = t
    BY <1>3, <2>2 DEF Learnt
  <2> QED
    BY <2>2, <2>3, <2>4, <2>5, <1>1 DEF Learnt
<1>4. faults' = 0 => faults = 0
  BY TaskAssumption DEF Base, Types
<1>5. Taught'
  BY <1>3, <1>4 DEF Lessons, Taught
<1> QED
  BY <1>2, <1>5 DEF Lessons

LEMMA LessonsRequest ==
  ASSUME Base, Lessons, NEW n \in Node, Request(n)
  PROVE  Lessons'
<1>1. UNCHANGED <<now, locks, loop, trained, faults>>
  BY Zenon DEF Request, Ingest, Train, QueueIndexing, OtherNews, clocks
<1>2. seq \in Nat /\ faults \in Nat
  BY TaskAssumption DEF Base, Types
<1>3. /\ seq' \in Nat /\ seq <= seq' /\ tasks \subseteq tasks'
      /\ \A t \in tasks' \ tasks : t.seq > seq /\ t.seq \in Nat
  <2>1. ASSUME NEW d \in Doc, NEW h \in Hash, NEW train \in BOOLEAN, Ingest(n, d, h, train)
        PROVE  <1>3!:
    BY <2>1, <1>2 DEF Ingest
  <2>2. ASSUME NEW d \in Doc, Train(n, d)
        PROVE  <1>3!:
    BY <2>2, <1>2 DEF Train
  <2>3. CASE QueueIndexing(n)
    <3>1. PICK order \in SetToSeqs(reindex) :
            tasks' = tasks \cup {[seq |-> seq + i, doc |-> order[i][1], hash |-> order[i][2],
                                  action |-> "index"] : i \in DOMAIN order}
      BY <2>3 DEF QueueIndexing
    <3>2. Cardinality(reindex) \in Nat
      BY FinitelyMany, FS_CardinalityType
    <3>3. DOMAIN order = 1..Cardinality(reindex) /\ seq' = seq + Cardinality(reindex)
      BY <2>3 DEF QueueIndexing, SetToSeqs
    <3>4. \A i \in DOMAIN order : seq + i > seq /\ seq + i \in Nat
      BY <3>2, <3>3, <1>2
    <3> QED
      BY <3>1, <3>2, <3>3, <3>4, <1>2
  <2>4. CASE OtherNews(n)
    BY <2>4, <1>2 DEF OtherNews, store
  <2> QED
    BY <2>1, <2>2, <2>3, <2>4 DEF Request
<1> QED
  BY <1>1, <1>2, <1>3, LessonsRest

LEMMA LessonsPurge ==
  ASSUME Base, Lessons, NEW n \in Node, Purge(n)
  PROVE  Lessons'
<1>1. UNCHANGED <<now, locks, loop, trained, tasks, seq>>
  BY Zenon DEF Purge, StartPurge, RemoveTerms, AbandonPurge, EndPurge, DeleteDocument, clocks, store
<1>2. seq \in Nat /\ faults \in Nat
  BY TaskAssumption DEF Base, Types
<1>3. faults' = faults \/ faults' = faults + 1
  BY DEF Purge, StartPurge, RemoveTerms, AbandonPurge, EndPurge, DeleteDocument, Fault
<1>4. faults' \in Nat /\ faults' >= faults /\ seq' = seq /\ seq <= seq' /\ tasks' \ tasks = {}
  BY <1>1, <1>2, <1>3
<1> QED
  BY <1>1, <1>2, <1>4, LessonsRest

LEMMA LessonsOther ==
  ASSUME Base, Lessons, CollectLinks \/ UNCHANGED vars \/ \E d \in Doc : Tombstone(d)
  PROVE  Lessons'
<1>1. UNCHANGED <<now, locks, loop, trained, tasks, seq, faults>>
  BY Zenon DEF CollectLinks, vars, Tombstone, clocks, store
<1>2. seq \in Nat /\ faults \in Nat
  BY TaskAssumption DEF Base, Types
<1>3. faults' \in Nat /\ faults' >= faults /\ seq' \in Nat /\ seq <= seq' /\ tasks' \ tasks = {}
  BY <1>1, <1>2
<1> QED
  BY <1>1, <1>3, LessonsRest

\* Time does not overtake the locks of a round.
LEMMA LessonsTick ==
  ASSUME ~LocksOutlasted, Base, Lessons, Tick
  PROVE  Lessons'
<1>1. /\ now' = now + 1 /\ UNCHANGED <<tasks, seq, locks, loop, trained, faults>>
      /\ \A n \in Node : \A t \in ToSet(loop[n].entries) : locks[LockKey(t)] # now'
  BY DEF Tick, store
<1>2. \A t \in Task : locks[LockKey(t)] \in Nat
  <2>1. \A t \in Task : LockKey(t) \in LockKeys
    BY LockFacts
  <2> QED
    BY <2>1, TaskAssumption DEF Base, Types
<1>3. \A n \in Node : ToSet(loop[n].entries) \subseteq Task
  BY KnownTasks DEF Base
<1>4. now \in Nat
  BY TaskAssumption DEF Base, Types
<1>5. \A n \in Node : \A t \in ToSet(loop[n].entries) : locks[LockKey(t)] > now => locks[LockKey(t)] > now'
  BY <1>1, <1>2, <1>3, <1>4
<1>6. \A n \in Node : Current(n)' = Current(n) /\ (Busy(n)' <=> Busy(n)) /\ (Teaching(n)' <=> Teaching(n))
  BY <1>1 DEF Current, Busy, Teaching
<1>7. \A n \in Node : Teaching(n) => Current(n) \in ToSet(loop[n].entries)
  BY AtTask DEF Teaching
<1>8. Held'
  BY <1>1, <1>5, <1>6, <1>7 DEF Lessons, Held
<1>9. \A s \in 1..MaxSeq : Learnt(s) => Learnt(s)'
  BY <1>1, <1>5, <1>6 DEF Learnt
<1> QED
  BY <1>1, <1>8, <1>9 DEF Lessons, Taught

\* A crash is a failure; the others' locks stay.
LEMMA LessonsCrash ==
  ASSUME Base, Lessons, NEW n \in Node, Crash(n)
  PROVE  Lessons'
<1>1. /\ OnlyLoop(n) /\ loop'[n].pc = "wait" /\ loop'[n].unlock = {} /\ UNCHANGED <<now, locks>>
      /\ faults' = faults + 1 /\ faults \in Nat
  BY CrashDoes, TaskAssumption DEF Base, Types
<1>2. \A m \in Node : Teaching(m)' => m # n /\ Teaching(m) /\ Current(m)' = Current(m)
  BY <1>1 DEF OnlyLoop, Teaching, Busy, Current
<1>3. \A m \in Node : \A k \in loop'[m].unlock : k[1] = "index"
  BY <1>1 DEF OnlyLoop, Lessons, Held
<1>4. Held'
  BY <1>1, <1>2, <1>3 DEF Lessons, Held
<1>5. Taught'
  BY <1>1 DEF Taught
<1> QED
  BY <1>4, <1>5 DEF Lessons

\* A loop moves and nobody learns: node n takes up nothing new, unless something fails, and
\* the task it was to clear has been cleared or is still to be.
LEMMA LessonsMove ==
  ASSUME Base, Lessons, NEW n \in Node, OnlyLoop(n), UNCHANGED <<now, seq, trained>>,
         tasks' \subseteq tasks, faults' \in Nat, faults' >= faults,
         \A t \in Task : t.action = "train" => locks'[LockKey(t)] = locks[LockKey(t)],
         \A k \in loop'[n].unlock : k[1] = "index",
         Busy(n)' => /\ Busy(n) /\ Current(n)' = Current(n)
                     /\ loop[n].pc = "clear" => loop'[n].pc = "clear",
         ToSet(loop'[n].entries) \subseteq tasks \cup ToSet(loop[n].entries),
         faults' = 0 => \A t \in tasks' : loop[n].pc = "clear" /\ Current(n) = t =>
                                          loop'[n].pc = "clear" /\ Current(n)' = t
  PROVE  Lessons'
<1>1. \A m \in Node : Busy(m)' => Busy(m) /\ Current(m)' = Current(m)
                                  /\ (loop[m].pc = "clear" => loop'[m].pc = "clear")
  BY DEF OnlyLoop, Busy, Current
<1>2. \A m \in Node : Busy(m) => Current(m) \in Task
  BY AtTask
<1>3. Held'
  <2>1. \A m \in Node : Teaching(m)' => Teaching(m) /\ Current(m)' = Current(m)
    BY <1>1 DEF Teaching
  <2>2. \A m \in Node : Teaching(m)' => (locks[LockKey(Current(m))] > now)'
    <3> SUFFICES ASSUME NEW m \in Node, Teaching(m)' PROVE (locks[LockKey(Current(m))] > now)'
      OBVIOUS
    <3>1. Teaching(m) /\ Current(m)' = Current(m) /\ Current(m) \in Task /\ Current(m).action = "train"
      BY <2>1, <1>2 DEF Teaching
    <3>2. locks[LockKey(Current(m))] > now
      BY <3>1 DEF Lessons, Held
    <3>3. LockKey(Current(m))' = LockKey(Current(m))
      BY <3>1 DEF LockKey
    <3> QED
      BY <3>1, <3>2, <3>3
  <2>3. \A m \in Node : \A k \in loop'[m].unlock : k[1] = "index"
    BY DEF OnlyLoop, Lessons, Held
  <2>4. \A m, q \in Node : Teaching(m)' /\ Teaching(q)' /\ Current(m)'.doc = Current(q)'.doc => m = q
    BY <2>1 DEF Lessons, Held
  <2> QED
    BY <2>2, <2>3, <2>4 DEF Held
<1>4. ASSUME NEW s \in 1..MaxSeq, Learnt(s), faults' = 0
      PROVE  Learnt(s)'
  <2>1. \A m \in Node : \A t \in ToSet(loop[m].entries) : t.seq = s => t.action = "train" /\ locks[LockKey(t)] > now
    BY <1>4 DEF Learnt
  <2>2. \A t \in tasks : t.seq = s => t.action = "train" /\ locks[LockKey(t)] > now
    <3> SUFFICES ASSUME NEW t \in tasks, t.seq = s PROVE t.action = "train" /\ locks[LockKey(t)] > now
      OBVIOUS
    <3>1. PICK m \in Node : loop[m].pc = "clear" /\ Current(m) = t
      BY <1>4 DEF Learnt
    <3>2. t \in ToSet(loop[m].entries)
      BY <3>1, AtClear
    <3> QED
      BY <3>2, <2>1
  <2>3. ASSUME NEW m \in Node, NEW t \in ToSet(loop'[m].entries), t.seq = s
        PROVE  t.action = "train" /\ locks'[LockKey(t)] > now'
    <3>1. t \in tasks \cup ToSet(loop[m].entries)
      BY <2>3 DEF OnlyLoop
    <3>2. t \in Task
      BY <3>1, KnownTasks DEF Base, Types
    <3>3. t.action = "train" /\ locks[LockKey(t)] > now
      BY <2>1, <2>2, <2>3, <3>1
    <3> QED
      BY <3>2, <3>3
  <2>4. \A m \in Node : Busy(m)' /\ Current(m)'.seq = s => loop'[m].pc = "clear"
    BY <1>1, <1>4 DEF Learnt
  <2>5. ASSUME NEW t \in tasks', t.seq = s
        PROVE  \E m \in Node : loop'[m].pc = "clear" /\ Current(m)' = t
    <3>1. PICK m \in Node : loop[m].pc = "clear" /\ Current(m) = t
      BY <1>4, <2>5 DEF Learnt
    <3>2. loop'[m].pc = "clear" /\ Current(m)' = t
      BY <3>1, <1>4 DEF OnlyLoop, Current
    <3> QED
      BY <3>2
  <2>6. s <= seq'
    BY <1>4 DEF Learnt
  <2> QED
    BY <2>3, <2>4, <2>5, <2>6 DEF Learnt
<1>5. faults' = 0 => faults = 0
  BY TaskAssumption DEF Base, Types
<1>6. Taught'
  BY <1>4, <1>5 DEF Lessons, Taught
<1> QED
  BY <1>3, <1>6 DEF Lessons

\* Failures and locks, in the steps of a loop.
LEMMA LoopNats ==
  ASSUME Base, Lessons, NEW n \in Node
  PROVE  faults \in Nat /\ now \in Nat /\ 0..MaxFaults \subseteq Nat /\ \A k \in loop[n].unlock : k[1] = "index"
  BY TaskAssumption DEF Base, Types, Lessons, Held

LEMMA LessonsScan ==
  ASSUME Base, Lessons, NEW n \in Node, Scan(n)
  PROVE  Lessons'
<1>1. /\ OnlyLoop(n) /\ loop[n].pc = "wait" /\ loop'[n].pc = "lock" /\ loop'[n].unlock = loop[n].unlock
      /\ ToSet(loop'[n].entries) \subseteq tasks
      /\ UNCHANGED <<now, tasks, seq, locks, trained>>
      /\ faults' \in 0..MaxFaults /\ faults' >= faults
  BY ScanDoes
<1>2. faults' \in Nat /\ \A k \in loop'[n].unlock : k[1] = "index"
  BY <1>1, LoopNats
<1>3. ~Busy(n)'
  BY <1>1 DEF Busy
<1> QED
  BY <1>1, <1>2, <1>3, LessonsMove

LEMMA LessonsRead ==
  ASSUME Base, Lessons, NEW n \in Node, Read(n)
  PROVE  Lessons'
<1>1. /\ OnlyLoop(n) /\ loop[n].pc = "read" /\ loop'[n].unlock = loop[n].unlock
      /\ UNCHANGED <<now, tasks, seq, locks, trained>>
      /\ faults' \in 0..MaxFaults /\ faults' >= faults
      /\ \/ loop'[n].entries = loop[n].entries
         \/ loop'[n].pc = "lock" /\ loop'[n].entries = Tail(loop[n].entries)
  BY ReadDoes
<1>2. faults' \in Nat /\ \A k \in loop'[n].unlock : k[1] = "index"
  BY <1>1, LoopNats
<1>3. Busy(n) /\ ToSet(Tail(loop[n].entries)) \subseteq ToSet(loop[n].entries)
  BY <1>1, AtTask DEF Busy
<1>4. Busy(n)' => Current(n)' = Current(n)
  BY <1>1 DEF Busy, Current
<1>5. ToSet(loop'[n].entries) \subseteq tasks \cup ToSet(loop[n].entries)
  BY <1>1, <1>3
<1> QED
  BY <1>1, <1>2, <1>3, <1>4, <1>5, LessonsMove

LEMMA LessonsClear ==
  ASSUME Base, Lessons, NEW n \in Node, Clear(n)
  PROVE  Lessons'
<1>1. /\ OnlyLoop(n) /\ loop[n].pc = "clear" /\ loop'[n].unlock = loop[n].unlock
      /\ loop'[n].pc = "lock" /\ loop'[n].entries = Tail(loop[n].entries)
      /\ UNCHANGED <<now, seq, locks, trained>>
      /\ faults' \in 0..MaxFaults /\ faults' >= faults
      /\ tasks' = tasks \ {Current(n)} \/ (tasks' = tasks /\ faults' = faults + 1)
  BY ClearDoes
<1>2. faults \in Nat /\ faults' \in Nat /\ \A k \in loop'[n].unlock : k[1] = "index"
  BY <1>1, LoopNats
<1>3. ~Busy(n)' /\ ToSet(loop'[n].entries) \subseteq tasks \cup ToSet(loop[n].entries)
  BY <1>1, AtTask DEF Busy
<1>4. tasks' \subseteq tasks /\ (faults' = 0 => Current(n) \notin tasks')
  BY <1>1, <1>2
<1> QED
  BY <1>1, <1>2, <1>3, <1>4, LessonsMove

LEMMA LessonsUnlock ==
  ASSUME Base, Lessons, NEW n \in Node, Unlock(n)
  PROVE  Lessons'
<1>1. /\ OnlyLoop(n) /\ loop[n].pc = "lock" /\ loop'[n].pc = "wait" /\ loop'[n].entries = <<>>
      /\ loop'[n].unlock = {}
      /\ locks' = [k \in LockKeys |-> IF k \in loop[n].unlock THEN 0 ELSE locks[k]]
      /\ UNCHANGED <<now, tasks, seq, trained, faults>>
  BY UnlockDoes
<1>2. faults' \in Nat /\ faults' >= faults /\ \A k \in loop[n].unlock : k[1] = "index"
  BY <1>1, LoopNats
<1>3. ~Busy(n)' /\ ToSet(loop'[n].entries) \subseteq tasks \cup ToSet(loop[n].entries)
  BY <1>1, NoEntries DEF Busy
<1>4. \A t \in Task : t.action = "train" => locks'[LockKey(t)] = locks[LockKey(t)]
  <2>1. \A t \in Task : LockKey(t) \in LockKeys /\ (t.action = "train" => LockKey(t)[1] = "train")
    BY LockFacts, Keys
  <2> QED
    BY <2>1, <1>1, <1>2
<1> QED
  BY <1>1, <1>2, <1>3, <1>4, LessonsMove

LEMMA LessonsTryLock ==
  ASSUME MaxTime < Horizon, Base, Lessons, NEW n \in Node, TryLock(n)
  PROVE  Lessons'
<1> DEFINE t == Current(n)
           key == LockKey(t)
<1>1. /\ OnlyLoop(n) /\ loop[n].pc = "lock" /\ loop[n].entries # <<>>
      /\ t \in Task /\ t \in ToSet(loop[n].entries)
      /\ UNCHANGED <<now, tasks, seq, trained>>
      /\ faults' \in 0..MaxFaults /\ faults' >= faults
      /\ \/ /\ locks[key] <= now
            /\ locks' = [locks EXCEPT ![key] = At(now + LockExpiry(t))]
            /\ loop'[n].pc = "read" /\ loop'[n].entries = loop[n].entries
            /\ loop'[n].unlock = IF t.action = "index" THEN loop[n].unlock \cup {key} ELSE loop[n].unlock
         \/ /\ locks' = locks /\ loop'[n].pc = "lock" /\ loop'[n].entries = Tail(loop[n].entries)
            /\ loop'[n].unlock = loop[n].unlock
  BY TryLockDoes
<1>2. faults' \in Nat /\ faults \in Nat /\ now \in Nat /\ \A k \in loop[n].unlock : k[1] = "index"
  BY <1>1, LoopNats
<1>3. CASE /\ locks' = locks /\ loop'[n].pc = "lock" /\ loop'[n].entries = Tail(loop[n].entries)
           /\ loop'[n].unlock = loop[n].unlock
  <2>1. ToSet(Tail(loop[n].entries)) \subseteq ToSet(loop[n].entries)
    BY <1>1, KnownTasks, Entries DEF Base
  <2>2. ~Busy(n)' /\ ToSet(loop'[n].entries) \subseteq tasks \cup ToSet(loop[n].entries)
    BY <1>3, <2>1 DEF Busy
  <2> QED
    BY <1>1, <1>2, <1>3, <2>2, LessonsMove
<1>4. CASE /\ locks[key] <= now
           /\ locks' = [locks EXCEPT ![key] = At(now + LockExpiry(t))]
           /\ loop'[n].pc = "read" /\ loop'[n].entries = loop[n].entries
           /\ loop'[n].unlock = IF t.action = "index" THEN loop[n].unlock \cup {key} ELSE loop[n].unlock
  <2>1. key \in LockKeys /\ \A u \in Task : LockKey(u) \in LockKeys
    BY <1>1, LockFacts
  <2>2. At(now + LockExpiry(t)) > now
    <3>1. LockExpiry(t) \in Nat \ {0} /\ now < Horizon /\ Horizon \in Nat
      BY <1>1, LockFacts, TaskAssumption DEF Base, Types
    <3>2. now + LockExpiry(t) \in Nat /\ now < now + LockExpiry(t)
      BY <3>1, <1>2
    <3> QED
      BY <3>1, <3>2, <1>2, LockFacts
  <2>3. /\ locks'[key] > now /\ ~(locks[key] > now)
        /\ \A k \in LockKeys : k # key => locks'[k] = locks[k]
    <3>1. locks \in [LockKeys -> 0..Horizon] /\ locks[key] \in Nat
      BY <2>1, TaskAssumption DEF Base, Types
    <3> QED
      BY <3>1, <2>1, <2>2, <1>2, <1>4
  <2>4. \A u \in Task : locks[LockKey(u)] > now => locks'[LockKey(u)] > now'
    BY <2>1, <2>3, <1>1
  <2>5. Current(n)' = t
    BY <1>4 DEF Current
  <2>6. \A m \in Node : m # n => /\ loop'[m] = loop[m] /\ Current(m)' = Current(m)
                                 /\ (Busy(m)' <=> Busy(m)) /\ (Teaching(m)' <=> Teaching(m))
    BY <1>1 DEF OnlyLoop, Current, Busy, Teaching
  <2>7. \A m \in Node : Busy(m) => Current(m) \in Task
    BY AtTask
  <2>8. \A m \in Node : LockKey(Current(m))' = LockKey(Current(m)')
    BY DEF LockKey
  <2> HIDE DEF t, key
  <2>9. \A m \in Node : Teaching(m)' => (locks[LockKey(Current(m))] > now)'
    <3> SUFFICES ASSUME NEW m \in Node, Teaching(m)' PROVE locks'[LockKey(Current(m)')] > now'
      BY <2>8
    <3>1. CASE m = n
      <4>1. locks'[LockKey(t)] > now'
        BY <2>3, <1>1 DEF key
      <4> QED
        BY <4>1, <3>1, <2>5
    <3>2. CASE m # n
      <4>1. Teaching(m) /\ Current(m) \in Task /\ Current(m)' = Current(m)
        BY <3>2, <2>6, <2>7 DEF Teaching
      <4>2. locks[LockKey(Current(m))] > now
        BY <4>1 DEF Lessons, Held
      <4> QED
        BY <4>1, <4>2, <2>4
    <3> QED
      BY <3>1, <3>2
  <2>10. ASSUME NEW m \in Node, m # n, Teaching(m), t.action = "train"
         PROVE  Current(m).doc # t.doc
    <3>1. Current(m) \in Task /\ Current(m).action = "train" /\ locks[LockKey(Current(m))] > now
      BY <2>10, <2>7 DEF Lessons, Held, Teaching
    <3>2. Current(m).doc = t.doc => LockKey(Current(m)) = key
      BY <3>1, <2>10, <1>1, Keys DEF key
    <3> QED
      BY <3>1, <3>2, <2>3
  <2>11. \A m, q \in Node : Teaching(m)' /\ Teaching(q)' /\ Current(m)'.doc = Current(q)'.doc => m = q
    <3> SUFFICES ASSUME NEW m \in Node, NEW q \in Node, Teaching(m)', Teaching(q)', m # q,
                        Current(m)'.doc = Current(q)'.doc
                 PROVE  FALSE
      OBVIOUS
    <3>1. CASE m # n /\ q # n
      BY <3>1, <2>6 DEF Lessons, Held
    <3>2. Teaching(n)' => t.action = "train"
      BY <2>5 DEF Teaching
    <3> QED
      BY <3>1, <3>2, <2>5, <2>6, <2>10
  <2>12. \A m \in Node : \A k \in loop'[m].unlock : k[1] = "index"
    <3>1. t.action = "index" => key[1] = "index"
      BY <1>1, Keys DEF key
    <3>2. \A k \in loop'[n].unlock : k[1] = "index"
      BY <3>1, <1>2, <1>4
    <3> QED
      BY <3>2, <2>6 DEF Lessons, Held
  <2>13. Held'
    BY <2>9, <2>11, <2>12 DEF Held
  <2>14. ASSUME NEW s \in 1..MaxSeq, Learnt(s)
         PROVE  Learnt(s)'
    <3>1. t.seq # s
      BY <2>14, <2>3, <1>1 DEF Learnt, key
    <3>2. s <= seq'
      BY <2>14, <1>1 DEF Learnt
    <3>3. ASSUME NEW m \in Node, NEW u \in ToSet(loop'[m].entries), u.seq = s
          PROVE  u.action = "train" /\ locks'[LockKey(u)] > now'
      <4>1. u \in ToSet(loop[m].entries)
        BY <3>3, <2>6, <1>4
      <4>2. u.action = "train" /\ locks[LockKey(u)] > now /\ u \in Task
        BY <4>1, <3>3, <2>14, KnownTasks DEF Learnt, Base
      <4> QED
        BY <4>2, <2>4
    <3>4. \A m \in Node : Busy(m)' /\ Current(m)'.seq = s => loop'[m].pc = "clear"
      BY <3>1, <2>5, <2>6, <2>14 DEF Learnt
    <3>5. ASSUME NEW u \in tasks', u.seq = s
          PROVE  \E m \in Node : loop'[m].pc = "clear" /\ Current(m)' = u
      <4>1. PICK m \in Node : loop[m].pc = "clear" /\ Current(m) = u
        BY <3>5, <2>14, <1>1 DEF Learnt
      <4>2. m # n
        BY <4>1, <1>1
      <4> QED
        BY <4>1, <4>2, <2>6
    <3> QED
      BY <3>2, <3>3, <3>4, <3>5 DEF Learnt
  <2>15. faults' = 0 => faults = 0
    BY <1>1, <1>2
  <2>16. Taught'
    BY <2>14, <2>15, <1>1 DEF Lessons, Taught
  <2> QED
    BY <2>13, <2>16 DEF Lessons
<1> QED
  BY <1>1, <1>3, <1>4

\* The filter learns: nobody else is at this document.
LEMMA LessonsApply ==
  ASSUME Base, Lessons, NEW n \in Node, Apply(n)
  PROVE  Lessons'
<1> DEFINE t == Current(n)
<1>1. /\ OnlyLoop(n) /\ loop[n].pc = "apply" /\ loop'[n].unlock = loop[n].unlock
      /\ UNCHANGED <<now, tasks, seq, locks>>
      /\ faults' \in 0..MaxFaults /\ faults' >= faults
      /\ \/ /\ t.action = "train" /\ loop'[n].pc = "clear" /\ loop'[n].entries = loop[n].entries
            /\ Trained(t)
         \/ /\ trained' = trained
            /\ \/ loop'[n].pc = "clear" /\ loop'[n].entries = loop[n].entries
               \/ loop'[n].pc = "lock" /\ loop'[n].entries = Tail(loop[n].entries)
  BY ApplyDoes
<1>2. faults' \in Nat /\ faults \in Nat /\ \A k \in loop'[n].unlock : k[1] = "index"
  BY <1>1, LoopNats
<1>3. /\ Busy(n) /\ ToSet(Tail(loop[n].entries)) \subseteq ToSet(loop[n].entries)
      /\ t \in Task /\ t \in ToSet(loop[n].entries) /\ t \in Known
  BY <1>1, AtTask DEF Busy
<1>4. CASE /\ trained' = trained
           /\ \/ loop'[n].pc = "clear" /\ loop'[n].entries = loop[n].entries
              \/ loop'[n].pc = "lock" /\ loop'[n].entries = Tail(loop[n].entries)
  <2>1. Busy(n)' => Current(n)' = Current(n)
    BY <1>4 DEF Busy, Current
  <2>2. ToSet(loop'[n].entries) \subseteq tasks \cup ToSet(loop[n].entries)
    BY <1>3, <1>4
  <2> QED
    BY <1>1, <1>2, <1>3, <1>4, <2>1, <2>2, LessonsMove
<1>5. CASE /\ t.action = "train" /\ loop'[n].pc = "clear" /\ loop'[n].entries = loop[n].entries
           /\ Trained(t)
  <2>1. Current(n)' = t /\ Busy(n)' /\ Teaching(n)
    BY <1>3, <1>5 DEF Current, Busy, Teaching
  <2>2. \A m \in Node : /\ loop'[m].entries = loop[m].entries /\ Current(m)' = Current(m)
                        /\ (Busy(m)' <=> Busy(m)) /\ (Teaching(m)' <=> Teaching(m))
                        /\ loop'[m].unlock = loop[m].unlock
                        /\ (loop[m].pc = "clear" => loop'[m].pc = "clear")
    BY <1>1, <1>3, <1>5, <2>1 DEF OnlyLoop, Current, Busy, Teaching
  <2>3. \A m \in Node : LockKey(Current(m))' = LockKey(Current(m)')
    BY DEF LockKey
  <2>4. Held'
    BY <2>2, <2>3, <1>1 DEF Lessons, Held
  <2> HIDE DEF t
  <2>5. \A s \in 1..MaxSeq : Learnt(s) => Learnt(s)'
    BY <2>2, <1>1 DEF Learnt
  <2>6. t.seq \in 1..MaxSeq /\ trained \in [1..MaxSeq -> 0..2]
    BY <1>3 DEF Task, Base, Types
  <2>7. Learnt(t.seq)'
    <3>1. t.seq <= seq'
      BY <1>1, <1>3 DEF Base, Numbered
    <3>2. locks[LockKey(t)] > now
      BY <2>1 DEF Lessons, Held, t
    <3>3. ASSUME NEW u \in Known, u.seq = t.seq PROVE u = t
      BY <3>3, <1>3 DEF Base, Numbered
    <3>4. \A m \in Node : \A u \in ToSet(loop'[m].entries) :
            u.seq = t.seq => u.action = "train" /\ locks'[LockKey(u)] > now'
      BY <3>2, <3>3, <2>2, <1>1, <1>5, KnownTasks DEF Base
    <3>5. ASSUME NEW m \in Node, Busy(m)', Current(m)'.seq = t.seq
          PROVE  loop'[m].pc = "clear"
      <4>1. Busy(m) /\ Current(m) = t
        BY <3>3, <3>5, <2>2, AtTask
      <4>2. m = n
        BY <4>1, <2>1, <1>5 DEF Lessons, Held, Teaching, t
      <4> QED
        BY <4>2, <1>5
    <3>6. \A u \in tasks' : u.seq = t.seq => loop'[n].pc = "clear" /\ Current(n)' = u
      <4>1. tasks' \subseteq Known
        BY <1>1 DEF Known
      <4> QED
        BY <4>1, <3>3, <2>1, <1>5
    <3>7. /\ t.seq <= seq'
          /\ \A m \in Node : Busy(m)' /\ Current(m)'.seq = t.seq => loop'[m].pc = "clear"
          /\ \A u \in tasks' : u.seq = t.seq => \E m \in Node : loop'[m].pc = "clear" /\ Current(m)' = u
      BY <3>1, <3>5, <3>6
    <3>8. \A s : s = t.seq => Learnt(s)'
      BY <3>4, <3>7 DEF Learnt
    <3>9. t' = t
      BY <2>1 DEF t
    <3> QED
      BY <3>8, <3>9
  <2>8. faults = 0 => trained[t.seq] = 0
    <3>1. faults = 0 /\ trained[t.seq] = 1 => Learnt(t.seq)
      BY <2>6 DEF Lessons, Taught
    <3>2. ~Learnt(t.seq)
      BY <1>1, <1>3 DEF Learnt, t
    <3>3. faults = 0 => trained[t.seq] <= 1
      BY <2>6 DEF Lessons, Taught
    <3> QED
      BY <3>1, <3>2, <3>3, <2>6
  <2>9. /\ \A s \in 1..MaxSeq : s # t.seq => trained'[s] = trained[s]
        /\ trained[t.seq] = 0 => trained'[t.seq] = 1
    BY <1>5, <2>6 DEF Trained
  <2>10. faults' = 0 => faults = 0
    BY <1>1, <1>2
  <2>11. Taught'
    <3> SUFFICES ASSUME faults' = 0, NEW s \in 1..MaxSeq
                 PROVE  trained'[s] <= 1 /\ (trained'[s] = 1 => Learnt(s)')
      BY DEF Taught
    <3>1. CASE s = t.seq
      <4>1. t' = t
        BY <2>1 DEF t
      <4> QED
        BY <3>1, <4>1, <2>7, <2>8, <2>9, <2>10
    <3>2. CASE s # t.seq
      BY <3>2, <2>5, <2>9, <2>10 DEF Lessons, Taught
    <3> QED
      BY <3>1, <3>2
  <2> QED
    BY <2>4, <2>11 DEF Lessons
<1> QED
  BY <1>1, <1>4, <1>5

LEMMA LessonsStep ==
  ASSUME ~LocksOutlasted, MaxTime < Horizon, Base, Lessons, [Next]_vars
  PROVE  Lessons'
<1>1. ASSUME NEW n \in Node, Loop(n) PROVE Lessons'
  BY <1>1, LessonsScan, LessonsTryLock, LessonsRead, LessonsApply, LessonsClear, LessonsUnlock DEF Loop
<1> QED
  BY <1>1, LessonsRequest, LessonsPurge, LessonsCrash, LessonsOther, LessonsTick DEF Next

-------------------------------------------------------------------------------
(* Theorems. *)

LEMMA FtsInit ==
  ASSUME Init
  PROVE  Fts
<1>1. \A n \in Node : loop[n].pc = "wait" /\ purge[n].ids = {}
  BY DEF Init, IdleLoop, IdlePurge
<1>2. \A d \in Doc : terms[d] = {}
  BY DEF Init
<1> QED
  BY <1>1, <1>2 DEF Fts, Own, Truly, Purged

LEMMA KeptInit ==
  ASSUME Init
  PROVE  Kept
<1>1. \A n \in Node : loop[n].pc = "wait"
  BY DEF Init, IdleLoop
<1>2. \A d \in Doc : ~Live(d)
  BY DEF Init, Live
<1> QED
  BY <1>1, <1>2 DEF Kept, NeverForgotten, Clearable

LEMMA SingleInit ==
  ASSUME Init
  PROVE  Single
<1>1. \A n \in Node : purge[n].pc = "idle" /\ purge[n].ids = {}
  BY DEF Init, IdlePurge
<1> QED
  BY <1>1 DEF Single, Purging

LEMMA LessonsInit ==
  ASSUME Init
  PROVE  Lessons
<1>1. \A n \in Node : loop[n].pc = "wait" /\ loop[n].unlock = {}
  BY DEF Init, IdleLoop
<1>2. \A s \in 1..MaxSeq : trained[s] = 0
  BY DEF Init
<1>3. Held
  BY <1>1 DEF Held, Teaching, Busy
<1>4. Taught
  BY <1>2 DEF Taught
<1> QED
  BY <1>3, <1>4 DEF Lessons

\* The state stays well formed, and a sequence number belongs to one task (the snowflake ids
\* in the keys of TaskQueue), whose lock it names.
THEOREM TasksAreNumbered == Spec => []TypeOK
<1>1. Init => Base
  BY BaseInit
<1>2. Base /\ [Next]_vars => Base'
  BY BaseStep
<1>3. Base => TypeOK
  BY DEF Base, Types, Numbered, Known, LoopType, PurgeType, Email, TypeOK
<1> QED
  BY <1>1, <1>2, <1>3, PTL DEF Spec

\* A message that is not in the index has a task queued for it, whatever fails, whoever dies,
\* whatever is purged and however long anything takes: email_task_queued removes a task when
\* the terms are written or its message is gone, and a message that comes to the same id has
\* a later one.
THEOREM NoneForgotten == Spec => []NeverForgotten
<1>1. Init => Base /\ Kept
  BY BaseInit, KeptInit
<1>2. Base /\ Kept /\ [Next]_vars => (Base /\ Kept)'
  BY BaseStep, KeptStep
<1>3. Kept => NeverForgotten
  BY DEF Kept
<1> QED
  BY <1>1, <1>2, <1>3, PTL DEF Spec

\* No message is found by the words of another although document ids are used again, if a
\* document is not indexed while it is purged: the hash in the task is compared with the
\* message's, and fts_remove comes before the id is freed.
THEOREM OwnWordsOnly ==
  ASSUME ~PurgeMeetsIndexer
  PROVE  Spec => []NoStaleTerms
<1>1. Init => Base /\ Fts
  BY BaseInit, FtsInit
<1>2. Base /\ Fts /\ [Next]_vars => (Base /\ Fts)'
  BY BaseStep, FtsStep
<1>3. Fts => NoStaleTerms
  BY DEF Fts, Own, NoStaleTerms, Live
<1> QED
  BY <1>1, <1>2, <1>3, PTL DEF Spec

\* No step deletes a message without a tombstone, if a purge does not outlast the lock of
\* its account: purge_account keeps purges apart, so that no document id is freed, and given
\* to a new message, while another purge still has it on its list.
THEOREM PurgesSpareTheLiving ==
  ASSUME ~LocksOutlasted, MaxTime < Horizon
  PROVE  Spec => LiveStays
<1>1. Init => Base /\ Single
  BY BaseInit, SingleInit
<1>2. Base /\ Single /\ [Next]_vars => (Base /\ Single)'
  BY BaseStep, SingleStep
<1>3. Base /\ Single /\ [Next]_vars => [\A d \in Doc : Live(d) => email'[d] # NoEmail]_vars
  BY NothingLive
<1> QED
  BY <1>1, <1>2, <1>3, PTL DEF Spec, LiveStays

\* What the full-text index and the spam filter know of an account: the words under an id are
\* those of its message, no message is forgotten, and the filter learns from a task once, if
\* a document is not indexed while it is purged and no round of tasks outlasts its locks (the
\* lock of a training is not removed at the end of the round: remove_lock).
THEOREM IndexIsTrue ==
  ASSUME ~PurgeMeetsIndexer, ~LocksOutlasted, MaxTime < Horizon
  PROVE  Spec => []IndexHolds
<1> DEFINE Inv == Base /\ Kept /\ Fts /\ Lessons
<1>1. Init => Inv
  BY BaseInit, KeptInit, FtsInit, LessonsInit
<1>2. Inv /\ [Next]_vars => Inv'
  <2> SUFFICES ASSUME Base, Kept, Fts, Lessons, [Next]_vars PROVE Base' /\ Kept' /\ Fts' /\ Lessons'
    OBVIOUS
  <2>1. Base' /\ Kept'
    BY BaseStep, KeptStep
  <2>2. Fts'
    BY FtsStep
  <2>3. Lessons'
    BY LessonsStep
  <2> QED
    BY <2>1, <2>2, <2>3
<1>3. Inv => IndexHolds
  BY DEF IndexHolds, Kept, Fts, Own, NoStaleTerms, Live, Lessons, Taught, TrainedOnce
<1> QED
  BY <1>1, <1>2, <1>3, PTL DEF Spec
===============================================================================
