--------------------------- MODULE HousekeeperProofs ---------------------------
(***************************************************************************)
(* Proof about Housekeeper, for any number of nodes, tasks, failures and   *)
(* crashes: the lock of a store keeps its purges apart, if a purge takes   *)
(* less time than the lock lasts.                                          *)
(***************************************************************************)
EXTENDS Housekeeper, FiniteSetTheorems, TLAPS

Holds(t) == task[t].pc \in {"purge", "unlock"}

\* What the argument needs of the types.
Types ==
    /\ lock \in Nat
    /\ task \in [Task -> [pc : {"none", "lock", "purge", "unlock"}, age : Nat]]

\* The lock of a task that holds it lasts for as long as the task is younger than the lock
\* and no task gets older than PurgeTime.
Covered ==
    \A t \in Task : Holds(t) => task[t].age <= PurgeTime /\ lock + task[t].age >= LockTtl

\* One task holds the lock.
OneHolder == \A t, u \in Task : Holds(t) /\ Holds(u) => t = u

IInv == Types /\ Covered /\ OneHolder

LEMMA Numbers == PurgeTime \in Nat /\ LockTtl \in Nat
  BY HousekeeperAssumption

\* The lock is there while a task relies on it.
LEMMA LockedWhileHeld ==
  ASSUME PurgeTime < LockTtl, IInv, NEW t \in Task, Holds(t)
  PROVE  Locked
  BY Numbers DEF IInv, Types, Covered, Locked

\* Tasks that begin or end, one or many at a time, leave the lock to the others.
LEMMA OthersStay ==
  ASSUME IInv, lock' = lock, task' \in [Task -> [pc : {"none", "lock", "purge", "unlock"}, age : Nat]],
         \A t \in Task : Holds(t)' => Holds(t) /\ task'[t].age = task[t].age
  PROVE  IInv'
  BY DEF IInv, Types, Covered, OneHolder

LEMMA NoTaskType == NoTask \in [pc : {"none", "lock", "purge", "unlock"}, age : Nat] /\ NoTask.pc = "none"
  BY DEF NoTask

\* A purge that begins has no lock yet.
LEMMA SpawnStep ==
  ASSUME IInv, NEW n \in Node, SpawnPurge(n), UNCHANGED lock
  PROVE  IInv'
<1>1. PICK t \in Task : task' = [task EXCEPT ![t] = [pc |-> "lock", age |-> 0]]
  BY DEF SpawnPurge, Free
<1>2. task' \in [Task -> [pc : {"none", "lock", "purge", "unlock"}, age : Nat]]
  BY <1>1 DEF IInv, Types
<1>3. \A u \in Task : Holds(u)' => Holds(u) /\ task'[u].age = task[u].age
  BY <1>1 DEF IInv, Types, Holds
<1> QED
  BY <1>2, <1>3, OthersStay

\* try_lock: one that gets the lock was alone.
LEMMA TryLockStep ==
  ASSUME PurgeTime < LockTtl, IInv, NEW t \in Task, TryLock(t)
  PROVE  IInv'
<1>1. CASE task' = [task EXCEPT ![t] = NoTask] /\ UNCHANGED lock
  <2>1. task' \in [Task -> [pc : {"none", "lock", "purge", "unlock"}, age : Nat]]
    BY <1>1, NoTaskType DEF IInv, Types
  <2>2. \A u \in Task : Holds(u)' => Holds(u) /\ task'[u].age = task[u].age
    BY <1>1, NoTaskType DEF IInv, Types, Holds
  <2> QED
    BY <1>1, <2>1, <2>2, OthersStay
<1>2. CASE ~Locked /\ task' = [task EXCEPT ![t] = [pc |-> "purge", age |-> 0]] /\ lock' = LockTtl
  <2>1. \A u \in Task : ~Holds(u)
    BY <1>2, LockedWhileHeld
  <2>2. \A u \in Task : u # t => task'[u] = task[u]
    BY <1>2 DEF IInv, Types
  <2>3. task'[t] = [pc |-> "purge", age |-> 0]
    BY <1>2 DEF IInv, Types
  <2>4. Types'
    BY <1>2, Numbers DEF IInv, Types
  <2>5. \A u \in Task : Holds(u)' => u = t
    BY <2>1, <2>2 DEF Holds
  <2>6. Covered'
    BY <1>2, <2>3, <2>5, Numbers DEF Covered
  <2>7. OneHolder'
    BY <2>5 DEF OneHolder
  <2> QED
    BY <2>4, <2>6, <2>7 DEF IInv
<1> QED
  BY <1>1, <1>2 DEF TryLock

LEMMA PurgeStoreStep ==
  ASSUME IInv, NEW t \in Task, PurgeStore(t)
  PROVE  IInv'
<1>1. task' = [task EXCEPT ![t].pc = "unlock"] /\ lock' = lock /\ task[t].pc = "purge"
  BY DEF PurgeStore
<1>2. task' \in [Task -> [pc : {"none", "lock", "purge", "unlock"}, age : Nat]]
  BY <1>1 DEF IInv, Types
<1>3. \A u \in Task : Holds(u)' => Holds(u) /\ task'[u].age = task[u].age
  BY <1>1 DEF IInv, Types, Holds
<1> QED
  BY <1>1, <1>2, <1>3, OthersStay

\* remove_lock: the lock that is removed is the task's own.
LEMMA RemoveLockStep ==
  ASSUME IInv, NEW t \in Task, RemoveLock(t)
  PROVE  IInv'
<1>1. task' = [task EXCEPT ![t] = NoTask] /\ lock' = 0 /\ Holds(t)
  BY DEF RemoveLock, Holds
<1>2. \A u \in Task : ~Holds(u)'
  BY <1>1, NoTaskType DEF IInv, Types, OneHolder, Holds
<1>3. Types'
  BY <1>1, NoTaskType DEF IInv, Types
<1> QED
  BY <1>2, <1>3 DEF IInv, Covered, OneHolder

\* A node that crashes leaves the lock behind, and no task.
LEMMA CrashStep ==
  ASSUME IInv, NEW n \in Node, Crash(n)
  PROVE  IInv'
<1>1. task' = [t \in Task |-> IF t[1] = n THEN NoTask ELSE task[t]] /\ lock' = lock
  BY DEF Crash
<1>2. task' \in [Task -> [pc : {"none", "lock", "purge", "unlock"}, age : Nat]]
  BY <1>1, NoTaskType DEF IInv, Types
<1>3. \A t \in Task : task'[t] = task[t] \/ task'[t] = NoTask
  BY <1>1
<1>4. \A u \in Task : Holds(u)' => Holds(u) /\ task'[u].age = task[u].age
  BY <1>3, NoTaskType DEF Holds
<1> QED
  BY <1>1, <1>2, <1>4, OthersStay

\* Time passes: a purge is not older than PurgeTime, and the lock outlasts it.
LEMMA TickStep ==
  ASSUME PurgeTime < LockTtl, IInv, Tick
  PROVE  IInv'
<1>1. /\ \A t \in Task : task[t].age < PurgeTime
      /\ task' = [t \in Task |-> IF task[t].pc \in {"purge", "unlock"} THEN [task[t] EXCEPT !.age = @ + 1] ELSE task[t]]
      /\ lock' = IF lock > 0 THEN lock - 1 ELSE 0
  BY DEF Tick
<1>2. ASSUME NEW r \in [pc : {"none", "lock", "purge", "unlock"}, age : Nat]
      PROVE  /\ [r EXCEPT !.age = @ + 1] \in [pc : {"none", "lock", "purge", "unlock"}, age : Nat]
             /\ [r EXCEPT !.age = @ + 1].pc = r.pc /\ [r EXCEPT !.age = @ + 1].age = r.age + 1
  OBVIOUS
<1>3. \A t \in Task : task[t] \in [pc : {"none", "lock", "purge", "unlock"}, age : Nat]
  BY DEF IInv, Types
<1>4. \A t \in Task : /\ task'[t] \in [pc : {"none", "lock", "purge", "unlock"}, age : Nat]
                      /\ task'[t].pc = task[t].pc
                      /\ Holds(t) => task'[t].age = task[t].age + 1
  BY <1>1, <1>2, <1>3 DEF Holds
<1>5. Types'
  <2>1. lock' \in Nat
    BY <1>1 DEF IInv, Types
  <2> QED
    BY <1>1, <1>4, <2>1 DEF Types
<1>6. \A t \in Task : Holds(t)' <=> Holds(t)
  BY <1>4 DEF Holds
<1>7. ASSUME NEW t \in Task, Holds(t)
      PROVE  task'[t].age <= PurgeTime /\ lock' + task'[t].age >= LockTtl
  <2>1. lock > 0
    BY <1>7, LockedWhileHeld DEF Locked
  <2>2. lock' = lock - 1 /\ lock \in Nat
    BY <1>1, <2>1 DEF IInv, Types
  <2>3. task'[t].age = task[t].age + 1 /\ task[t].age \in Nat /\ task[t].age < PurgeTime
    BY <1>1, <1>3, <1>4, <1>7
  <2>4. lock + task[t].age >= LockTtl
    BY <1>7 DEF IInv, Covered
  <2> QED
    BY <2>2, <2>3, <2>4, Numbers
<1>8. Covered'
  BY <1>6, <1>7 DEF Covered
<1>9. OneHolder'
  BY <1>6 DEF IInv, OneHolder
<1> QED
  BY <1>5, <1>8, <1>9 DEF IInv

\* All steps.
LEMMA PurgeSteps ==
  ASSUME PurgeTime < LockTtl, IInv, [Next]_vars
  PROVE  IInv'
<1>1. CASE UNCHANGED <<task, lock>>
  BY <1>1 DEF IInv, Types, Covered, OneHolder, Holds
<1>2. ASSUME NEW n \in Node, Receive(n) PROVE IInv'
  <2>1. CASE UNCHANGED task
    BY <1>1, <1>2, <2>1 DEF Receive
  <2>2. CASE SpawnPurge(n)
    BY <1>2, <2>2, SpawnStep DEF Receive
  <2> QED
    BY <1>2, <2>1, <2>2 DEF Receive, Handle
<1>3. ASSUME NEW n \in Node, NEW c \in Classes, Run(n, c) PROVE IInv'
  <2>1. CASE UNCHANGED task
    BY <1>1, <1>3, <2>1 DEF Run
  <2>2. CASE SpawnPurge(n)
    BY <1>3, <2>2, SpawnStep DEF Run
  <2> QED
    BY <1>3, <2>1, <2>2 DEF Run, Spawn
<1>4. ASSUME NEW n \in Node, NEW k \in {"init", "renew"}, Renewed(n, k) PROVE IInv'
  BY <1>1, <1>4 DEF Renewed, purges
<1>5. ASSUME NEW n \in Node, AskPurge(n) \/ \E b \in BOOLEAN : Reload(n, b) PROVE IInv'
  BY <1>1, <1>5 DEF AskPurge, Reload, purges
<1>6. ASSUME NEW t \in Task, TaskStep(t) PROVE IInv'
  BY <1>6, TryLockStep, PurgeStoreStep, RemoveLockStep DEF TaskStep
<1>7. CASE UNCHANGED vars
  BY <1>1, <1>7 DEF vars, purges
<1> QED
  BY <1>2, <1>3, <1>4, <1>5, <1>6, <1>7, CrashStep, TickStep DEF Next, NodeStep

\* Two purges of a store never run at the same time, on whatever nodes they were scheduled
\* or asked for and whichever of them fails or crashes, if a purge takes less time than its
\* lock lasts, which is an hour (KV_LOCK_HOUSEKEEPER in Purge::purge).
THEOREM PurgesExclude ==
  ASSUME PurgeTime < LockTtl
  PROVE  Spec => []OnePurge
<1>1. Init => IInv
  <2> SUFFICES ASSUME Init PROVE IInv
    OBVIOUS
  <2>1. task = [t \in Task |-> NoTask] /\ lock = 0
    BY DEF Init
  <2> QED
    BY <2>1, NoTaskType DEF IInv, Types, Covered, OneHolder, Holds
<1>2. IInv /\ [Next]_vars => IInv'
  BY PurgeSteps
<1>3. IInv => OnePurge
  <2> SUFFICES ASSUME IInv PROVE OnePurge
    OBVIOUS
  <2> DEFINE S == {t \in DOMAIN task : task[t].pc = "purge"}
  <2>1. \A t, u \in S : t = u
    BY DEF IInv, Types, OneHolder, Holds
  <2>2. S = {} \/ \E t : S = {t}
    BY <2>1
  <2>3. Cardinality(S) <= 1
    <3> HIDE DEF S
    <3>1. CASE S = {}
      BY <3>1, FS_EmptySet
    <3>2. ASSUME NEW t, S = {t} PROVE Cardinality(S) = 1
      BY <3>2, FS_Singleton
    <3> QED
      BY <2>2, <3>1, <3>2
  <2> QED
    BY <2>3 DEF OnePurge
<1> QED
  BY <1>1, <1>2, <1>3, PTL DEF Spec
================================================================================
