--------------------------- MODULE MailThreadsProofs ---------------------------
(***************************************************************************)
(* Proofs about MailThreads, for any number of requests, messages,         *)
(* documents and threads: a UID is given once, and the two ways to store   *)
(* the thread of a message agree.  The second is proved for messages that  *)
(* are stored at the same time, which the assertion of find_or_merge_thread *)
(* is for; a deletion runs alone, or the tags it removes may be stale.      *)
(***************************************************************************)
EXTENDS MailThreads, FiniteSetTheorems, WellFoundedInduction, TLAPS

-------------------------------------------------------------------------------
(* The thread that find_or_merge_thread chooses. *)

\* A set of numbers that is not empty has a least element.
LEMMA LeastNumber ==
  ASSUME NEW S \in SUBSET Nat, S # {}
  PROVE  \E x \in S : \A y \in S : x <= y
<1> DEFINE T == {0..x : x \in S}
<1>1. T \subseteq FiniteSubsetsOf(Nat) /\ T # {}
  <2>1. ASSUME NEW x \in S PROVE 0..x \in SUBSET Nat /\ IsFiniteSet(0..x)
    <3>1. IsFiniteSet(0..x)
      BY FS_Interval
    <3> QED
      BY <3>1
  <2> QED
    BY <2>1 DEF FiniteSubsetsOf
<1>2. IsWellFoundedOn(StrictSubsetOrdering(Nat), FiniteSubsetsOf(Nat))
  BY FS_StrictSubsetOrderingWellFounded
<1>3. PICK m \in T : \A u \in T : <<u, m>> \notin StrictSubsetOrdering(Nat)
  <2> HIDE DEF T
  <2> QED
    BY <1>1, <1>2, WFMin
<1>4. PICK x \in S : m = 0..x
  BY <1>3
<1>5. ASSUME NEW y \in S, y < x PROVE FALSE
  <2>1. 0..y \in T
    OBVIOUS
  <2>2. x \in 0..x /\ x \notin 0..y
    BY <1>5
  <2>3. <<0..y, 0..x>> \in StrictSubsetOrdering(Nat)
    BY <2>2, <1>5 DEF StrictSubsetOrdering
  <2> QED
    BY <2>1, <2>3, <1>3, <1>4
<1> QED
  BY <1>5

\* A set of numbers with a bound has a greatest element.
LEMMA GreatestNumber ==
  ASSUME NEW S \in SUBSET Nat, S # {}, NEW n \in Nat, \A x \in S : x <= n
  PROVE  \E x \in S : \A y \in S : y <= x
<1> DEFINE T == {k \in Nat : \A x \in S : x <= k}
<1>1. PICK k \in T : \A j \in T : k <= j
  BY LeastNumber, n \in T
<1>2. k \in S
  <2>1. SUFFICES ASSUME k \notin S PROVE FALSE
    OBVIOUS
  <2>2. PICK x \in S : TRUE
    OBVIOUS
  <2>3. k > 0
    BY <1>1, <2>1, <2>2
  <2>4. k - 1 \in T
    BY <1>1, <2>1, <2>3
  <2> QED
    BY <1>1, <2>4
<1> QED
  BY <1>1, <1>2

\* A finite set of numbers that is not empty has a greatest element: MaxOf is one.
LEMMA MaxOfFinite ==
  ASSUME NEW S \in SUBSET Nat, S # {}, IsFiniteSet(S)
  PROVE  MaxOf(S) \in S /\ \A y \in S : y <= MaxOf(S)
<1> DEFINE Bounded(U) == \E n \in Nat : \A x \in U : x <= n
           B == {U \in SUBSET S : ~Bounded(U)}
<1>1. ASSUME B # {} PROVE FALSE
  <2>1. B \subseteq FiniteSubsetsOf(S)
    BY FS_FiniteSubsetsOfFinite
  <2>2. IsWellFoundedOn(StrictSubsetOrdering(S), FiniteSubsetsOf(S))
    BY FS_StrictSubsetOrderingWellFounded
  <2>3. PICK U \in B : \A V \in B : <<V, U>> \notin StrictSubsetOrdering(S)
    <3> HIDE DEF B
    <3> QED
      BY <1>1, <2>1, <2>2, WFMin
  <2>4. PICK x \in U : TRUE
    BY <2>3
  <2>5. <<U \ {x}, U>> \in StrictSubsetOrdering(S)
    BY <2>3, <2>4 DEF StrictSubsetOrdering
  <2>6. PICK n \in Nat : \A y \in U \ {x} : y <= n
    BY <2>3, <2>5
  <2>7. \A y \in U : y <= n + x
    BY <2>3, <2>4, <2>6
  <2>8. n + x \in Nat
    BY <2>3, <2>4, <2>6
  <2>9. Bounded(U)
    BY Zenon, <2>7, <2>8
  <2> QED
    BY Zenon, <2>3, <2>9
<1>2. PICK n \in Nat : \A x \in S : x <= n
  BY <1>1
<1>3. \E x \in S : \A y \in S : y <= x
  BY <1>2, GreatestNumber
<1> QED
  BY <1>3 DEF MaxOf

LEMMA MaxInRange ==
  ASSUME NEW n \in Nat, NEW S \in SUBSET (1..n), S # {}
  PROVE  MaxOf(S) \in 1..n
<1>1. \A x \in S : x \in Nat
  OBVIOUS
<1>2. IsFiniteSet(1..n)
  BY FS_Interval
<1>3. IsFiniteSet(S)
  BY <1>2, FS_Subset
<1>4. MaxOf(S) \in S
  BY <1>1, <1>3, MaxOfFinite
<1> QED
  BY <1>4

\* Where there are threads, one of them is chosen.
LEMMA MostCommonIsHit ==
  ASSUME NEW found \in SUBSET Doc, NEW map, Hits(found, map) # {}
  PROVE  MostCommon(found, map) \in Hits(found, map)
<1> DEFINE H == Hits(found, map)
           In(t) == InThread(t, found, map)
           most == {t \in H : \A u \in H : Cardinality(In(u)) <= Cardinality(In(t))}
<1>1. \A t \in H : In(t) \in SUBSET Nat /\ In(t) # {} /\ IsFiniteSet(In(t))
  <2>1. \A t \in H : In(t) \in SUBSET Doc /\ In(t) # {}
    BY DEF Hits, InThread
  <2> QED
    BY <2>1, FS_Subset, MailAssumption
<1>2. IsFiniteSet(found)
  BY FS_Subset, MailAssumption
<1>3. \A t \in H : Cardinality(In(t)) \in Nat /\ Cardinality(In(t)) <= Cardinality(found)
  <2>1. \A t \in H : In(t) \in SUBSET found
    BY DEF InThread
  <2> QED
    BY <1>1, <1>2, <2>1, FS_Subset, FS_CardinalityType
<1>4. most # {}
  <2> DEFINE C == {Cardinality(In(t)) : t \in H}
  <2>1. C \in SUBSET Nat /\ C # {} /\ \A x \in C : x <= Cardinality(found)
    BY <1>3
  <2>2. Cardinality(found) \in Nat
    BY <1>2, FS_CardinalityType
  <2>3. PICK x \in C : \A y \in C : y <= x
    <3> HIDE DEF C
    <3> QED
      BY <2>1, <2>2, GreatestNumber
  <2> QED
    BY <2>3
<1>5. \E t \in most : \A u \in most : MaxOf(In(t)) <= MaxOf(In(u))
  <2> DEFINE M == {MaxOf(In(t)) : t \in most}
  <2>1. \A t \in most : MaxOf(In(t)) \in Nat
    BY <1>1, MaxOfFinite
  <2>2. M \in SUBSET Nat /\ M # {}
    BY <1>4, <2>1
  <2>3. PICK x \in M : \A y \in M : x <= y
    <3> HIDE DEF M
    <3> QED
      BY <2>2, LeastNumber
  <2> QED
    BY <2>3
<1>6. MostCommon(found, map) = CHOOSE t \in most : \A u \in most : MaxOf(In(t)) <= MaxOf(In(u))
  BY DEF MostCommon
<1>7. MostCommon(found, map) \in most
  <2> HIDE DEF most, In
  <2> QED
    BY <1>5, <1>6
<1> QED
  BY <1>7

-------------------------------------------------------------------------------
(* The inductive invariants. *)

\* TypeOK but for the UIDs.
Types ==
    /\ mail \in [Doc -> Mail \cup {NoMail}] /\ tag \in [Thread -> SUBSET Doc] /\ threads \subseteq Thread
    /\ log \subseteq 1..MaxIds /\ ids \in 0..MaxIds /\ uids \in 0..MaxIds
    /\ cache \in [modseq: 0..MaxIds, map: [Doc -> MaybeThread]]
    /\ proc \in [Proc -> Request]

\* A message that is deleted has no thread, one that is not has one.
Tombs == \A d \in Doc : Stored(d) => (mail[d].tomb <=> mail[d].thread = NoThread)

\* A merge goes to a thread, from others.
Targets ==
    \A p \in Proc : proc[p].pc = "merge" =>
        /\ proc[p].thread \in Thread /\ proc[p].thread \notin proc[p].dead
        /\ proc[p].moves \subseteq Doc \X proc[p].dead

\* A change id is drawn before it is logged.
Drawn == \A p \in Proc : proc[p].pc \in {"merge", "insert"} => proc[p].id \in 1..MaxIds

\* A message is stored for a request that has one.
Named == \A p \in Proc : Ingesting(p) => proc[p].msg \in Msg

\* The counter is ahead of all UIDs, those of messages about to be stored included, and no
\* two of them are the same.
Uids ==
    /\ \A d \in Doc : Stored(d) => mail[d].uid <= uids
    /\ \A p \in Proc : proc[p].pc = "insert" => proc[p].uid \in 1..uids
    /\ \A p \in Proc, d \in Doc : proc[p].pc = "insert" /\ Stored(d) => mail[d].uid # proc[p].uid
    /\ \A p, q \in Proc : proc[p].pc = "insert" /\ proc[q].pc = "insert" /\ proc[p].uid = proc[q].uid => p = q
    /\ \A c, d \in Doc : Stored(c) /\ Stored(d) /\ mail[c].uid = mail[d].uid => c = d

\* Nothing else is at work beside a deletion.
Alone == \A p, q \in Proc : Deleting(p) /\ p # q => proc[q].pc = "idle"

\* What a deletion has read is what is stored.
Current ==
    \A p \in Proc : proc[p].pc = "tombstone" =>
        \A mv \in proc[p].moves : Stored(mv[1]) /\ mail[mv[1]].thread = mv[2]

\* What every step of a request does to the others: nothing.
LEMMA OneProc ==
  ASSUME NEW p \in Proc, NEW r \in Request, proc \in [Proc -> Request],
         proc' = [proc EXCEPT ![p] = r]
  PROVE  /\ proc' \in [Proc -> Request] /\ proc'[p] = r
         /\ \A q \in Proc : q # p => proc'[q] = proc[q]
  OBVIOUS

LEMMA IdleType == Idle \in Request
  BY MailAssumption DEF Idle, Request, Steps, MaybeThread

LEMMA InitHolds == Init => Types /\ Tombs /\ Targets /\ Drawn /\ Named /\ Uids /\ Alone /\ Current /\ TagsMatch
  BY MailAssumption, IdleType
  DEF Init, Types, Tombs, Targets, Drawn, Named, Ingesting, Uids, Alone, Current, TagsMatch, Stored, Deleting, Idle, MaybeThread

\* Steps that change one request and counters at most: what they have to leave alone.
LEMMA QuietStep ==
  ASSUME Types, NEW p \in Proc, NEW r \in Request, proc' = [proc EXCEPT ![p] = r],
         UNCHANGED store, r.pc \notin {"merge", "insert", "tombstone"},
         r.pc \in {"find", "threads", "assign"} => r.msg \in Msg,
         uids' \in 0..MaxIds, uids <= uids'
  PROVE  /\ Tombs => Tombs'
         /\ Targets => Targets'
         /\ Drawn => Drawn'
         /\ Named => Named'
         /\ Uids => Uids'
         /\ TagsMatch => TagsMatch'
         /\ Current => Current'
<1>1. /\ proc'[p] = r /\ \A q \in Proc : q # p => proc'[q] = proc[q]
  BY OneProc DEF Types
<1>2. Tombs => Tombs'
  BY DEF store, Tombs, Stored
<1>3. (Targets => Targets') /\ (Drawn => Drawn') /\ (Named => Named')
  BY <1>1 DEF Targets, Drawn, Named, Ingesting
<1>4. Uids => Uids'
  <2> SUFFICES ASSUME Uids PROVE Uids'
    OBVIOUS
  <2>1. \A q \in Proc : proc'[q].pc = "insert" => q # p /\ proc'[q] = proc[q]
    BY <1>1
  <2>2. \A d \in Doc : Stored(d)' <=> Stored(d)
    BY DEF store, Stored
  <2>3. mail' = mail
    BY DEF store
  <2>4. \A d \in Doc : Stored(d) => mail[d].uid \in Nat
    BY DEF Types, Stored, Mail
  <2>5. uids \in Nat /\ uids' \in Nat /\ \A q \in Proc : proc[q].uid \in Nat
    BY MailAssumption DEF Types, Request
  <2> QED
    BY <2>1, <2>2, <2>3, <2>4, <2>5 DEF Uids
<1>5. TagsMatch => TagsMatch'
  BY DEF store, TagsMatch, Stored
<1>6. Current => Current'
  BY <1>1 DEF store, Current, Stored
<1> QED
  BY <1>2, <1>3, <1>4, <1>5, <1>6

\* A request that goes on alone stays alone.
LEMMA AloneStep ==
  ASSUME Types, NEW p \in Proc, NEW r \in Request, proc' = [proc EXCEPT ![p] = r], Alone,
         r.pc \in {"tombstone", "commit"} => Deleting(p),
         r.pc # "idle" => proc[p].pc # "idle"
  PROVE  Alone'
<1>1. /\ proc'[p] = r /\ \A q \in Proc : q # p => proc'[q] = proc[q]
  BY OneProc DEF Types
<1> QED
  BY <1>1 DEF Alone, Deleting

-------------------------------------------------------------------------------
(* Each step keeps them. *)

Safe == Types /\ Tombs /\ Targets /\ Drawn /\ Named /\ Uids

Matched == Deletes # "any" => Alone /\ Current /\ TagsMatch

LEMMA StartIngestStep ==
  ASSUME NEW p \in Proc, NEW m \in Msg, Safe, Matched, StartIngest(p, m)
  PROVE  Safe' /\ Matched'
<1> DEFINE r == [Idle EXCEPT !.pc = "find", !.msg = m]
<1>1. r \in Request /\ r.pc = "find" /\ r.msg \in Msg
  BY IdleType DEF Request, Steps, Idle
<1>2. proc' = [proc EXCEPT ![p] = r] /\ UNCHANGED <<store, uids>>
  BY DEF StartIngest
<1> HIDE DEF r
<1>3. Types'
  BY <1>1, <1>2, OneProc DEF Safe, Types, StartIngest, store
<1>4. Tombs' /\ Targets' /\ Drawn' /\ Named' /\ Uids' /\ (TagsMatch => TagsMatch') /\ (Current => Current')
  <2>1. uids' \in 0..MaxIds /\ uids <= uids'
    BY <1>2, MailAssumption DEF Safe, Types
  <2> QED
    BY <1>1, <1>2, <2>1, QuietStep DEF Safe
<1>5. ASSUME Deletes # "any", Alone PROVE Alone'
  <2>1. \A q \in Proc : ~Deleting(q)
    BY <1>5 DEF StartIngest
  <2>2. /\ proc'[p] = r /\ \A q \in Proc : q # p => proc'[q] = proc[q]
    BY <1>1, <1>2, OneProc DEF Safe, Types
  <2>3. \A q \in Proc : ~Deleting(q)'
    BY <1>1, <2>1, <2>2 DEF Deleting
  <2> QED
    BY <2>3 DEF Alone
<1> QED
  BY <1>3, <1>4, <1>5 DEF Safe, Matched

LEMMA FindMatchesStep ==
  ASSUME NEW p \in Proc, Safe, Matched, FindMatches(p)
  PROVE  Safe' /\ Matched'
<1> DEFINE found == {d \in Doc : Stored(d) /\ Refs(mail[d].msg) \cap Refs(proc[p].msg) # {}}
           next == IF found = {} THEN "assign" ELSE "threads"
           old == proc[p]
           r == [old EXCEPT !.found = found, !.thread = NoThread, !.pc = next]
<1>1. proc' = [proc EXCEPT ![p] = r] /\ UNCHANGED <<store, uids>> /\ proc[p].pc = "find"
  BY DEF FindMatches, Safe, Types
<1>2. old \in Request /\ old.msg \in Msg /\ next \in {"assign", "threads"} /\ found \in SUBSET Doc
  BY <1>1 DEF Safe, Types, Named, Ingesting
<1> HIDE DEF found, next, old
<1>3. r \in Request /\ r.pc = next /\ r.msg = old.msg
  BY <1>2 DEF Request, Steps, MaybeThread
<1> HIDE DEF r
<1>4. Types'
  BY <1>1, <1>3, OneProc DEF Safe, Types, FindMatches, store
<1>5. Tombs' /\ Targets' /\ Drawn' /\ Named' /\ Uids' /\ (TagsMatch => TagsMatch') /\ (Current => Current')
  <2>1. uids' \in 0..MaxIds /\ uids <= uids'
    BY <1>1, MailAssumption DEF Safe, Types
  <2> QED
    BY <1>1, <1>2, <1>3, <2>1, QuietStep DEF Safe
<1>6. Alone => Alone'
  BY <1>1, <1>2, <1>3, AloneStep DEF Safe
<1> QED
  BY <1>4, <1>5, <1>6 DEF Safe, Matched

\* What get_cached_thread_ids returns has the type of the cache.
LEMMA CacheType ==
  ASSUME Types
  PROVE  CachedThreads \in [modseq: 0..MaxIds, map: [Doc -> MaybeThread]]
<1>1. \A d \in Doc : Stored(d) => mail[d].thread \in MaybeThread
  BY DEF Types, Stored, Mail
<1>2. LastChange \in 0..MaxIds
  <2>1. CASE log = {}
    BY <2>1, MailAssumption DEF LastChange
  <2>2. CASE log # {}
    <3>1. MaxOf(log) \in 1..MaxIds
      BY <2>2, MaxInRange, MailAssumption DEF Types
    <3> QED
      BY <2>2, <3>1 DEF LastChange
  <2> QED
    BY <2>1, <2>2
<1>3. [modseq |-> LastChange, map |-> [d \in Doc |-> IF Stored(d) THEN mail[d].thread ELSE NoThread]]
        \in [modseq: 0..MaxIds, map: [Doc -> MaybeThread]]
  BY <1>1, <1>2 DEF MaybeThread
<1> QED
  BY <1>3 DEF CachedThreads, Types

LEMMA ChooseThreadStep ==
  ASSUME NEW p \in Proc, Safe, Matched, ChooseThread(p)
  PROVE  Safe' /\ Matched'
<1> DEFINE c == CachedThreads
           hits == Hits(proc[p].found, c.map)
           first == MostCommon(proc[p].found, c.map)
           old == proc[p]
<1>1. old \in Request /\ proc[p].pc = "threads" /\ old.msg \in Msg
  BY DEF ChooseThread, Safe, Types, Named, Ingesting
<1>2. hits \subseteq Thread
  BY DEF Hits
<1>3. hits # {} => first \in hits
  BY <1>1, MostCommonIsHit DEF Request
<1>4. UNCHANGED <<store, log, uids>> /\ cache' \in [modseq: 0..MaxIds, map: [Doc -> MaybeThread]]
  BY CacheType DEF ChooseThread, Safe
<1>5. Cardinality({}) = 0
  BY FS_EmptySet
<1>6. uids' \in 0..MaxIds /\ uids <= uids'
  BY <1>4, MailAssumption DEF Safe, Types
<1>7. CASE UNCHANGED ids /\ \E t \in MaybeThread : proc' = [proc EXCEPT ![p] = [old EXCEPT !.pc = "assign", !.thread = t]]
  <2>1. PICK t \in MaybeThread : proc' = [proc EXCEPT ![p] = [old EXCEPT !.pc = "assign", !.thread = t]]
    BY <1>7
  <2> DEFINE r == [old EXCEPT !.pc = "assign", !.thread = t]
  <2>2. r \in Request /\ r.pc = "assign" /\ r.msg \in Msg
    <3> HIDE DEF old
    <3> QED
      BY <1>1 DEF Request, Steps
  <2> HIDE DEF r
  <2>3. Types'
    BY <1>4, <1>7, <2>1, <2>2, OneProc DEF Safe, Types, store, r
  <2>4. Tombs' /\ Targets' /\ Drawn' /\ Named' /\ Uids' /\ (TagsMatch => TagsMatch') /\ (Current => Current')
    BY <1>4, <1>6, <2>1, <2>2, QuietStep DEF Safe, r
  <2>5. Alone => Alone'
    BY <1>1, <2>1, <2>2, AloneStep DEF Safe, r
  <2> QED
    BY <2>3, <2>4, <2>5 DEF Safe, Matched
<1>8. CASE /\ Cardinality(hits) > 1 /\ ids < MaxIds /\ ids' = ids + 1
           /\ proc' = [proc EXCEPT ![p].pc = "merge", ![p].thread = first, ![p].id = ids',
                                   ![p].dead = hits \ {first},
                                   ![p].moves = UNION {tag[u] \X {u} : u \in hits \ {first}}]
  <2> DEFINE dead == hits \ {first}
             moves == UNION {tag[u] \X {u} : u \in dead}
             id == ids'
             r == [old EXCEPT !.pc = "merge", !.thread = first, !.id = id, !.dead = dead, !.moves = moves]
  <2>1. first \in hits
    <3> HIDE DEF hits, first
    <3>1. Cardinality(hits) > 1
      BY <1>8
    <3>2. hits # {}
      BY <1>5, <3>1
    <3> QED
      BY <1>3, <3>2
  <2>2. dead \subseteq Thread /\ moves \subseteq Doc \X dead
    BY <1>2 DEF Safe, Types
  <2>3. moves \in SUBSET (Doc \X MaybeThread) /\ first \in Thread /\ first \notin dead
    BY <1>2, <2>1, <2>2 DEF MaybeThread
  <2>4. id \in 1..MaxIds /\ id \in 0..MaxIds
    BY <1>8, MailAssumption DEF Safe, Types
  <2>5. proc' = [proc EXCEPT ![p] = r]
    BY <1>8 DEF Safe, Types
  <2> HIDE DEF dead, moves, id, first, old, hits
  <2>6. r \in Request /\ r.pc = "merge" /\ r.thread = first /\ r.dead = dead /\ r.moves = moves /\ r.id = id /\ r.msg \in Msg
    BY <1>1, <2>2, <2>3, <2>4 DEF Request, Steps, MaybeThread
  <2> HIDE DEF r
  <2>7. /\ proc'[p] = r /\ \A q \in Proc : q # p => proc'[q] = proc[q]
    BY <2>5, <2>6, OneProc DEF Safe, Types
  <2>8. Types'
    BY <1>4, <2>4, <2>5, <2>6, OneProc DEF Safe, Types, store, id
  <2>9. Tombs' /\ (TagsMatch => TagsMatch')
    BY <1>4 DEF Safe, store, Tombs, TagsMatch, Stored
  <2>10. Targets' /\ Drawn' /\ Named'
    BY <2>2, <2>3, <2>4, <2>6, <2>7 DEF Safe, Targets, Drawn, Named, Ingesting
  <2>11. Uids'
    BY <1>4, <2>6, <2>7 DEF Safe, Uids, store, Stored
  <2>12. Current => Current'
    BY <1>4, <2>6, <2>7 DEF Current, store, Stored
  <2>13. Alone => Alone'
    BY <1>1, <2>5, <2>6, AloneStep DEF Safe, old
  <2> QED
    BY <2>8, <2>9, <2>10, <2>11, <2>12, <2>13 DEF Safe, Matched
<1>9. CASE hits = {} /\ proc' = [proc EXCEPT ![p].pc = "assign"] /\ UNCHANGED ids
  <2>1. old.thread \in MaybeThread
    BY <1>1 DEF Request
  <2>2. [old EXCEPT !.pc = "assign"] = [old EXCEPT !.pc = "assign", !.thread = old.thread]
    BY <1>1 DEF Request
  <2>3. proc' = [proc EXCEPT ![p] = [old EXCEPT !.pc = "assign", !.thread = old.thread]]
    BY <1>9, <2>2 DEF Safe, Types
  <2> QED
    BY <1>7, <1>9, <2>1, <2>3
<1>10. CASE /\ Cardinality(hits) = 1
            /\ proc' = [proc EXCEPT ![p].pc = "assign", ![p].thread = CHOOSE t \in hits : TRUE]
            /\ UNCHANGED ids
  <2> DEFINE t == CHOOSE t \in hits : TRUE
  <2>1. t \in MaybeThread
    BY <1>2, <1>5, <1>10 DEF MaybeThread
  <2>2. proc' = [proc EXCEPT ![p].pc = "assign", ![p].thread = t]
    BY <1>10
  <2> HIDE DEF t
  <2>3. proc' = [proc EXCEPT ![p] = [old EXCEPT !.pc = "assign", !.thread = t]]
    BY <2>2 DEF Safe, Types
  <2> QED
    BY <1>7, <1>10, <2>1, <2>3
<1> QED
  BY <1>8, <1>9, <1>10 DEF ChooseThread

\* The batch of a merge, if every message is still where it was read.
LEMMA MoveToStep ==
  ASSUME NEW t \in Thread, NEW dead \in SUBSET Thread, t \notin dead,
         NEW moves \in SUBSET (Doc \X dead), Types, Tombs,
         \A mv \in moves : Stored(mv[1]) /\ mail[mv[1]].thread = mv[2],
         MoveTo(t, moves, dead)
  PROVE  /\ mail' \in [Doc -> Mail \cup {NoMail}] /\ tag' \in [Thread -> SUBSET Doc]
         /\ threads' \subseteq Thread
         /\ Tombs'
         /\ \A d \in Doc : /\ Stored(d)' <=> Stored(d)
                           /\ Stored(d) => mail'[d].uid = mail[d].uid
         /\ TagsMatch => TagsMatch'
<1> DEFINE docs == {mv[1] : mv \in moves}
<1>1. \A d \in docs : d \in Doc /\ Stored(d) /\ mail[d] \in Mail /\ mail[d].thread \in Thread /\ mail[d].thread # t
  BY DEF Types, Stored
<1>2. /\ \A d \in Doc : mail'[d] = IF d \in docs THEN [mail[d] EXCEPT !.thread = t] ELSE mail[d]
      /\ mail' = [d \in Doc |-> IF d \in docs THEN [mail[d] EXCEPT !.thread = t] ELSE mail[d]]
      /\ threads' = threads \ dead
  BY DEF MoveTo
<1>3. \A u \in Thread : tag'[u] = IF u = t THEN tag[u] \cup docs
                                   ELSE tag[u] \ {mv[1] : mv \in {x \in moves : x[2] = u}}
  BY DEF MoveTo
<1>4. tag' \in [Thread -> SUBSET Doc]
  BY <1>1 DEF MoveTo, Types
<1>5. \A d \in docs : [mail[d] EXCEPT !.thread = t] \in Mail
  <2>1. ASSUME NEW m \in Mail PROVE [m EXCEPT !.thread = t] \in Mail
    BY DEF Mail, MaybeThread
  <2> QED
    BY <1>1, <2>1
<1>6. \A d \in docs : /\ mail'[d].thread = t /\ mail'[d].uid = mail[d].uid /\ mail'[d].tomb = mail[d].tomb
                      /\ mail'[d] \in Mail
  <2>1. ASSUME NEW m \in Mail
        PROVE  [m EXCEPT !.thread = t].thread = t /\ [m EXCEPT !.thread = t].uid = m.uid /\ [m EXCEPT !.thread = t].tomb = m.tomb
    BY DEF Mail
  <2> QED
    BY <1>1, <1>2, <1>5, <2>1
<1>7. mail' \in [Doc -> Mail \cup {NoMail}]
  BY <1>2, <1>5 DEF Types
<1>8. NoMail \notin Mail
  BY MailAssumption DEF Mail, MaybeThread
<1>9. \A d \in Doc : Stored(d)' <=> Stored(d)
  BY <1>1, <1>2, <1>6, <1>8 DEF Stored
<1>10. \A d \in Doc : d \notin docs => mail'[d] = mail[d]
  BY <1>2
<1> HIDE DEF docs
<1>11. Tombs'
  BY <1>1, <1>6, <1>9, <1>10, MailAssumption DEF Tombs
<1>12. ASSUME TagsMatch, NEW u \in Thread
       PROVE  tag'[u] = {d \in Doc : Stored(d)' /\ mail'[d].thread = u}
  <2>1. tag[u] = {d \in Doc : Stored(d) /\ mail[d].thread = u}
    BY <1>12 DEF TagsMatch
  <2>2. CASE u = t
    <3>1. tag'[u] = tag[u] \cup docs
      BY <1>3, <2>2
    <3> QED
      BY <1>1, <1>6, <1>9, <1>10, <2>1, <2>2, <3>1
  <2>3. CASE u # t
    <3>1. tag'[u] = tag[u] \ {mv[1] : mv \in {x \in moves : x[2] = u}}
      BY <1>3, <2>3
    <3>2. \A d \in docs : mail[d].thread = u <=> d \in {mv[1] : mv \in {x \in moves : x[2] = u}}
      BY DEF docs
    <3>3. \A d \in Doc : d \in {mv[1] : mv \in {x \in moves : x[2] = u}} => d \in docs
      BY DEF docs
    <3> QED
      BY <1>1, <1>6, <1>9, <1>10, <2>1, <2>3, <3>1, <3>2, <3>3
  <2> QED
    BY <2>2, <2>3
<1> QED
  BY <1>2, <1>4, <1>6, <1>7, <1>9, <1>10, <1>11, <1>12 DEF TagsMatch, Types

LEMMA MergeThreadsStep ==
  ASSUME NEW p \in Proc, Safe, Matched, MergeThreads(p)
  PROVE  Safe' /\ Matched'
<1> DEFINE old == proc[p]
           still == \A mv \in old.moves : Stored(mv[1]) /\ mail[mv[1]].thread = mv[2]
<1>1. old \in Request /\ proc[p].pc = "merge" /\ old.msg \in Msg /\ UNCHANGED <<ids, uids, cache>>
  BY DEF MergeThreads, Safe, Types, Named, Ingesting
<1>2. uids' \in 0..MaxIds /\ uids <= uids'
  BY <1>1, MailAssumption DEF Safe, Types
<1>3. CASE /\ still /\ MoveTo(old.thread, old.moves, old.dead)
           /\ log' = log \cup {old.id} /\ proc' = [proc EXCEPT ![p].pc = "assign"]
  <2> DEFINE r == [old EXCEPT !.pc = "assign"]
  <2>1. proc' = [proc EXCEPT ![p] = r]
    BY <1>3 DEF Safe, Types
  <2>2. old.thread \in Thread /\ old.dead \in SUBSET Thread /\ old.thread \notin old.dead /\ old.moves \in SUBSET (Doc \X old.dead)
    BY <1>1 DEF Safe, Targets, Request
  <2>3. /\ mail' \in [Doc -> Mail \cup {NoMail}] /\ tag' \in [Thread -> SUBSET Doc]
        /\ threads' \subseteq Thread /\ Tombs'
        /\ \A d \in Doc : /\ Stored(d)' <=> Stored(d)
                          /\ Stored(d) => mail'[d].uid = mail[d].uid
        /\ TagsMatch => TagsMatch'
    <3> HIDE DEF old
    <3> QED
      BY <1>3, <2>2, MoveToStep DEF Safe
  <2>4. r \in Request /\ r.pc = "assign" /\ r.msg \in Msg /\ old.id \in 0..MaxIds
    <3> HIDE DEF old
    <3> QED
      BY <1>1 DEF Request, Steps
  <2> HIDE DEF r, old
  <2>5. /\ proc' \in [Proc -> Request] /\ proc'[p] = r /\ \A q \in Proc : q # p => proc'[q] = proc[q]
    BY <2>1, <2>4, OneProc DEF Safe, Types
  <2>6. old.id \in 1..MaxIds
    BY <1>1 DEF Safe, Drawn, old
  <2>7. Types'
    BY <1>1, <1>3, <2>3, <2>5, <2>6 DEF Safe, Types
  <2>8. Targets' /\ Drawn' /\ Named'
    BY <2>4, <2>5 DEF Safe, Targets, Drawn, Named, Ingesting
  <2>9. Uids'
    <3>1. \A q \in Proc : proc'[q].pc = "insert" => proc'[q] = proc[q]
      BY <2>4, <2>5
    <3> QED
      BY <1>1, <2>3, <3>1 DEF Safe, Uids
  <2>10. Alone => Alone'
    BY <1>1, <2>1, <2>4, AloneStep DEF Safe
  <2>11. Alone => Current'
    <3>1. Alone => \A q \in Proc : proc[q].pc = "tombstone" => FALSE
      BY <1>1 DEF Alone, Deleting
    <3> QED
      BY <2>4, <2>5, <3>1 DEF Current
  <2> QED
    BY <2>3, <2>7, <2>8, <2>9, <2>10, <2>11 DEF Safe, Matched
<1>4. CASE \E r \in {Idle, [Idle EXCEPT !.pc = "find", !.msg = old.msg, !.tries = old.tries + 1]} :
             /\ r = Idle \/ old.tries < MaxRetries
             /\ proc' = [proc EXCEPT ![p] = r] /\ UNCHANGED <<store, log>>
  <2>1. PICK r \in {Idle, [Idle EXCEPT !.pc = "find", !.msg = old.msg, !.tries = old.tries + 1]} :
             /\ r = Idle \/ old.tries < MaxRetries
             /\ proc' = [proc EXCEPT ![p] = r] /\ UNCHANGED <<store, log>>
    BY <1>4
  <2>2. r \in Request /\ r.pc \in {"idle", "find"} /\ (r.pc = "find" => r.msg \in Msg)
    <3>1. CASE r = Idle
      BY <3>1, IdleType DEF Idle
    <3>2. CASE r # Idle
      <4>1. old.msg \in Msg /\ old.tries + 1 \in 0..MaxRetries
        BY <1>1, <2>1, <3>2, MailAssumption DEF Request
      <4>2. r = [Idle EXCEPT !.pc = "find", !.msg = old.msg, !.tries = old.tries + 1]
        BY <2>1, <3>2
      <4> HIDE DEF old
      <4> QED
        BY <4>1, <4>2, IdleType DEF Request, Steps, Idle
    <3> QED
      BY <3>1, <3>2
  <2>3. Types'
    <3>1. /\ proc' \in [Proc -> Request] /\ proc'[p] = r /\ \A q \in Proc : q # p => proc'[q] = proc[q]
      BY <2>1, <2>2, OneProc DEF Safe, Types
    <3> QED
      BY <1>1, <2>1, <3>1 DEF Safe, Types, store
  <2>4. Tombs' /\ Targets' /\ Drawn' /\ Named' /\ Uids' /\ (TagsMatch => TagsMatch') /\ (Current => Current')
    BY <1>2, <2>1, <2>2, QuietStep DEF Safe
  <2>5. Alone => Alone'
    BY <1>1, <2>1, <2>2, AloneStep DEF Safe
  <2> QED
    BY <2>3, <2>4, <2>5 DEF Safe, Matched
<1> QED
  BY <1>3, <1>4 DEF MergeThreads

LEMMA AssignIdsStep ==
  ASSUME NEW p \in Proc, Safe, Matched, AssignIds(p)
  PROVE  Safe' /\ Matched'
<1> DEFINE old == proc[p]
           id == ids + 1
           uid == uids + 1
           r == [old EXCEPT !.pc = "insert", !.id = id, !.uid = uid]
<1>1. /\ old \in Request /\ old.pc = "assign" /\ old.msg \in Msg /\ UNCHANGED <<store, log, cache>>
      /\ ids' = id /\ uids' = uid /\ proc' = [proc EXCEPT ![p] = r]
  BY DEF AssignIds, Safe, Types, Named, Ingesting
<1>2. id \in 1..MaxIds /\ uid \in 1..MaxIds /\ uids \in Nat
  BY MailAssumption DEF AssignIds, Safe, Types
<1> HIDE DEF old, id
<1>3. r \in Request /\ r.pc = "insert" /\ r.id = id /\ r.uid = uid /\ r.msg \in Msg
  <2>1. uid \in 0..MaxIds /\ id \in 0..MaxIds
    BY <1>2
  <2> HIDE DEF uid
  <2> QED
    BY <1>1, <2>1 DEF Request, Steps
<1> HIDE DEF r
<1>4. /\ proc' \in [Proc -> Request] /\ proc'[p] = r /\ \A q \in Proc : q # p => proc'[q] = proc[q]
  BY <1>1, <1>3, OneProc DEF Safe, Types
<1>5. Types'
  BY <1>1, <1>2, <1>4 DEF Safe, Types, store
<1>6. Tombs' /\ Targets' /\ Drawn' /\ Named' /\ (TagsMatch => TagsMatch') /\ (Current => Current')
  BY <1>1, <1>2, <1>3, <1>4 DEF Safe, Tombs, Targets, Drawn, Named, Ingesting, TagsMatch, Current, store, Stored
<1>7. Uids'
  <2>1. \A d \in Doc : (Stored(d)' <=> Stored(d)) /\ mail'[d] = mail[d]
    BY <1>1 DEF store, Stored
  <2>2. \A d \in Doc : Stored(d) => mail[d].uid \in Nat /\ mail[d].uid <= uids
    BY DEF Safe, Types, Stored, Mail, Uids
  <2>3. \A q \in Proc : q # p /\ proc[q].pc = "insert" => proc[q].uid \in 1..uids
    BY DEF Safe, Uids
  <2>4. uids' = uids + 1 /\ r.uid = uids + 1
    BY <1>1, <1>3
  <2>5. \A d \in Doc : Stored(d)' => mail'[d].uid <= uids'
    BY <1>2, <2>1, <2>2, <2>4
  <2>6. \A q \in Proc : proc'[q].pc = "insert" => proc'[q].uid \in 1..uids'
    BY <1>2, <1>4, <2>3, <2>4
  <2>7. \A q \in Proc, d \in Doc : proc'[q].pc = "insert" /\ Stored(d)' => mail'[d].uid # proc'[q].uid
    BY <1>2, <1>4, <2>1, <2>2, <2>4 DEF Safe, Uids
  <2>8. \A q, s \in Proc : proc'[q].pc = "insert" /\ proc'[s].pc = "insert" /\ proc'[q].uid = proc'[s].uid => q = s
    BY <1>2, <1>4, <2>3, <2>4 DEF Safe, Uids
  <2>9. \A c, d \in Doc : Stored(c)' /\ Stored(d)' /\ mail'[c].uid = mail'[d].uid => c = d
    BY <2>1 DEF Safe, Uids
  <2> QED
    BY <2>5, <2>6, <2>7, <2>8, <2>9 DEF Uids
<1>8. Alone => Alone'
  BY <1>1, <1>3, AloneStep DEF Safe, old
<1> QED
  BY <1>5, <1>6, <1>7, <1>8 DEF Safe, Matched

LEMMA InsertMailStep ==
  ASSUME NEW p \in Proc, NEW d \in Doc, NEW t \in Thread, Safe, Matched, InsertMail(p, d, t)
  PROVE  Safe' /\ Matched'
<1> DEFINE m == [msg |-> proc[p].msg, thread |-> t, tomb |-> FALSE, uid |-> proc[p].uid]
<1>1. /\ proc[p] \in Request /\ proc[p].pc = "insert" /\ ~Stored(d) /\ proc' = [proc EXCEPT ![p] = Idle]
      /\ mail' = [mail EXCEPT ![d] = m] /\ tag' = [tag EXCEPT ![t] = tag[t] \cup {d}]
      /\ threads' \subseteq threads \cup {t} /\ log' = log \cup {proc[p].id} /\ UNCHANGED <<ids, uids, cache>>
  BY DEF InsertMail, Safe, Types
<1>2. /\ proc' \in [Proc -> Request] /\ proc'[p] = Idle /\ \A q \in Proc : q # p => proc'[q] = proc[q]
  BY <1>1, IdleType, OneProc DEF Safe, Types
<1>3. proc[p].uid \in 1..uids /\ proc[p].uid \in 1..MaxIds /\ proc[p].id \in 1..MaxIds
  BY <1>1, MailAssumption DEF Safe, Types, Uids, Drawn
<1>4. proc[p].msg \in Msg
  BY <1>1 DEF Safe, Named, Ingesting
<1>5. m \in Mail /\ m # NoMail /\ m.uid = proc[p].uid /\ m.thread = t /\ m.tomb = FALSE
  <2>1. m \in Mail
    BY <1>3, <1>4 DEF Mail, MaybeThread
  <2>2. NoMail \notin Mail
    BY MailAssumption DEF Mail, MaybeThread
  <2> QED
    BY <2>1, <2>2
<1> HIDE DEF m
<1>6. mail'[d] = m /\ Stored(d)' /\ \A c \in Doc : c # d => mail'[c] = mail[c] /\ (Stored(c)' <=> Stored(c))
  BY <1>1, <1>5 DEF Safe, Types, Stored
<1>7. Types'
  BY <1>1, <1>2, <1>3, <1>5 DEF Safe, Types
<1>8. Tombs'
  BY <1>5, <1>6, MailAssumption DEF Safe, Tombs
<1>9. Targets' /\ Drawn' /\ Named'
  BY <1>2 DEF Safe, Targets, Drawn, Named, Ingesting, Idle
<1>10. Uids'
  <2>1. \A q \in Proc : proc'[q].pc = "insert" => q # p /\ proc'[q] = proc[q]
    BY <1>2 DEF Idle
  <2>2. uids \in Nat /\ uids' = uids
    BY <1>1, MailAssumption DEF Safe, Types
  <2>3. \A c \in Doc : Stored(c)' => mail'[c].uid <= uids'
    BY <1>3, <1>5, <1>6, <2>2 DEF Safe, Uids
  <2>4. \A q \in Proc : proc'[q].pc = "insert" => proc'[q].uid \in 1..uids'
    BY <2>1, <2>2 DEF Safe, Uids
  <2>5. \A q \in Proc, c \in Doc : proc'[q].pc = "insert" /\ Stored(c)' => mail'[c].uid # proc'[q].uid
    BY <1>1, <1>5, <1>6, <2>1 DEF Safe, Uids
  <2>6. \A q, s \in Proc : proc'[q].pc = "insert" /\ proc'[s].pc = "insert" /\ proc'[q].uid = proc'[s].uid => q = s
    BY <2>1 DEF Safe, Uids
  <2>7. \A c, e \in Doc : Stored(c)' /\ Stored(e)' /\ mail'[c].uid = mail'[e].uid => c = e
    BY <1>1, <1>5, <1>6 DEF Safe, Uids
  <2> QED
    BY <2>3, <2>4, <2>5, <2>6, <2>7 DEF Uids
<1>11. TagsMatch => TagsMatch'
  <2> SUFFICES ASSUME TagsMatch, NEW u \in Thread
               PROVE  tag'[u] = {c \in Doc : Stored(c)' /\ mail'[c].thread = u}
    BY DEF TagsMatch
  <2>1. tag'[u] = IF u = t THEN tag[u] \cup {d} ELSE tag[u]
    BY <1>1 DEF Safe, Types
  <2>2. tag[u] = {c \in Doc : Stored(c) /\ mail[c].thread = u}
    BY DEF TagsMatch
  <2> QED
    BY <1>1, <1>5, <1>6, <2>1, <2>2
<1>12. Alone => Alone'
  BY <1>1, IdleType, AloneStep DEF Safe, Idle
<1>13. Alone => Current'
  <2>1. Alone => \A q \in Proc : proc[q].pc # "tombstone"
    BY <1>1 DEF Alone, Deleting
  <2> QED
    BY <1>2, <2>1 DEF Current, Idle
<1> QED
  BY <1>7, <1>8, <1>9, <1>10, <1>11, <1>12, <1>13 DEF Safe, Matched

LEMMA StartDeleteStep ==
  ASSUME NEW p \in Proc, NEW docs \in SUBSET Doc, Safe, Matched, StartDelete(p, docs)
  PROVE  Safe' /\ Matched'
<1> DEFINE of == {mail[d].thread : d \in docs}
           dead == {t \in of : Cardinality({d \in docs : mail[d].thread = t}) = Cardinality(tag[t])}
           moves == {<<d, mail[d].thread>> : d \in docs}
           r == [Idle EXCEPT !.pc = "tombstone", !.dead = dead, !.moves = moves]
<1>1. /\ proc' = [proc EXCEPT ![p] = r] /\ UNCHANGED <<store, log, ids, uids, cache>> /\ proc[p].pc = "idle"
      /\ \A d \in docs : Live(d)
  BY DEF StartDelete
<1>2. \A d \in docs : d \in Doc /\ Stored(d) /\ mail[d].thread \in Thread
  BY <1>1 DEF Live, Safe, Types, Stored, Tombs, Mail, MaybeThread
<1>3. dead \subseteq Thread /\ moves \subseteq Doc \X MaybeThread
  BY <1>2 DEF MaybeThread
<1>4. \A mv \in moves : Stored(mv[1]) /\ mail[mv[1]].thread = mv[2]
  BY <1>2
<1> HIDE DEF dead, moves
<1>5. r \in Request /\ r.pc = "tombstone" /\ r.moves = moves
  BY <1>3, IdleType DEF Request, Steps, Idle
<1> HIDE DEF r
<1>6. /\ proc' \in [Proc -> Request] /\ proc'[p] = r /\ \A q \in Proc : q # p => proc'[q] = proc[q]
  BY <1>1, <1>5, OneProc DEF Safe, Types
<1>7. Types'
  BY <1>1, <1>6 DEF Safe, Types, store
<1>8. Tombs' /\ Targets' /\ Drawn' /\ Named' /\ (TagsMatch => TagsMatch')
  BY <1>1, <1>5, <1>6 DEF Safe, Tombs, Targets, Drawn, Named, Ingesting, TagsMatch, store, Stored
<1>9. Uids'
  BY <1>1, <1>5, <1>6 DEF Safe, Uids, store, Stored
<1>10. Current => Current'
  BY <1>1, <1>4, <1>5, <1>6 DEF Current, store, Stored
<1>11. ASSUME Deletes # "any", Alone PROVE Alone'
  <2>1. \A q \in Proc : ~Ingesting(q) /\ ~Deleting(q)
    BY <1>11 DEF StartDelete
  <2>2. \A q \in Proc : proc[q].pc \in Steps
    BY DEF Safe, Types, Request
  <2>3. \A q \in Proc : proc[q].pc = "idle"
    BY <2>1, <2>2 DEF Ingesting, Deleting, Steps
  <2> QED
    BY <1>6, <2>3 DEF Alone, Deleting
<1> QED
  BY <1>7, <1>8, <1>9, <1>10, <1>11 DEF Safe, Matched

LEMMA TombstoneStep ==
  ASSUME NEW p \in Proc, Safe, Matched, Tombstone(p)
  PROVE  Safe' /\ Matched'
<1> DEFINE old == proc[p]
           docs == {mv[1] : mv \in old.moves}
           gone(t) == {mv[1] : mv \in {x \in old.moves : x[2] = t}}
           r == [old EXCEPT !.pc = "commit"]
<1>1. /\ old \in Request /\ old.pc = "tombstone" /\ proc' = [proc EXCEPT ![p] = r]
      /\ UNCHANGED <<log, ids, uids, cache>> /\ threads' = threads \ old.dead
      /\ mail' = [d \in Doc |-> IF d \in docs /\ Stored(d)
                                THEN [mail[d] EXCEPT !.thread = NoThread, !.tomb = TRUE] ELSE mail[d]]
      /\ tag' = [t \in Thread |-> tag[t] \ gone(t)]
  BY DEF Tombstone, Safe, Types
<1>2. r \in Request /\ r.pc = "commit" /\ old.moves \subseteq Doc \X MaybeThread
  <2> HIDE DEF old
  <2> QED
    BY <1>1 DEF Request, Steps
<1> HIDE DEF r
<1>3. /\ proc' \in [Proc -> Request] /\ proc'[p] = r /\ \A q \in Proc : q # p => proc'[q] = proc[q]
  BY <1>1, <1>2, OneProc DEF Safe, Types
<1>4. docs \subseteq Doc
  BY <1>2
<1> HIDE DEF old, docs
<1>5. ASSUME NEW m \in Mail
      PROVE  /\ [m EXCEPT !.thread = NoThread, !.tomb = TRUE] \in Mail
             /\ [m EXCEPT !.thread = NoThread, !.tomb = TRUE].thread = NoThread
             /\ [m EXCEPT !.thread = NoThread, !.tomb = TRUE].tomb = TRUE
             /\ [m EXCEPT !.thread = NoThread, !.tomb = TRUE].uid = m.uid
  BY DEF Mail, MaybeThread
<1>6. \A d \in Doc : Stored(d) => mail[d] \in Mail
  BY DEF Safe, Types, Stored
<1>7. NoMail \notin Mail
  BY MailAssumption DEF Mail, MaybeThread
<1>8. \A d \in Doc : d \in docs /\ Stored(d) =>
        mail'[d] \in Mail /\ mail'[d].thread = NoThread /\ mail'[d].tomb = TRUE /\ mail'[d].uid = mail[d].uid
  BY <1>1, <1>5, <1>6
<1>9. \A d \in Doc : ~(d \in docs /\ Stored(d)) => mail'[d] = mail[d]
  BY <1>1
<1>10. \A d \in Doc : Stored(d)' <=> Stored(d)
  BY <1>7, <1>8, <1>9 DEF Stored
<1>11. mail' \in [Doc -> Mail \cup {NoMail}]
  BY <1>1, <1>5, <1>6 DEF Safe, Types, Stored
<1>12. Types'
  BY <1>1, <1>3, <1>11 DEF Safe, Types
<1>13. Tombs'
  BY <1>8, <1>9, <1>10 DEF Safe, Tombs
<1>14. Targets' /\ Drawn' /\ Named'
  BY <1>2, <1>3 DEF Safe, Targets, Drawn, Named, Ingesting
<1>15. Uids'
  <2>1. \A q \in Proc : proc'[q].pc = "insert" => proc'[q] = proc[q]
    BY <1>2, <1>3
  <2>2. \A d \in Doc : Stored(d) => mail'[d].uid = mail[d].uid
    BY <1>8, <1>9
  <2>3. /\ \A d \in Doc : Stored(d)' => mail'[d].uid <= uids'
        /\ \A c, d \in Doc : Stored(c)' /\ Stored(d)' /\ mail'[c].uid = mail'[d].uid => c = d
    BY <1>1, <1>10, <2>2 DEF Safe, Uids
  <2>4. /\ \A q \in Proc : proc'[q].pc = "insert" => proc'[q].uid \in 1..uids'
        /\ \A q, s \in Proc : proc'[q].pc = "insert" /\ proc'[s].pc = "insert" /\ proc'[q].uid = proc'[s].uid => q = s
    <3>1. uids' = uids
      BY <1>1
    <3>2. /\ \A q \in Proc : proc[q].pc = "insert" => proc[q].uid \in 1..uids
          /\ \A q, s \in Proc : proc[q].pc = "insert" /\ proc[s].pc = "insert" /\ proc[q].uid = proc[s].uid => q = s
      BY Zenon DEF Safe, Uids
    <3>3. ASSUME NEW q \in Proc, proc'[q].pc = "insert"
          PROVE  proc'[q].uid \in 1..uids'
      <4>1. proc'[q] = proc[q]
        BY <2>1, <3>3
      <4> QED
        BY <3>1, <3>2, <3>3, <4>1
    <3>4. ASSUME NEW q \in Proc, NEW s \in Proc, proc'[q].pc = "insert", proc'[s].pc = "insert",
                 proc'[q].uid = proc'[s].uid
          PROVE  q = s
      <4>1. proc'[q] = proc[q] /\ proc'[s] = proc[s]
        BY <2>1, <3>4
      <4> QED
        BY <3>2, <3>4, <4>1
    <3> QED
      BY <3>3, <3>4
  <2>5. \A q \in Proc, d \in Doc : proc'[q].pc = "insert" /\ Stored(d)' => mail'[d].uid # proc'[q].uid
    BY <1>10, <2>1, <2>2 DEF Safe, Uids
  <2> QED
    BY <2>3, <2>4, <2>5 DEF Uids
<1>16. Alone => Alone'
  <2>1. Deleting(p)
    BY <1>1 DEF Deleting, old
  <2> QED
    BY <1>1, <1>2, <2>1, AloneStep DEF Safe, old
<1>17. Alone => Current'
  <2>1. Alone => \A q \in Proc : q # p => proc[q].pc = "idle"
    BY <1>1 DEF Alone, Deleting, old
  <2> QED
    BY <1>2, <1>3, <2>1 DEF Current
<1>18. ASSUME Current, TagsMatch, NEW t \in Thread
       PROVE  tag'[t] = {d \in Doc : Stored(d)' /\ mail'[d].thread = t}
  <2>1. tag'[t] = tag[t] \ gone(t) /\ t # NoThread
    BY <1>1, MailAssumption
  <2>2. tag[t] = {d \in Doc : Stored(d) /\ mail[d].thread = t}
    BY <1>18 DEF TagsMatch
  <2>3. \A mv \in old.moves : Stored(mv[1]) /\ mail[mv[1]].thread = mv[2]
    BY <1>1, <1>18 DEF Current, old
  <2>4. \A d \in docs : Stored(d) /\ (mail[d].thread = t <=> d \in gone(t))
    BY <2>3 DEF docs
  <2>5. \A d \in gone(t) : d \in docs
    BY DEF docs
  <2> HIDE DEF gone
  <2> QED
    BY <1>8, <1>9, <1>10, <2>1, <2>2, <2>4, <2>5
<1> QED
  BY <1>12, <1>13, <1>14, <1>15, <1>16, <1>17, <1>18 DEF Safe, Matched, TagsMatch

LEMMA CommitChangesStep ==
  ASSUME NEW p \in Proc, Safe, Matched, CommitChanges(p)
  PROVE  Safe' /\ Matched'
<1>1. /\ proc' = [proc EXCEPT ![p] = Idle] /\ UNCHANGED <<store, uids, cache>>
      /\ ids' = ids + 1 /\ log' = log \cup {ids'} /\ ids' \in 1..MaxIds
  BY MailAssumption DEF CommitChanges, Safe, Types
<1>2. Types'
  BY <1>1, IdleType, OneProc DEF Safe, Types, store
<1>3. Tombs' /\ Targets' /\ Drawn' /\ Named' /\ Uids' /\ (TagsMatch => TagsMatch') /\ (Current => Current')
  <2>1. uids' \in 0..MaxIds /\ uids <= uids'
    BY <1>1, MailAssumption DEF Safe, Types
  <2>2. Idle.pc = "idle"
    BY DEF Idle
  <2> QED
    BY <1>1, <2>1, <2>2, IdleType, QuietStep DEF Safe
<1>4. Alone => Alone'
  BY <1>1, IdleType, AloneStep DEF Safe, Idle
<1> QED
  BY <1>2, <1>3, <1>4 DEF Safe, Matched

LEMMA PurgeStep ==
  ASSUME NEW d \in Doc, Safe, Matched, Purge(d)
  PROVE  Safe' /\ Matched'
<1>1. /\ mail' = [mail EXCEPT ![d] = NoMail] /\ UNCHANGED <<tag, threads, log, ids, uids, cache, proc>>
      /\ Stored(d) /\ mail[d].tomb
  BY DEF Purge
<1>2. ~Stored(d)' /\ \A c \in Doc : c # d => mail'[c] = mail[c] /\ (Stored(c)' <=> Stored(c))
  BY <1>1 DEF Safe, Types, Stored
<1>3. mail[d].thread = NoThread
  BY <1>1 DEF Safe, Tombs
<1>4. Types'
  BY <1>1 DEF Safe, Types
<1>5. Tombs' /\ Targets' /\ Drawn' /\ Named'
  BY <1>1, <1>2 DEF Safe, Tombs, Targets, Drawn, Named, Ingesting
<1>6. Uids'
  BY <1>1, <1>2 DEF Safe, Uids
<1>7. Alone => Alone'
  BY <1>1 DEF Alone, Deleting
<1>8. ASSUME Deletes # "any" PROVE Current'
  <2>1. \A p \in Proc : ~Deleting(p)
    BY <1>8 DEF Purge
  <2> QED
    BY <1>1, <2>1 DEF Current, Deleting
<1>9. TagsMatch => TagsMatch'
  BY <1>1, <1>2, <1>3, MailAssumption DEF TagsMatch
<1> QED
  BY <1>4, <1>5, <1>6, <1>7, <1>8, <1>9 DEF Safe, Matched

\* Every step keeps the invariants.
LEMMA MailStep == Safe /\ Matched /\ [Next]_vars => Safe' /\ Matched'
<1>1. ASSUME Safe, Matched, UNCHANGED vars PROVE Safe' /\ Matched'
  BY <1>1 DEF vars, Safe, Matched, Types, Tombs, Targets, Drawn, Named, Ingesting, Uids, Alone, Deleting,
              Current, TagsMatch, Stored
<1> QED
  BY <1>1, StartIngestStep, FindMatchesStep, ChooseThreadStep, MergeThreadsStep, AssignIdsStep,
     InsertMailStep, StartDeleteStep, TombstoneStep, CommitChangesStep, PurgeStep DEF Next

-------------------------------------------------------------------------------
(* Conversations, when messages come one after the other and deletions run alone. *)

Serial == ~IngestsOverlap /\ Deletes # "any"

\* One request is at work.
OneAtWork == \A p, q \in Proc : proc[p].pc # "idle" /\ proc[q].pc # "idle" => p = q

\* The cache is as of a change, and all changes have ids that were drawn.
Logged == (\A i \in log : i <= ids) /\ cache.modseq \in log \cup {0}

\* A cache that is as of the last change tells the thread of every message, but while a
\* deletion is not logged.
CacheTrue ==
    (\A p \in Proc : proc[p].pc # "commit") /\ (\A i \in log : i <= cache.modseq) =>
        \A d \in Doc : Stored(d) => cache.map[d] = mail[d].thread

\* Every thread has a message.
Peopled == \A t \in threads : \E d \in Doc : Live(d) /\ mail[d].thread = t

Related(d, m) == Stored(d) /\ Refs(mail[d].msg) \cap Refs(m) # {}

\* The messages related to m that are not deleted are in the threads of T.
RelatedIn(m, T) == \A d \in Doc : Live(d) /\ Related(d, m) => mail[d].thread \in T

\* What request r has read and drawn is still so: the matches, the threads to merge with all
\* their messages, the thread to join, the threads that a deletion empties, the ids.
Reading(r) ==
    /\ r.pc \in {"merge", "insert"} => r.id <= ids /\ \A i \in log : i < r.id
    /\ r.pc = "threads" => r.thread = NoThread /\ r.found = {d \in Doc : Related(d, r.msg)}
    /\ r.pc = "merge" =>
         /\ r.thread \in threads /\ RelatedIn(r.msg, r.dead \cup {r.thread})
         /\ \A d \in Doc, u \in r.dead : <<d, u>> \in r.moves <=> d \in tag[u]
    /\ r.pc \in {"assign", "insert"} =>
         r.thread \in threads \cup {NoThread} /\ RelatedIn(r.msg, {r.thread})
    /\ r.pc = "tombstone" =>
         \A t \in Thread : t \in r.dead <=>
             (\E mv \in r.moves : mv[2] = t) /\ \A d \in tag[t] : <<d, t>> \in r.moves

Working == \A p \in Proc : Reading(proc[p])

\* Conversations as they are stored.
Sorted == ThreadExists /\ Peopled /\ Together

Whole == OneAtWork /\ Logged /\ CacheTrue /\ Sorted /\ Working

\* The requests after a step of the only one at work.
LEMMA OnlyOne ==
  ASSUME NEW p \in Proc, \A q \in Proc : q # p => proc'[q].pc = "idle", Reading(proc[p])'
  PROVE  OneAtWork' /\ Working'
<1>1. OneAtWork'
  BY DEF OneAtWork
<1>2. ASSUME NEW q \in Proc PROVE Reading(proc[q])'
  <2>1. CASE q = p
    BY <2>1
  <2>2. CASE q # p
    BY <2>2 DEF Reading
  <2> QED
    BY <2>1, <2>2
<1> QED
  BY <1>1, <1>2 DEF Working

\* A request that has read nothing.
LEMMA Unread ==
  ASSUME NEW p \in Proc, proc'[p].pc \in {"idle", "find", "commit"}
  PROVE  Reading(proc[p])'
  BY DEF Reading

\* The others are idle while p is at work.
LEMMA Others ==
  ASSUME OneAtWork, NEW p \in Proc, proc[p].pc # "idle"
  PROVE  \A q \in Proc : q # p => proc[q].pc = "idle"
  BY DEF OneAtWork

\* Nobody is at work.
LEMMA AllIdle ==
  ASSUME Types, \A q \in Proc : ~Ingesting(q) /\ ~Deleting(q)
  PROVE  \A q \in Proc : proc[q].pc = "idle"
<1>1. \A q \in Proc : proc[q].pc \in Steps
  BY DEF Types, Request
<1> QED
  BY <1>1 DEF Ingesting, Deleting, Steps

\* Conversations depend on what is stored only.
LEMMA SameMail ==
  ASSUME UNCHANGED store
  PROVE  Sorted => Sorted'
  BY DEF store, Sorted, ThreadExists, Peopled, Together, Live, Stored

LEMMA SameCache ==
  ASSUME UNCHANGED <<store, log, cache>>, \A q \in Proc : proc[q].pc # "commit"
  PROVE  CacheTrue => CacheTrue'
  BY DEF store, CacheTrue, Stored

LEMMA StartIngestWhole ==
  ASSUME Serial, NEW p \in Proc, NEW m \in Msg, Safe, Whole, StartIngest(p, m)
  PROVE  Whole'
<1> DEFINE r == [Idle EXCEPT !.pc = "find", !.msg = m]
<1>1. r \in Request /\ r.pc = "find"
  BY IdleType DEF Request, Steps, Idle
<1>2. /\ proc' = [proc EXCEPT ![p] = r] /\ UNCHANGED store /\ UNCHANGED <<log, ids, uids, cache>>
      /\ \A q \in Proc : ~Ingesting(q) /\ ~Deleting(q)
  BY DEF StartIngest, Serial
<1> HIDE DEF r
<1>3. \A q \in Proc : proc[q].pc = "idle"
  BY <1>2, AllIdle DEF Safe
<1>4. /\ proc'[p] = r /\ \A q \in Proc : q # p => proc'[q] = proc[q]
  BY <1>1, <1>2, OneProc DEF Safe, Types
<1>5. OneAtWork' /\ Working'
  <2>1. Reading(proc[p])'
    BY <1>1, <1>4, Unread
  <2> QED
    BY <1>3, <1>4, <2>1, OnlyOne
<1>6. Logged'
  BY <1>2 DEF Whole, Logged
<1>7. CacheTrue'
  BY <1>2, <1>3, SameCache DEF Whole
<1>8. Sorted'
  BY <1>2, SameMail DEF Whole
<1> QED
  BY <1>5, <1>6, <1>7, <1>8 DEF Whole

LEMMA FindMatchesWhole ==
  ASSUME NEW p \in Proc, Safe, Whole, FindMatches(p)
  PROVE  Whole'
<1> DEFINE found == {d \in Doc : Stored(d) /\ Refs(mail[d].msg) \cap Refs(proc[p].msg) # {}}
           next == IF found = {} THEN "assign" ELSE "threads"
           old == proc[p]
           r == [old EXCEPT !.found = found, !.thread = NoThread, !.pc = next]
<1>1. /\ proc' = [proc EXCEPT ![p] = r] /\ UNCHANGED store /\ UNCHANGED <<log, ids, uids, cache>>
      /\ proc[p].pc = "find"
  BY DEF FindMatches, Safe, Types
<1>2. old \in Request /\ next \in {"assign", "threads"} /\ found \in SUBSET Doc /\ (next = "assign" => found = {})
  BY DEF Safe, Types
<1> HIDE DEF found, next, old
<1>4. r \in Request /\ r.pc = next /\ r.msg = old.msg /\ r.thread = NoThread /\ r.found = found
  BY <1>2 DEF Request, Steps, MaybeThread
<1> HIDE DEF r
<1>5. /\ proc'[p] = r /\ \A q \in Proc : q # p => proc'[q] = proc[q]
  BY <1>1, <1>4, OneProc DEF Safe, Types
<1>6. \A q \in Proc : q # p => proc[q].pc = "idle"
  BY <1>1, Others DEF Whole
<1>7. mail' = mail /\ proc'[p].msg = proc[p].msg
  BY <1>1, <1>4, <1>5 DEF store, old
<1>8. \A d \in Doc : Related(d, proc[p].msg)' <=> d \in found
  BY <1>7 DEF Related, Stored, found
<1>9. {d \in Doc : Related(d, proc[p].msg)}' = found
  BY <1>2, <1>8
<1>10. Reading(proc[p])'
  <2>1. CASE next = "threads"
    <3>1. proc'[p].pc = "threads" /\ proc'[p].thread = NoThread /\ proc'[p].found = found
      BY <1>4, <1>5, <2>1
    <3> QED
      BY <1>9, <3>1 DEF Reading
  <2>2. CASE next = "assign"
    <3>1. RelatedIn(proc[p].msg, {proc[p].thread})'
      BY <1>2, <1>8, <2>2 DEF RelatedIn
    <3>2. proc'[p].pc = "assign" /\ proc'[p].thread = NoThread
      BY <1>4, <1>5, <2>2
    <3> QED
      BY <3>1, <3>2 DEF Reading
  <2> QED
    BY <1>2, <2>1, <2>2
<1>11. OneAtWork' /\ Working'
  BY <1>5, <1>6, <1>10, OnlyOne
<1>12. Logged' /\ Sorted'
  BY <1>1, SameMail DEF Whole, Logged
<1>13. CacheTrue'
  <2>1. \A q \in Proc : proc[q].pc # "commit"
    BY <1>1, <1>6
  <2> QED
    BY <1>1, <2>1, SameCache DEF Whole
<1> QED
  BY <1>11, <1>12, <1>13 DEF Whole

LEMMA AssignIdsWhole ==
  ASSUME NEW p \in Proc, Safe, Whole, AssignIds(p)
  PROVE  Whole'
<1> DEFINE old == proc[p]
           id == ids'
           uid == uids'
           r == [old EXCEPT !.pc = "insert", !.id = id, !.uid = uid]
<1>1. /\ proc' = [proc EXCEPT ![p] = r] /\ UNCHANGED store /\ UNCHANGED <<log, cache>>
      /\ proc[p].pc = "assign" /\ id = ids + 1 /\ uid = uids + 1 /\ ids < MaxIds /\ uids < MaxIds
  BY DEF AssignIds, Safe, Types
<1>2. old \in Request /\ ids \in 0..MaxIds /\ uids \in 0..MaxIds
  BY DEF Safe, Types
<1>3. id \in 0..MaxIds /\ uid \in 0..MaxIds
  BY <1>1, <1>2, MailAssumption
<1> HIDE DEF old, id, uid
<1>4. r \in Request /\ r.pc = "insert" /\ r.msg = old.msg /\ r.thread = old.thread /\ r.id = id /\ r.uid = uid
  BY <1>2, <1>3 DEF Request, Steps
<1> HIDE DEF r
<1>5. /\ proc'[p] = r /\ \A q \in Proc : q # p => proc'[q] = proc[q]
  BY <1>1, <1>4, OneProc DEF Safe, Types
<1>6. \A q \in Proc : q # p => proc[q].pc = "idle"
  BY <1>1, Others DEF Whole
<1>7. \A i \in log : i \in Nat /\ i <= ids
  BY MailAssumption DEF Whole, Logged, Safe, Types
<1>8. \A i \in log' : i < r.id
  BY <1>1, <1>2, <1>4, <1>7
<1>11. r.id <= ids'
  BY <1>2, <1>3, <1>4 DEF id
<1>12. /\ old.thread \in threads \cup {NoThread} /\ RelatedIn(old.msg, {old.thread})
  BY <1>1 DEF Whole, Working, Reading, old
<1>13. r.thread \in threads' \cup {NoThread} /\ RelatedIn(proc[p].msg, {proc[p].thread})'
  BY <1>1, <1>4, <1>5, <1>12 DEF store, RelatedIn, Live, Related, Stored
<1>14. Reading(proc[p])'
  BY <1>4, <1>5, <1>8, <1>11, <1>13 DEF Reading
<1>15. OneAtWork' /\ Working'
  BY <1>5, <1>6, <1>14, OnlyOne
<1>16. Logged'
  <2>1. \A i \in log' : i <= ids'
    BY <1>1, <1>2, <1>7 DEF id
  <2> QED
    BY <1>1, <2>1 DEF Whole, Logged
<1>17. CacheTrue' /\ Sorted'
  <2>1. \A q \in Proc : proc[q].pc # "commit"
    BY <1>1, <1>6
  <2> QED
    BY <1>1, <2>1, SameCache, SameMail DEF Whole
<1> QED
  BY <1>15, <1>16, <1>17 DEF Whole

\* After a change is logged under an id of its own, the cache is not as of the last change.
LEMMA CacheOld ==
  ASSUME Types, Logged, NEW id \in Nat, id > 0, \A i \in log : i < id, log' = log \cup {id}, UNCHANGED cache
  PROVE  CacheTrue'
<1>1. cache.modseq < id
  BY DEF Logged, Types
<1>2. cache.modseq \in Nat
  BY MailAssumption DEF Types
<1>3. ~(\A i \in log' : i <= cache'.modseq)
  BY <1>1, <1>2
<1> QED
  BY <1>3 DEF CacheTrue

LEMMA CommitChangesWhole ==
  ASSUME NEW p \in Proc, Safe, Whole, CommitChanges(p)
  PROVE  Whole'
<1>1. /\ proc' = [proc EXCEPT ![p] = Idle] /\ UNCHANGED store /\ UNCHANGED <<uids, cache>>
      /\ proc[p].pc = "commit" /\ ids' = ids + 1 /\ log' = log \cup {ids'}
  BY DEF CommitChanges
<1>2. ids \in Nat /\ \A i \in log : i \in Nat /\ i <= ids
  BY MailAssumption DEF Whole, Logged, Safe, Types
<1>3. /\ proc'[p] = Idle /\ \A q \in Proc : q # p => proc'[q] = proc[q]
  BY <1>1, IdleType, OneProc DEF Safe, Types
<1>4. \A q \in Proc : q # p => proc[q].pc = "idle"
  BY <1>1, Others DEF Whole
<1>5. OneAtWork' /\ Working'
  <2>1. proc'[p].pc = "idle"
    BY <1>3 DEF Idle
  <2>2. Reading(proc[p])'
    BY <2>1, Unread
  <2> QED
    BY <1>3, <1>4, <2>2, OnlyOne
<1> DEFINE id == ids + 1
<1>6. id \in Nat /\ id > 0 /\ (\A i \in log : i < id) /\ log' = log \cup {id}
  BY <1>1, <1>2
<1>7. CacheTrue'
  <2> HIDE DEF id
  <2> QED
    BY <1>1, <1>6, CacheOld DEF Whole, Safe
<1>8. Logged'
  BY <1>1, <1>2 DEF Whole, Logged
<1>9. Sorted'
  BY <1>1, SameMail DEF Whole
<1> QED
  BY <1>5, <1>7, <1>8, <1>9 DEF Whole

LEMMA PurgeWhole ==
  ASSUME Serial, NEW d \in Doc, Safe, Whole, Purge(d)
  PROVE  Whole'
<1>1. /\ mail' = [mail EXCEPT ![d] = NoMail] /\ UNCHANGED <<tag, threads, log, ids, uids, cache, proc>>
      /\ Stored(d) /\ mail[d].tomb /\ \A q \in Proc : ~Ingesting(q) /\ ~Deleting(q)
  BY DEF Purge, Serial
<1>2. ~Stored(d)' /\ \A c \in Doc : c # d => mail'[c] = mail[c] /\ (Stored(c)' <=> Stored(c))
  BY <1>1 DEF Safe, Types, Stored
<1>3. \A c \in Doc : (Live(c)' <=> Live(c)) /\ (Live(c) => mail'[c] = mail[c])
  BY <1>1, <1>2 DEF Live
<1>4. \A q \in Proc : proc'[q].pc = "idle"
  BY <1>1, AllIdle DEF Safe
<1>5. OneAtWork' /\ Working'
  BY <1>4 DEF OneAtWork, Working, Reading
<1>6. Logged'
  BY <1>1 DEF Whole, Logged
<1>7. CacheTrue'
  BY <1>1, <1>2 DEF Whole, CacheTrue
<1>8. ThreadExists' /\ Peopled'
  BY <1>1, <1>3 DEF Whole, Sorted, ThreadExists, Peopled
<1>9. Together'
  BY <1>3 DEF Whole, Sorted, Together
<1> QED
  BY <1>5, <1>6, <1>7, <1>8, <1>9 DEF Whole, Sorted

\* A part of a finite set that is as large is all of it.
LEMMA AsLarge ==
  ASSUME NEW S \in SUBSET Doc, NEW T \in SUBSET S
  PROVE  Cardinality(T) = Cardinality(S) <=> S \subseteq T
<1>1. IsFiniteSet(S)
  BY FS_Subset, MailAssumption
<1>2. Cardinality(T) = Cardinality(S) => S = T
  BY <1>1, FS_Subset
<1> QED
  BY <1>2

LEMMA StartDeleteWhole ==
  ASSUME Serial, NEW p \in Proc, NEW docs \in SUBSET Doc, Safe, Matched, Whole, StartDelete(p, docs)
  PROVE  Whole'
<1> DEFINE of == {mail[d].thread : d \in docs}
           mine(t) == {d \in docs : mail[d].thread = t}
           dead == {t \in of : Cardinality(mine(t)) = Cardinality(tag[t])}
           moves == {<<d, mail[d].thread>> : d \in docs}
           r == [Idle EXCEPT !.pc = "tombstone", !.dead = dead, !.moves = moves]
<1>1. /\ proc' = [proc EXCEPT ![p] = r] /\ UNCHANGED store /\ UNCHANGED <<log, ids, uids, cache>>
      /\ \A d \in docs : Live(d)
      /\ \A q \in Proc : ~Ingesting(q) /\ ~Deleting(q)
  BY DEF StartDelete, Serial
<1>2. \A d \in docs : d \in Doc /\ Stored(d) /\ mail[d].thread \in Thread
  BY <1>1 DEF Live, Safe, Types, Stored, Tombs, Mail, MaybeThread
<1>3. dead \subseteq Thread /\ moves \subseteq Doc \X MaybeThread
  BY <1>2 DEF MaybeThread
<1>4. ASSUME NEW t \in Thread
      PROVE  t \in dead <=> (\E mv \in moves : mv[2] = t) /\ \A d \in tag[t] : <<d, t>> \in moves
  <2>1. tag[t] = {d \in Doc : Stored(d) /\ mail[d].thread = t}
    BY DEF Matched, Serial, TagsMatch
  <2>2. tag[t] \in SUBSET Doc /\ mine(t) \in SUBSET tag[t]
    BY <1>2, <2>1
  <2>3. Cardinality(mine(t)) = Cardinality(tag[t]) <=> tag[t] \subseteq mine(t)
    <3> HIDE DEF mine
    <3> QED
      BY <2>2, AsLarge
  <2>4. t \in of <=> \E mv \in moves : mv[2] = t
    <3>1. ASSUME NEW d \in docs PROVE <<d, mail[d].thread>> \in moves /\ <<d, mail[d].thread>>[2] = mail[d].thread
      OBVIOUS
    <3>2. ASSUME NEW mv \in moves PROVE \E d \in docs : mv[2] = mail[d].thread
      OBVIOUS
    <3>3. t \in of <=> \E d \in docs : t = mail[d].thread
      OBVIOUS
    <3> HIDE DEF of, moves
    <3> QED
      BY <3>1, <3>2, <3>3
  <2>5. \A d \in tag[t] : <<d, t>> \in moves <=> d \in mine(t)
    OBVIOUS
  <2>6. t \in dead <=> t \in of /\ tag[t] \subseteq mine(t)
    BY <2>3
  <2> HIDE DEF of, mine, dead, moves
  <2> QED
    BY <2>4, <2>5, <2>6
<1> HIDE DEF dead, moves
<1>5. r \in Request /\ r.pc = "tombstone" /\ r.moves = moves /\ r.dead = dead
  BY <1>3, IdleType DEF Request, Steps, Idle
<1> HIDE DEF r
<1>6. /\ proc'[p] = r /\ \A q \in Proc : q # p => proc'[q] = proc[q]
  BY <1>1, <1>5, OneProc DEF Safe, Types
<1>7. \A q \in Proc : proc[q].pc = "idle"
  BY <1>1, AllIdle DEF Safe
<1>8. Reading(proc[p])'
  <2>1. tag' = tag
    BY <1>1 DEF store
  <2>2. proc'[p].pc = "tombstone" /\ proc'[p].moves = moves /\ proc'[p].dead = dead
    BY <1>5, <1>6
  <2> QED
    BY <1>4, <2>1, <2>2 DEF Reading
<1>9. OneAtWork' /\ Working'
  BY <1>6, <1>7, <1>8, OnlyOne
<1>10. Logged' /\ Sorted'
  BY <1>1, SameMail DEF Whole, Logged
<1>11. CacheTrue'
  BY <1>1, <1>7, SameCache DEF Whole
<1> QED
  BY <1>9, <1>10, <1>11 DEF Whole

LEMMA TombstoneWhole ==
  ASSUME Serial, NEW p \in Proc, Safe, Matched, Whole, Tombstone(p)
  PROVE  Whole'
<1> DEFINE old == proc[p]
           docs == {mv[1] : mv \in old.moves}
           r == [old EXCEPT !.pc = "commit"]
<1>1. /\ old \in Request /\ old.pc = "tombstone" /\ proc' = [proc EXCEPT ![p] = r]
      /\ UNCHANGED <<log, ids, uids, cache>> /\ threads' = threads \ old.dead
      /\ mail' = [d \in Doc |-> IF d \in docs /\ Stored(d)
                                THEN [mail[d] EXCEPT !.thread = NoThread, !.tomb = TRUE] ELSE mail[d]]
  BY DEF Tombstone, Safe, Types
<1>2. r \in Request /\ r.pc = "commit"
  <2> HIDE DEF old
  <2> QED
    BY <1>1 DEF Request, Steps
<1> HIDE DEF r
<1>3. /\ proc'[p] = r /\ \A q \in Proc : q # p => proc'[q] = proc[q]
  BY <1>1, <1>2, OneProc DEF Safe, Types
<1>4. /\ \A mv \in old.moves : Stored(mv[1]) /\ mail[mv[1]].thread = mv[2]
      /\ \A t \in Thread : t \in old.dead <=>
           (\E mv \in old.moves : mv[2] = t) /\ \A d \in tag[t] : <<d, t>> \in old.moves
      /\ \A t \in Thread : tag[t] = {d \in Doc : Stored(d) /\ mail[d].thread = t}
  BY <1>1 DEF Matched, Serial, Current, Whole, Working, Reading, TagsMatch
<1>5. \A d \in docs : \E mv \in old.moves : mv[1] = d /\ mv[2] = mail[d].thread
  BY <1>4
<1>6. \A d \in Doc, t \in Thread : <<d, t>> \in old.moves => d \in docs
  OBVIOUS
<1> HIDE DEF docs, old
<1>7. \A d \in Doc : Live(d)' => Live(d) /\ d \notin docs /\ mail'[d] = mail[d]
  <2>1. ASSUME NEW m \in Mail PROVE [m EXCEPT !.thread = NoThread, !.tomb = TRUE].tomb = TRUE
    BY DEF Mail
  <2>2. \A d \in Doc : Stored(d) => mail[d] \in Mail
    BY DEF Safe, Types, Stored
  <2>3. \A d \in Doc : d \in docs /\ Stored(d) => mail'[d].tomb = TRUE
    BY <1>1, <2>1, <2>2
  <2>4. \A d \in Doc : ~(d \in docs /\ Stored(d)) => mail'[d] = mail[d]
    BY <1>1
  <2> QED
    BY <2>3, <2>4 DEF Live, Stored
<1>8. \A d \in Doc : Live(d) /\ d \notin docs => Live(d)' /\ mail'[d] = mail[d]
  BY <1>1 DEF Live, Stored
<1>9. \A d \in Doc : Live(d) => mail[d].thread \in threads /\ mail[d].thread \in Thread
  BY DEF Whole, Sorted, ThreadExists, Safe, Types
<1>10. ThreadExists'
  <2> SUFFICES ASSUME NEW d \in Doc, Live(d)' PROVE mail'[d].thread \in threads'
    BY DEF ThreadExists
  <2>1. Live(d) /\ d \notin docs /\ mail'[d] = mail[d]
    BY <1>7
  <2> DEFINE t == mail[d].thread
  <2>2. t \in threads /\ t \in Thread /\ d \in tag[t]
    BY <1>4, <1>9, <2>1 DEF Live
  <2>3. t \notin old.dead
    BY <1>4, <1>6, <2>1, <2>2
  <2> QED
    BY <1>1, <2>1, <2>2, <2>3
<1>11. Peopled'
  <2> SUFFICES ASSUME NEW t \in threads' PROVE \E d \in Doc : Live(d)' /\ mail'[d].thread = t
    BY DEF Peopled
  <2>1. t \in threads /\ t \notin old.dead /\ t \in Thread
    BY <1>1 DEF Safe, Types
  <2>2. CASE \E mv \in old.moves : mv[2] = t
    <3>1. PICK d \in tag[t] : <<d, t>> \notin old.moves
      BY <1>4, <2>1, <2>2
    <3>a. d \in Doc /\ Stored(d) /\ mail[d].thread = t
      BY <1>4, <2>1
    <3>b. t # NoThread
      BY <2>1, MailAssumption
    <3>2. d \in Doc /\ Stored(d) /\ mail[d].thread = t /\ ~mail[d].tomb
      BY <3>a, <3>b DEF Safe, Tombs
    <3>3. d \notin docs
      <4>1. ASSUME d \in docs PROVE FALSE
        <5>1. PICK mv \in old.moves : mv[1] = d /\ mv[2] = t
          BY <1>5, <3>2, <4>1
        <5>a. old.moves \in SUBSET (Doc \X MaybeThread)
          BY <1>1 DEF Request
        <5>b. mv \in Doc \X MaybeThread
          BY <5>1, <5>a
        <5>2. mv = <<d, t>>
          BY <5>1, <5>b
        <5> QED
          BY <3>1, <5>2
      <4> QED
        BY <4>1
    <3> QED
      BY <1>8, <3>2, <3>3 DEF Live
  <2>3. CASE ~ \E mv \in old.moves : mv[2] = t
    <3>1. PICK d \in Doc : Live(d) /\ mail[d].thread = t
      BY <2>1 DEF Whole, Sorted, Peopled
    <3>2. d \notin docs
      BY <1>5, <2>3, <3>1
    <3> QED
      BY <1>8, <3>1, <3>2
  <2> QED
    BY <2>2, <2>3
<1>12. Together'
  BY <1>7 DEF Whole, Sorted, Together
<1>13. OneAtWork' /\ Working'
  <2>1. \A q \in Proc : q # p => proc[q].pc = "idle"
    BY <1>1, Others DEF Whole, old
  <2>2. Reading(proc[p])'
    BY <1>2, <1>3, Unread
  <2> QED
    BY <1>3, <2>1, <2>2, OnlyOne
<1>14. CacheTrue'
  <2>1. proc'[p].pc = "commit"
    BY <1>2, <1>3
  <2> QED
    BY <2>1 DEF CacheTrue
<1>15. Logged'
  BY <1>1 DEF Whole, Logged
<1> QED
  BY <1>10, <1>11, <1>12, <1>13, <1>14, <1>15 DEF Whole, Sorted

LEMMA InsertMailWhole ==
  ASSUME NEW p \in Proc, NEW d \in Doc, NEW t \in Thread, Safe, Whole, InsertMail(p, d, t)
  PROVE  Whole'
<1> DEFINE old == proc[p]
           m == [msg |-> old.msg, thread |-> t, tomb |-> FALSE, uid |-> old.uid]
<1>1. /\ old \in Request /\ old.pc = "insert" /\ ~Stored(d) /\ proc' = [proc EXCEPT ![p] = Idle]
      /\ mail' = [mail EXCEPT ![d] = m]
      /\ threads' = IF old.thread = NoThread THEN threads \cup {t} ELSE threads
      /\ IF old.thread = NoThread THEN t \notin threads ELSE t = old.thread
      /\ log' = log \cup {old.id} /\ UNCHANGED <<ids, cache>>
  BY DEF InsertMail, Safe, Types
<1>2. /\ proc'[p] = Idle /\ \A q \in Proc : q # p => proc'[q] = proc[q]
  BY <1>1, IdleType, OneProc DEF Safe, Types
<1>3. /\ old.thread \in threads \cup {NoThread} /\ RelatedIn(old.msg, {old.thread})
      /\ old.id <= ids /\ \A i \in log : i < old.id
  BY <1>1 DEF Whole, Working, Reading
<1>4. old.id \in Nat /\ old.id > 0 /\ old.msg \in Msg
  BY <1>1, MailAssumption DEF Safe, Drawn, Named, Ingesting
<1>5. m.msg = old.msg /\ m.thread = t /\ m.tomb = FALSE /\ m # NoMail
  <2>1. m \in Mail
    BY <1>1, <1>4, MailAssumption DEF Safe, Types, Uids, Mail, MaybeThread
  <2>2. NoMail \notin Mail
    BY MailAssumption DEF Mail, MaybeThread
  <2> QED
    BY <2>1, <2>2
<1> HIDE DEF m, old
<1>6. mail'[d] = m /\ Live(d)' /\ \A c \in Doc : c # d => mail'[c] = mail[c] /\ (Live(c)' <=> Live(c))
  BY <1>1, <1>5 DEF Safe, Types, Stored, Live
<1>7. ~Live(d)
  BY <1>1 DEF Live
<1>8. threads' \subseteq threads \cup {t} /\ threads \subseteq threads' /\ t \in threads'
  BY <1>1, <1>3
<1>9. \A c \in Doc : Live(c) => mail[c].thread \in threads
  BY DEF Whole, Sorted, ThreadExists
<1>10. ThreadExists'
  BY <1>5, <1>6, <1>8, <1>9 DEF ThreadExists
<1>11. Peopled'
  <2> SUFFICES ASSUME NEW u \in threads' PROVE \E c \in Doc : Live(c)' /\ mail'[c].thread = u
    BY DEF Peopled
  <2>1. CASE u = t
    BY <1>5, <1>6, <2>1
  <2>2. CASE u # t
    <3>1. PICK c \in Doc : Live(c) /\ mail[c].thread = u
      BY <1>8, <2>2 DEF Whole, Sorted, Peopled
    <3> QED
      BY <1>6, <1>7, <3>1
  <2> QED
    BY <2>1, <2>2
<1>12. \A c \in Doc : Live(c) /\ Refs(mail[c].msg) \cap Refs(old.msg) # {} => mail[c].thread = t
  <2> SUFFICES ASSUME NEW c \in Doc, Live(c), Refs(mail[c].msg) \cap Refs(old.msg) # {} PROVE mail[c].thread = t
    OBVIOUS
  <2>1. mail[c].thread = old.thread
    BY <1>3 DEF RelatedIn, Related, Live
  <2>2. old.thread # NoThread
    <3>1. mail[c].thread \in Thread
      BY <1>9 DEF Safe, Types
    <3> QED
      BY <2>1, <3>1, MailAssumption
  <2> QED
    BY <1>1, <2>1, <2>2
<1>13. Together'
  <2> SUFFICES ASSUME NEW b \in Doc, NEW c \in Doc, Live(b)', Live(c)', Refs(mail'[b].msg) \cap Refs(mail'[c].msg) # {}
               PROVE  mail'[b].thread = mail'[c].thread
    BY DEF Together
  <2>1. CASE b = d /\ c = d
    BY <2>1
  <2>2. CASE b = d /\ c # d
    <3>1. Live(c) /\ mail'[c] = mail[c] /\ Refs(mail[c].msg) \cap Refs(old.msg) # {}
      BY <1>5, <1>6, <2>2
    <3> QED
      BY <1>5, <1>6, <1>12, <2>2, <3>1
  <2>3. CASE b # d /\ c = d
    <3>1. Live(b) /\ mail'[b] = mail[b] /\ Refs(mail[b].msg) \cap Refs(old.msg) # {}
      BY <1>5, <1>6, <2>3
    <3> QED
      BY <1>5, <1>6, <1>12, <2>3, <3>1
  <2>4. CASE b # d /\ c # d
    BY <1>6, <2>4 DEF Whole, Sorted, Together
  <2> QED
    BY <2>1, <2>2, <2>3, <2>4
<1>14. OneAtWork' /\ Working'
  <2>1. \A q \in Proc : q # p => proc[q].pc = "idle"
    BY <1>1, Others DEF Whole, old
  <2>2. proc'[p].pc = "idle"
    BY <1>2 DEF Idle
  <2>3. Reading(proc[p])'
    BY <2>2, Unread
  <2> QED
    BY <1>2, <2>1, <2>3, OnlyOne
<1>15. CacheTrue'
  BY <1>1, <1>3, <1>4, CacheOld DEF Whole, Safe
<1>16. Logged'
  BY <1>1, <1>3 DEF Whole, Logged
<1> QED
  BY <1>10, <1>11, <1>13, <1>14, <1>15, <1>16 DEF Whole, Sorted

\* What get_cached_thread_ids returns is true.
LEMMA CachedTruly ==
  ASSUME Types, Logged, CacheTrue, \A q \in Proc : proc[q].pc # "commit"
  PROVE  /\ CachedThreads.modseq \in log \cup {0}
         /\ \A d \in Doc : Stored(d) => CachedThreads.map[d] = mail[d].thread
<1>1. LastChange \in log \cup {0} /\ LastChange \in Nat /\ \A i \in log : i <= LastChange
  <2>1. CASE log = {}
    BY <2>1 DEF LastChange
  <2>2. CASE log # {}
    <3>1. log \in SUBSET Nat /\ log \in SUBSET (1..MaxIds) /\ MaxIds \in Nat
      BY MailAssumption DEF Types
    <3>2. IsFiniteSet(1..MaxIds)
      BY <3>1, FS_Interval
    <3>3. IsFiniteSet(log)
      BY <3>1, <3>2, FS_Subset
    <3>4. MaxOf(log) \in log /\ \A i \in log : i <= MaxOf(log)
      BY <2>2, <3>1, <3>3, MaxOfFinite
    <3> QED
      BY <2>2, <3>1, <3>4 DEF LastChange
  <2> QED
    BY <2>1, <2>2
<1>2. CASE cache.modseq >= LastChange
  <2>1. CachedThreads = cache
    BY <1>2 DEF CachedThreads
  <2>2. cache.modseq \in Nat /\ log \subseteq Nat
    BY MailAssumption DEF Types
  <2> DEFINE top == LastChange
             seen == cache.modseq
  <2>a. top \in Nat /\ seen \in Nat /\ seen >= top /\ \A i \in log : i \in Nat /\ i <= top
    BY <1>1, <1>2, <2>2
  <2> HIDE DEF top, seen
  <2>b. \A i \in log : i <= seen
    BY <2>a
  <2>3. \A i \in log : i <= cache.modseq
    BY <2>b DEF seen
  <2> QED
    BY <2>1, <2>3 DEF Logged, CacheTrue
<1>3. CASE ~(cache.modseq >= LastChange)
  <2> DEFINE f == [d \in Doc |-> IF Stored(d) THEN mail[d].thread ELSE NoThread]
  <2>1. CachedThreads = [modseq |-> LastChange, map |-> f]
    BY <1>3 DEF CachedThreads
  <2>2. \A d \in Doc : Stored(d) => f[d] = mail[d].thread
    OBVIOUS
  <2> HIDE DEF f
  <2> QED
    BY <1>1, <2>1, <2>2
<1> QED
  BY <1>2, <1>3

\* The threads of finitely many documents are finitely many.
LEMMA HitsFinite ==
  ASSUME NEW found \in SUBSET Doc, NEW map
  PROVE  IsFiniteSet(Hits(found, map))
<1>1. IsFiniteSet(found)
  BY FS_Subset, MailAssumption
<1> DEFINE T == {map[d] : d \in found}
           f == [d \in found |-> map[d]]
<1>2. f \in [found -> T] /\ \A t \in T : \E d \in found : f[d] = t
  OBVIOUS
<1>3. f \in Surjection(found, T)
  <2> HIDE DEF f, T
  <2> QED
    BY <1>2 DEF Surjection
<1>4. IsFiniteSet(T)
  <2> HIDE DEF f, T
  <2> QED
    BY <1>1, <1>3, FS_Surjection
<1>5. Hits(found, map) \subseteq T
  BY DEF Hits, InThread
<1> QED
  BY <1>4, <1>5, FS_Subset

LEMMA ChooseThreadWhole ==
  ASSUME NEW p \in Proc, Safe, Matched, Serial, Whole, ChooseThread(p)
  PROVE  Whole'
<1> DEFINE c == CachedThreads
           old == proc[p]
           hits == Hits(old.found, c.map)
           first == MostCommon(old.found, c.map)
<1>1. old \in Request /\ old.pc = "threads" /\ UNCHANGED store /\ UNCHANGED <<log, uids>> /\ cache' = c
  BY DEF ChooseThread, Safe, Types
<1>2. \A q \in Proc : q # p => proc[q].pc = "idle"
  BY <1>1, Others DEF Whole
<1>3. c.modseq \in log \cup {0} /\ \A d \in Doc : Stored(d) => c.map[d] = mail[d].thread
  <2>1. \A q \in Proc : proc[q].pc # "commit"
    BY <1>1, <1>2
  <2> QED
    BY <2>1, CachedTruly DEF Safe, Whole
<1>4. old.thread = NoThread /\ old.found = {d \in Doc : Related(d, old.msg)}
  BY <1>1 DEF Whole, Working, Reading
<1>5. hits = {t \in Thread : \E d \in Doc : Related(d, old.msg) /\ mail[d].thread = t}
  BY <1>3, <1>4 DEF Hits, InThread, Related
<1>6. hits \subseteq threads
  <2> SUFFICES ASSUME NEW t \in hits PROVE t \in threads
    OBVIOUS
  <2>1. PICK d \in Doc : Stored(d) /\ mail[d].thread = t /\ t \in Thread
    BY <1>5 DEF Related
  <2>2. Live(d)
    BY <2>1, MailAssumption DEF Live, Safe, Tombs
  <2> QED
    BY <2>1, <2>2 DEF Whole, Sorted, ThreadExists
<1>7. RelatedIn(old.msg, hits)
  <2>1. \A d \in Doc : Live(d) => mail[d].thread \in Thread
    BY DEF Whole, Sorted, ThreadExists, Safe, Types
  <2> QED
    BY <1>5, <2>1 DEF RelatedIn
<1>8. hits # {} => first \in hits
  BY <1>1, MostCommonIsHit DEF Request
<1>9. hits \in SUBSET Thread
  BY <1>5
<1> HIDE DEF c, hits, first
<1>10. /\ \A d \in Doc, m \in Msg \cup {NoMail} : Related(d, m)' <=> Related(d, m)
       /\ \A d \in Doc : (Live(d)' <=> Live(d)) /\ mail'[d] = mail[d]
       /\ threads' = threads /\ tag' = tag /\ log' = log
  BY <1>1 DEF store, Related, Live, Stored
<1>11. old.msg \in Msg \cup {NoMail}
  BY <1>1 DEF Request
<1>12. Sorted' /\ CacheTrue' /\ (ids' \in Nat /\ ids <= ids' => Logged')
  <2>1. Sorted'
    BY <1>1, SameMail DEF Whole
  <2>2. CacheTrue'
    BY <1>1, <1>3 DEF CacheTrue, store, Stored
  <2>3. ASSUME ids' \in Nat, ids <= ids' PROVE Logged'
    <3>1. \A i \in log : i \in Nat /\ i <= ids
      BY MailAssumption DEF Whole, Logged, Safe, Types
    <3>2. ids \in Nat
      BY MailAssumption DEF Safe, Types
    <3>3. \A i \in log' : i <= ids'
      BY <1>1, <2>3, <3>1, <3>2
    <3> QED
      BY <1>1, <1>3, <3>3 DEF Logged
  <2> QED
    BY <2>1, <2>2, <2>3
<1>13. ids \in Nat
  BY MailAssumption DEF Safe, Types
<1>14. CASE UNCHANGED ids /\ \E t \in threads \cup {NoThread} :
              RelatedIn(old.msg, {t}) /\ proc' = [proc EXCEPT ![p] = [old EXCEPT !.pc = "assign", !.thread = t]]
  <2>1. PICK t \in threads \cup {NoThread} :
              RelatedIn(old.msg, {t}) /\ proc' = [proc EXCEPT ![p] = [old EXCEPT !.pc = "assign", !.thread = t]]
    BY <1>14
  <2> DEFINE r == [old EXCEPT !.pc = "assign", !.thread = t]
  <2>2. r \in Request /\ r.pc = "assign" /\ r.msg = old.msg /\ r.thread = t
    <3>1. t \in MaybeThread
      BY <2>1 DEF MaybeThread, Safe, Types
    <3> HIDE DEF old
    <3> QED
      BY <1>1, <3>1 DEF Request, Steps
  <2>3. proc' = [proc EXCEPT ![p] = r]
    BY <2>1
  <2> HIDE DEF r
  <2>4. /\ proc'[p] = r /\ \A q \in Proc : q # p => proc'[q] = proc[q]
    BY <2>2, <2>3, OneProc DEF Safe, Types
  <2>5. RelatedIn(proc[p].msg, {proc[p].thread})'
    <3>1. proc'[p].msg = old.msg /\ proc'[p].thread = t
      BY <2>2, <2>4
    <3> QED
      BY <1>1, <2>1, <3>1 DEF RelatedIn, Related, Live, Stored, store
  <2>6. Reading(proc[p])'
    BY <1>10, <2>1, <2>2, <2>4, <2>5 DEF Reading
  <2>7. OneAtWork' /\ Working'
    BY <1>2, <2>4, <2>6, OnlyOne
  <2>8. Logged'
    BY <1>12, <1>13, <1>14
  <2> QED
    BY <1>12, <2>7, <2>8 DEF Whole
<1>15. CASE hits = {} /\ proc' = [proc EXCEPT ![p].pc = "assign"] /\ UNCHANGED ids
  <2>1. [old EXCEPT !.pc = "assign"] = [old EXCEPT !.pc = "assign", !.thread = NoThread]
    BY <1>1, <1>4 DEF Request
  <2>2. proc' = [proc EXCEPT ![p] = [old EXCEPT !.pc = "assign", !.thread = NoThread]]
    BY <1>15, <2>1 DEF Safe, Types
  <2>3. RelatedIn(old.msg, {NoThread})
    BY <1>7, <1>15 DEF RelatedIn
  <2> QED
    BY <1>14, <1>15, <2>2, <2>3
<1>16. CASE /\ Cardinality(hits) = 1
            /\ proc' = [proc EXCEPT ![p].pc = "assign", ![p].thread = CHOOSE t \in hits : TRUE]
            /\ UNCHANGED ids
  <2> DEFINE t == CHOOSE t \in hits : TRUE
  <2>1. IsFiniteSet(hits)
    BY <1>1, HitsFinite DEF hits, c, Request
  <2>2. PICK u : hits = {u}
    BY <1>16, <2>1, FS_Singleton
  <2>3. t = u
    BY <2>2
  <2>4. proc' = [proc EXCEPT ![p].pc = "assign", ![p].thread = t]
    BY <1>16
  <2> HIDE DEF t
  <2>5. proc' = [proc EXCEPT ![p] = [old EXCEPT !.pc = "assign", !.thread = t]]
    BY <2>4 DEF Safe, Types
  <2>6. t \in threads \cup {NoThread} /\ RelatedIn(old.msg, {t})
    BY <1>6, <1>7, <2>2, <2>3
  <2> QED
    BY <1>14, <1>16, <2>5, <2>6
<1>17. CASE /\ Cardinality(hits) > 1 /\ ids < MaxIds /\ ids' = ids + 1
            /\ proc' = [proc EXCEPT ![p].pc = "merge", ![p].thread = first, ![p].id = ids',
                                    ![p].dead = hits \ {first},
                                    ![p].moves = UNION {tag[u] \X {u} : u \in hits \ {first}}]
  <2> DEFINE dead == hits \ {first}
             moves == UNION {tag[u] \X {u} : u \in dead}
             id == ids'
             r == [old EXCEPT !.pc = "merge", !.thread = first, !.id = id, !.dead = dead, !.moves = moves]
  <2>1. first \in hits
    <3>1. Cardinality({}) = 0
      BY FS_EmptySet
    <3>2. Cardinality(hits) > 1
      BY <1>17
    <3>3. hits # {}
      BY <3>1, <3>2
    <3> QED
      BY <1>8, <3>3
  <2>2. dead \subseteq Thread /\ moves \subseteq Doc \X dead /\ first \in threads /\ first \in Thread
    BY <1>6, <1>9, <2>1 DEF Safe, Types
  <2>3. moves \in SUBSET (Doc \X MaybeThread)
    BY <2>2 DEF MaybeThread
  <2>4. \A d \in Doc, u \in dead : <<d, u>> \in moves <=> d \in tag[u]
    OBVIOUS
  <2>5. id \in 0..MaxIds /\ id \in Nat /\ ids <= id
    BY <1>13, <1>17, MailAssumption
  <2>6. \A i \in log : i < id
    <3>1. \A i \in log : i \in Nat /\ i <= ids
      BY MailAssumption DEF Whole, Logged, Safe, Types
    <3> QED
      BY <1>13, <1>17, <3>1
  <2>7. proc' = [proc EXCEPT ![p] = r]
    BY <1>17 DEF Safe, Types
  <2>8. dead \cup {first} = hits
    BY <2>1
  <2> HIDE DEF dead, moves, id, old
  <2>9. r \in Request /\ r.pc = "merge" /\ r.thread = first /\ r.dead = dead /\ r.moves = moves /\ r.id = id /\ r.msg = old.msg
    BY <1>1, <2>2, <2>3, <2>5 DEF Request, Steps, MaybeThread
  <2> HIDE DEF r
  <2>10. /\ proc'[p] = r /\ \A q \in Proc : q # p => proc'[q] = proc[q]
    BY <2>7, <2>9, OneProc DEF Safe, Types
  <2>11. RelatedIn(proc[p].msg, proc[p].dead \cup {proc[p].thread})'
    <3>1. proc'[p].msg = old.msg /\ proc'[p].dead \cup {proc'[p].thread} = hits
      BY <2>8, <2>9, <2>10
    <3>2. \A d \in Doc : (Live(d) /\ Related(d, proc[p].msg))' => mail'[d].thread \in hits
      BY <1>1, <1>7, <3>1 DEF RelatedIn, Related, Live, Stored, store
    <3> QED
      BY <3>1, <3>2 DEF RelatedIn
  <2>12. proc'[p].id <= ids' /\ \A i \in log' : i < proc'[p].id
    BY <1>10, <2>5, <2>6, <2>9, <2>10 DEF id
  <2>13. proc'[p].thread \in threads' /\ \A d \in Doc, u \in proc'[p].dead : <<d, u>> \in proc'[p].moves <=> d \in tag'[u]
    BY <1>10, <2>2, <2>4, <2>9, <2>10
  <2>14. proc'[p].pc = "merge"
    BY <2>9, <2>10
  <2>15. Reading(proc[p])'
    BY <2>11, <2>12, <2>13, <2>14 DEF Reading
  <2>16. OneAtWork' /\ Working'
    BY <1>2, <2>10, <2>15, OnlyOne
  <2>17. Logged'
    BY <1>12, <2>5 DEF id
  <2> QED
    BY <1>12, <2>16, <2>17 DEF Whole
<1> QED
  BY <1>15, <1>16, <1>17 DEF ChooseThread, c, hits, first

LEMMA MergeThreadsWhole ==
  ASSUME Serial, NEW p \in Proc, Safe, Matched, Whole, MergeThreads(p)
  PROVE  Whole'
<1> DEFINE old == proc[p]
           still == \A mv \in old.moves : Stored(mv[1]) /\ mail[mv[1]].thread = mv[2]
<1>1. old \in Request /\ old.pc = "merge" /\ old.msg \in Msg /\ UNCHANGED <<ids, uids, cache>>
  BY DEF MergeThreads, Safe, Types, Named, Ingesting
<1>2. \A q \in Proc : q # p => proc[q].pc = "idle"
  BY <1>1, Others DEF Whole
<1>3. CASE /\ still /\ MoveTo(old.thread, old.moves, old.dead)
           /\ log' = log \cup {old.id} /\ proc' = [proc EXCEPT ![p].pc = "assign"]
  <2> DEFINE r == [old EXCEPT !.pc = "assign"]
             docs == {mv[1] : mv \in old.moves}
  <2>1. proc' = [proc EXCEPT ![p] = r]
    BY <1>3 DEF Safe, Types
  <2>2. old.thread \in Thread /\ old.dead \in SUBSET Thread /\ old.thread \notin old.dead /\ old.moves \in SUBSET (Doc \X old.dead)
    BY <1>1 DEF Safe, Targets, Request
  <2>3. /\ old.thread \in threads /\ RelatedIn(old.msg, old.dead \cup {old.thread})
        /\ \A d \in Doc, u \in old.dead : <<d, u>> \in old.moves <=> d \in tag[u]
        /\ old.id <= ids /\ \A i \in log : i < old.id
    BY <1>1 DEF Whole, Working, Reading
  <2>4. \A u \in Thread : tag[u] = {d \in Doc : Stored(d) /\ mail[d].thread = u}
    BY DEF Matched, Serial, TagsMatch
  <2>5. \A d \in Doc : d \in docs <=> Stored(d) /\ mail[d].thread \in old.dead
    <3>1. ASSUME NEW d \in Doc, Stored(d), mail[d].thread \in old.dead PROVE d \in docs
      <4>1. d \in tag[mail[d].thread]
        BY <2>2, <2>4, <3>1
      <4>2. <<d, mail[d].thread>> \in old.moves
        BY <2>3, <3>1, <4>1
      <4> QED
        BY <4>2
    <3>2. ASSUME NEW d \in docs PROVE Stored(d) /\ mail[d].thread \in old.dead
      <4>1. PICK mv \in old.moves : d = mv[1]
        OBVIOUS
      <4>2. mv[2] \in old.dead
        BY <2>2
      <4> QED
        BY <1>3, <4>1, <4>2
    <3> QED
      BY <3>1, <3>2
  <2>6. /\ mail' = [d \in Doc |-> IF d \in docs THEN [mail[d] EXCEPT !.thread = old.thread] ELSE mail[d]]
        /\ threads' = threads \ old.dead
    BY <1>3 DEF MoveTo
  <2>7. r \in Request /\ r.pc = "assign" /\ r.msg = old.msg /\ r.thread = old.thread
    <3> HIDE DEF old
    <3> QED
      BY <1>1 DEF Request, Steps
  <2> HIDE DEF r, docs, old
  <2>8. /\ proc'[p] = r /\ \A q \in Proc : q # p => proc'[q] = proc[q]
    BY <2>1, <2>7, OneProc DEF Safe, Types
  <2>9. ASSUME NEW m \in Mail
        PROVE  /\ [m EXCEPT !.thread = old.thread].thread = old.thread /\ [m EXCEPT !.thread = old.thread].tomb = m.tomb
               /\ [m EXCEPT !.thread = old.thread].msg = m.msg /\ [m EXCEPT !.thread = old.thread] \in Mail
    BY <2>2 DEF Mail, MaybeThread
  <2>10. \A d \in Doc : Stored(d) => mail[d] \in Mail
    BY DEF Safe, Types, Stored
  <2>11. NoMail \notin Mail
    BY MailAssumption DEF Mail, MaybeThread
  <2>12. \A d \in docs : d \in Doc => mail'[d].thread = old.thread /\ mail'[d].tomb = mail[d].tomb /\ mail'[d].msg = mail[d].msg /\ mail'[d] \in Mail
    BY <2>5, <2>6, <2>9, <2>10
  <2>13. \A d \in Doc : d \notin docs => mail'[d] = mail[d]
    BY <2>6
  <2>14. \A d \in Doc : (Live(d)' <=> Live(d)) /\ (Stored(d)' <=> Stored(d)) /\ mail'[d].msg = mail[d].msg
    BY <2>5, <2>11, <2>12, <2>13 DEF Live, Stored
  <2>15. \A d \in Doc : Live(d) => mail'[d].thread = IF mail[d].thread \in old.dead THEN old.thread ELSE mail[d].thread
    BY <2>5, <2>12, <2>13 DEF Live
  <2>16. \A d \in Doc : Live(d) => mail[d].thread \in threads
    BY DEF Whole, Sorted, ThreadExists
  <2>17. ThreadExists'
    BY <2>2, <2>3, <2>6, <2>14, <2>15, <2>16 DEF ThreadExists
  <2>18. Peopled'
    <3> SUFFICES ASSUME NEW t \in threads' PROVE \E d \in Doc : Live(d)' /\ mail'[d].thread = t
      BY DEF Peopled
    <3>1. t \in threads /\ t \notin old.dead
      BY <2>6
    <3>2. PICK d \in Doc : Live(d) /\ mail[d].thread = t
      BY <3>1 DEF Whole, Sorted, Peopled
    <3> QED
      BY <2>14, <2>15, <3>1, <3>2
  <2>19. Together'
    <3> SUFFICES ASSUME NEW b \in Doc, NEW c \in Doc, Live(b)', Live(c)', Refs(mail'[b].msg) \cap Refs(mail'[c].msg) # {}
                 PROVE  mail'[b].thread = mail'[c].thread
      BY DEF Together
    <3>1. Live(b) /\ Live(c) /\ Refs(mail[b].msg) \cap Refs(mail[c].msg) # {}
      BY <2>14
    <3>2. mail[b].thread = mail[c].thread
      BY <3>1 DEF Whole, Sorted, Together
    <3> QED
      BY <2>15, <3>1, <3>2
  <2>20. RelatedIn(proc[p].msg, {proc[p].thread})'
    <3>1. proc'[p].msg = old.msg /\ proc'[p].thread = old.thread
      BY <2>7, <2>8
    <3> SUFFICES ASSUME NEW d \in Doc, Live(d)', Related(d, proc[p].msg)' PROVE mail'[d].thread = old.thread
      BY <3>1 DEF RelatedIn
    <3>2. Live(d) /\ Related(d, old.msg)
      BY <2>14, <3>1 DEF Related
    <3>3. mail[d].thread \in old.dead \cup {old.thread}
      BY <2>3, <3>2 DEF RelatedIn
    <3> QED
      BY <2>15, <3>2, <3>3
  <2>21. Reading(proc[p])'
    <3>1. proc'[p].pc = "assign" /\ proc'[p].thread \in threads'
      BY <2>2, <2>3, <2>6, <2>7, <2>8
    <3> QED
      BY <2>20, <3>1 DEF Reading
  <2>22. OneAtWork' /\ Working'
    BY <1>2, <2>8, <2>21, OnlyOne
  <2>23. CacheTrue' /\ Logged'
    <3>1. old.id \in Nat /\ old.id > 0
      BY <1>1, MailAssumption DEF Safe, Drawn, old
    <3>2. CacheTrue'
      BY <1>1, <1>3, <2>3, <3>1, CacheOld DEF Safe, Whole
    <3>3. Logged'
      BY <1>1, <1>3, <2>3 DEF Whole, Logged
    <3> QED
      BY <3>2, <3>3
  <2> QED
    BY <2>17, <2>18, <2>19, <2>22, <2>23 DEF Whole, Sorted
<1>4. CASE /\ UNCHANGED <<store, log>>
           /\ \E r \in Request : r.pc \in {"idle", "find"} /\ proc' = [proc EXCEPT ![p] = r]
  <2>1. PICK r \in Request : r.pc \in {"idle", "find"} /\ proc' = [proc EXCEPT ![p] = r]
    BY <1>4
  <2>2. /\ proc'[p] = r /\ \A q \in Proc : q # p => proc'[q] = proc[q]
    BY <2>1, OneProc DEF Safe, Types
  <2>3. Reading(proc[p])'
    BY <2>1, <2>2, Unread
  <2>4. OneAtWork' /\ Working'
    BY <1>2, <2>2, <2>3, OnlyOne
  <2>5. Logged' /\ Sorted'
    BY <1>1, <1>4, SameMail DEF Whole, Logged
  <2>6. CacheTrue'
    <3>1. \A q \in Proc : proc[q].pc # "commit"
      BY <1>1, <1>2
    <3> QED
      BY <1>1, <1>4, <3>1, SameCache DEF Whole
  <2> QED
    BY <2>4, <2>5, <2>6 DEF Whole
<1>5. Idle \in Request /\ Idle.pc = "idle"
  BY IdleType DEF Idle
<1>6. CASE /\ ~still /\ old.tries < MaxRetries
           /\ proc' = [proc EXCEPT ![p] = [Idle EXCEPT !.pc = "find", !.msg = old.msg, !.tries = old.tries + 1]]
           /\ UNCHANGED <<store, log>>
  <2> DEFINE k == old.tries + 1
             msg == old.msg
             r == [Idle EXCEPT !.pc = "find", !.msg = msg, !.tries = k]
  <2>1. k \in 0..MaxRetries /\ msg \in Msg
    BY <1>1, <1>6, MailAssumption DEF Request
  <2>2. proc' = [proc EXCEPT ![p] = r]
    BY <1>6
  <2> HIDE DEF k, msg
  <2>3. r \in Request /\ r.pc = "find"
    BY <1>5, <2>1 DEF Request, Steps, Idle
  <2> QED
    BY <1>4, <1>6, <2>2, <2>3
<1>7. CASE proc' = [proc EXCEPT ![p] = Idle] /\ UNCHANGED <<store, log>>
  BY <1>4, <1>5, <1>7
<1>8. \/ /\ still /\ MoveTo(old.thread, old.moves, old.dead)
         /\ log' = log \cup {old.id} /\ proc' = [proc EXCEPT ![p].pc = "assign"]
      \/ /\ ~still /\ old.tries < MaxRetries
         /\ proc' = [proc EXCEPT ![p] = [Idle EXCEPT !.pc = "find", !.msg = old.msg, !.tries = old.tries + 1]]
         /\ UNCHANGED <<store, log>>
      \/ proc' = [proc EXCEPT ![p] = Idle] /\ UNCHANGED <<store, log>>
  BY Zenon DEF MergeThreads
<1> QED
  BY Zenon, <1>3, <1>6, <1>7, <1>8

\* Every step of a request that is alone keeps the conversations whole.
LEMMA WholeStep ==
  ASSUME Serial
  PROVE  Safe /\ Matched /\ Whole /\ [Next]_vars => Whole'
<1>1. ASSUME Whole, UNCHANGED vars PROVE Whole'
  <2>1. UNCHANGED store /\ UNCHANGED <<log, ids, cache, proc>>
    BY <1>1 DEF vars, store
  <2>2. Sorted'
    BY <1>1, <2>1, SameMail DEF Whole
  <2>3. OneAtWork' /\ Logged' /\ CacheTrue'
    BY <1>1, <2>1 DEF Whole, OneAtWork, Logged, CacheTrue, store, Stored
  <2>4. ASSUME NEW p \in Proc PROVE Reading(proc[p])'
    <3>1. Reading(proc[p])
      BY <1>1 DEF Whole, Working
    <3> QED
      BY <2>1, <3>1 DEF Reading, RelatedIn, Related, Live, Stored, store
  <2> QED
    BY <2>2, <2>3, <2>4 DEF Whole, Working
<1> QED
  BY <1>1, StartIngestWhole, FindMatchesWhole, ChooseThreadWhole, MergeThreadsWhole, AssignIdsWhole,
     InsertMailWhole, StartDeleteWhole, TombstoneWhole, CommitChangesWhole, PurgeWhole DEF Next

LEMMA WholeInit == Init => Whole
  BY DEF Init, Whole, OneAtWork, Logged, CacheTrue, Sorted, ThreadExists, Peopled, Together, Working, Reading,
         Live, Stored, Idle

-------------------------------------------------------------------------------
(* Theorems. *)

\* Every variable keeps its type and a UID is given once, however many messages are stored,
\* merged and deleted at the same time (assign_imap_uid increments the counter it reads).
THEOREM UidsAreUnique == Spec => []TypeOK
<1>1. Init => Safe /\ Matched
  BY InitHolds DEF Safe, Matched
<1>2. Safe /\ Matched /\ [Next]_vars => (Safe /\ Matched)'
  BY MailStep
<1>3. Safe => TypeOK
  BY DEF Safe, Types, Uids, TypeOK
<1> QED
  BY <1>1, <1>2, <1>3, PTL DEF Spec

\* The members of a thread, found by their tags, are the messages that name it, also when
\* threads are merged by several requests at the same time, each with what it read of the
\* others' threads before: the assertion on every message that find_or_merge_thread moves is
\* enough.  Deletions assert nothing, and are assumed to run alone.
THEOREM TagsAgree ==
  ASSUME Deletes # "any"
  PROVE  Spec => []TagsMatch
<1>1. Init => Safe /\ Matched
  BY InitHolds DEF Safe, Matched
<1>2. Safe /\ Matched /\ [Next]_vars => (Safe /\ Matched)'
  BY MailStep
<1>3. Matched => TagsMatch
  BY DEF Matched
<1> QED
  BY <1>1, <1>2, <1>3, PTL DEF Spec

\* When messages come one after the other and deletions run alone, a message is in a thread
\* that exists, no thread is empty and messages that share a reference are in one, whatever
\* is merged, deleted and purged between them: the cache that find_or_merge_thread trusts is
\* as of the last change, what it reads covers every thread it merges, and the threads that
\* emails_tombstone deletes are those nobody is left in.
THEOREM ConversationsAreWhole ==
  ASSUME Serial
  PROVE  Spec => []ThreadsHold
<1>1. Init => Safe /\ Matched /\ Whole
  BY InitHolds, WholeInit DEF Safe, Matched
<1>2. Safe /\ Matched /\ Whole /\ [Next]_vars => (Safe /\ Matched /\ Whole)'
  BY MailStep, WholeStep
<1>3. Whole => ThreadsHold
  BY DEF Whole, Sorted, Peopled, ThreadsHold, NoEmptyThread
<1> QED
  BY <1>1, <1>2, <1>3, PTL DEF Spec
====
