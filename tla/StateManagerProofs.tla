--------------------------- MODULE StateManagerProofs ---------------------------
(***************************************************************************)
(* Proofs about StateManager, for any number of clients, subscriptions and *)
(* changes: the limits of the push subscriptions and of the channels, and  *)
(* that a client that is connected is never forgotten.                     *)
(***************************************************************************)
EXTENDS StateManager, FiniteSetTheorems, SequenceTheorems, TLAPS

Sub == [url : 1..MaxSets, verified : BOOLEAN, expires : Nat]
Entry == [slot : Slot, sub : Sub]
Notice == [to : Client, key : Key, state : Nat]
Event ==
    [type : {"shared"}] \cup [type : {"subscribe"}, client : Client]
    \cup [type : {"subscriptions"}, list : SUBSET Entry] \cup [type : {"publish"}, key : Key, state : Nat]
ClientState ==
    [open : BOOLEAN, gone : BOOLEAN, channel : Seq(Notice), enabled : BOOLEAN,
     changed : [Key -> Nat], told : [Key -> Nat]]

Stored == {s \in Slot : stored[s] # None}

\* The store and the requests: no more than push_max_total subscriptions.
StoreOK ==
    /\ clock \in 0..MaxTime /\ sets \in 0..MaxSets
    /\ stored \in [Slot -> Sub \cup {None}] /\ Cardinality(Stored) <= MaxTotal
    /\ request \in [Requests -> [pc : {"none", "fetch", "send"}, list : SUBSET Entry]]

\* What is stored and not published, and what waits for the state manager.
QueueOK ==
    /\ latest \in [Key -> Nat] /\ commits \subseteq [key : Key, state : Nat] /\ events \in Seq(Event)

\* Tasks and clients; no channel holds more than its capacity.
ClientsOK ==
    /\ tasks \in Seq(Notice) /\ client \in [Client -> ClientState]
    /\ \A c \in Client : Len(client[c].channel) <= Capacity

\* The tables of the state manager and of the push manager.
TablesOK ==
    /\ subscribers \in [Client \cup Slot -> {None, [url |-> -1]} \cup Sub]
    /\ registered \in [Slot -> 0..MaxSets] /\ shared \subseteq access

Queued(c) == \E k \in DOMAIN events : events[k].type = "subscribe" /\ events[k].client = c
Reached(c) == client[c].open => subscribers[c] # None \/ Queued(c)
AllReached == \A c \in Client : Reached(c)

IInv == StoreOK /\ QueueOK /\ ClientsOK /\ TablesOK /\ AllReached

-------------------------------------------------------------------------------
(* Constants and operators. *)

LEMMA Numbers ==
  /\ MaxPublished \in Nat /\ MaxSets \in Nat /\ MaxTime \in Nat /\ MaxTotal \in Nat
  /\ Life \in Nat /\ Capacity \in Nat /\ Capacity > 0
  BY StateAssumption

LEMMA Finite == IsFiniteSet(Client) /\ IsFiniteSet(Slot) /\ Client \cap Slot = {}
  BY StateAssumption DEF Client

LEMMA Distinct == None \notin Sub /\ None # [url |-> -1]
<1>1. None.url = 0
  BY DEF None
<1>2. [url |-> -1].url = -1
  OBVIOUS
<1>3. \A s \in Sub : s.url \in 1..MaxSets
  BY DEF Sub
<1>4. 0 \notin 1..MaxSets
  BY Numbers
<1> QED
  BY <1>1, <1>2, <1>3, <1>4

LEMMA NothingType == Nothing \in [Key -> Nat]
  BY DEF Nothing

LEMMA AwayType == Away \in ClientState /\ Away.open = FALSE /\ Away.channel = <<>> /\ Len(<<>>) = 0
<1>1. <<>> \in Seq(Notice) /\ Len(<<>>) = 0
  BY EmptySeq
<1> QED
  BY <1>1, NothingType DEF Away, ClientState

LEMMA NoRequestType == NoRequest \in [pc : {"none", "fetch", "send"}, list : SUBSET Entry]
  BY DEF NoRequest

\* A finite set can be listed.
LEMMA SetToSeqIsSeq ==
  ASSUME NEW S, IsFiniteSet(S)
  PROVE  SetToSeq(S) \in Seq(S)
<1>1. PICK n \in Nat : ExistsBijection(1..n, S)
  BY FS_NatBijection
<1>2. Cardinality(S) = n
  BY <1>1, FS_CountingElements
<1>3. PICK f \in Bijection(1..n, S) : TRUE
  BY <1>1 DEF ExistsBijection
<1>4. f \in [1..n -> S] /\ IsInjective(f)
  BY <1>3 DEF Bijection, Injection
<1>5. SetToSeq(S) \in [1..n -> S]
  BY <1>2, <1>4 DEF SetToSeq
<1> QED
  BY <1>5, SeqDef

LEMMA RemoveAtIsSeq ==
  ASSUME NEW S, NEW s \in Seq(S), NEW i \in 1..Len(s)
  PROVE  RemoveAt(s, i) \in Seq(S)
<1>1. Len(s) \in Nat /\ \A k \in 1..Len(s) : s[k] \in S
  BY LenProperties, ElementOfSeq
<1>2. SubSeq(s, 1, i - 1) \in Seq(S)
  BY <1>1, SubSeqProperties
<1>3. SubSeq(s, i + 1, Len(s)) \in Seq(S)
  BY <1>1, SubSeqProperties
<1> QED
  BY <1>2, <1>3, ConcatProperties DEF RemoveAt

-------------------------------------------------------------------------------
(* What an event that is added or taken means for a client. *)

LEMMA QueuedAfterAppend ==
  ASSUME events \in Seq(Event), NEW new \in Seq(Event), events' = events \o new
  PROVE  /\ events' \in Seq(Event)
         /\ \A c \in Client : Queued(c) => Queued(c)'
<1>1. /\ events' \in Seq(Event) /\ Len(events') = Len(events) + Len(new)
      /\ \A i \in 1..Len(events) + Len(new) : events'[i] = IF i <= Len(events) THEN events[i] ELSE new[i - Len(events)]
  BY ConcatProperties
<1>2. DOMAIN events = 1..Len(events) /\ DOMAIN events' = 1..Len(events') /\ Len(events) \in Nat /\ Len(new) \in Nat
  BY <1>1, LenProperties
<1>3. \A k \in DOMAIN events : k \in DOMAIN events' /\ events'[k] = events[k]
  BY <1>1, <1>2
<1> QED
  BY <1>1, <1>3 DEF Queued

\* The event for a client is only gone when it was the first.
LEMMA QueuedAfterTail ==
  ASSUME events \in Seq(Event), events # <<>>, events' = Tail(events)
  PROVE  /\ events' \in Seq(Event) /\ Head(events) \in Event
         /\ \A c \in Client : Queued(c) =>
               Queued(c)' \/ (Head(events).type = "subscribe" /\ Head(events).client = c)
<1>1. /\ Head(events) \in Event /\ events' \in Seq(Event) /\ Len(events') = Len(events) - 1
      /\ \A i \in 1..Len(events') : events'[i] = events[i + 1]
  BY HeadTailProperties
<1>2. DOMAIN events = 1..Len(events) /\ DOMAIN events' = 1..Len(events') /\ Len(events) \in Nat
  BY <1>1, LenProperties
<1>3. Head(events) = events[1]
  OBVIOUS
<1>4. ASSUME NEW c \in Client, Queued(c), ~(Head(events).type = "subscribe" /\ Head(events).client = c)
      PROVE  Queued(c)'
  <2>1. PICK k \in DOMAIN events : events[k].type = "subscribe" /\ events[k].client = c
    BY <1>4 DEF Queued
  <2>2. k # 1
    BY <1>3, <1>4, <2>1
  <2>3. k - 1 \in DOMAIN events' /\ events'[k - 1] = events[k]
    BY <1>1, <1>2, <2>2
  <2> QED
    BY <2>1, <2>3 DEF Queued
<1> QED
  BY <1>1, <1>4

\* A step that keeps or closes the clients, and the events.
LEMMA ReachedStays ==
  ASSUME AllReached, subscribers' = subscribers,
         \A c \in Client : client'[c].open => client[c].open,
         \A c \in Client : Queued(c) => Queued(c)'
  PROVE  AllReached'
  BY DEF AllReached, Reached

-------------------------------------------------------------------------------
(* Requests. *)

LEMMA ChangeStep ==
  ASSUME IInv, NEW r \in Requests, NEW new \in [Slot -> Sub \cup {None}],
         Cardinality({s \in Slot : new[s] # None}) <= MaxTotal, Change(r, new)
  PROVE  IInv'
<1>1. /\ stored' = new /\ sets' = sets + 1 /\ sets < MaxSets
      /\ request' = [request EXCEPT ![r].pc = "fetch"]
      /\ UNCHANGED <<world, codes, events, manager, tasks, client>>
  BY DEF Change
<1>2. StoreOK'
  <2>1. Cardinality(Stored') <= MaxTotal
    BY <1>1 DEF Stored
  <2>2. sets' \in 0..MaxSets
    BY <1>1, Numbers DEF IInv, StoreOK
  <2>3. request' \in [Requests -> [pc : {"none", "fetch", "send"}, list : SUBSET Entry]]
    BY <1>1 DEF IInv, StoreOK
  <2>4. clock' \in 0..MaxTime /\ stored' \in [Slot -> Sub \cup {None}]
    BY <1>1 DEF IInv, StoreOK, world
  <2> QED
    BY <2>1, <2>2, <2>3, <2>4 DEF StoreOK
<1>3. QueueOK' /\ ClientsOK' /\ TablesOK'
  BY <1>1 DEF IInv, QueueOK, ClientsOK, TablesOK, world, manager
<1>4. AllReached'
  BY <1>1 DEF IInv, AllReached, Reached, Queued, manager
<1> QED
  BY <1>2, <1>3, <1>4 DEF IInv

LEMMA CreateStep ==
  ASSUME IInv, NEW r \in Requests, NEW s \in Slot, Create(r, s)
  PROVE  IInv'
<1> DEFINE sub == [url |-> sets + 1, verified |-> FALSE, expires |-> clock + Life]
           new == [stored EXCEPT ![s] = sub]
<1>1. stored[s] = None /\ Cardinality(Stored) < MaxTotal /\ Change(r, new)
  BY DEF Create, Stored
<1>2. sub \in Sub
  <2>1. sets + 1 \in 1..MaxSets
    BY <1>1, Numbers DEF Change, IInv, StoreOK
  <2>2. clock + Life \in Nat
    BY Numbers DEF IInv, StoreOK
  <2> QED
    BY <2>1, <2>2 DEF Sub
<1>3. new \in [Slot -> Sub \cup {None}]
  BY <1>2 DEF IInv, StoreOK
<1>4. {t \in Slot : new[t] # None} = Stored \cup {s}
  BY <1>2, Distinct DEF IInv, StoreOK, Stored
<1>5. IsFiniteSet(Stored)
  BY Finite, FS_Subset DEF Stored
<1>6. s \notin Stored
  BY <1>1 DEF Stored
<1>7. Cardinality(Stored \cup {s}) = Cardinality(Stored) + 1
  BY <1>5, <1>6, FS_AddElement
<1>8. Cardinality(Stored) \in Nat
  BY <1>5, FS_CardinalityType
<1>9. Cardinality(Stored \cup {s}) <= MaxTotal
  BY <1>1, <1>7, <1>8, Numbers
<1> HIDE DEF new
<1> QED
  BY <1>1, <1>3, <1>4, <1>9, ChangeStep

\* Changes that add no subscription.
LEMMA ReplaceStep ==
  ASSUME IInv, NEW r \in Requests, NEW new \in [Slot -> Sub \cup {None}],
         {s \in Slot : new[s] # None} \subseteq Stored, Change(r, new)
  PROVE  IInv'
<1> DEFINE N == {s \in Slot : new[s] # None}
<1>1. IsFiniteSet(Stored)
  BY Finite, FS_Subset DEF Stored
<1>2. Cardinality(N) <= Cardinality(Stored) /\ Cardinality(N) \in Nat /\ Cardinality(Stored) \in Nat
  BY <1>1, FS_Subset, FS_CardinalityType
<1>3. Cardinality(Stored) <= MaxTotal
  BY DEF IInv, StoreOK
<1>4. Cardinality(N) <= MaxTotal
  BY <1>2, <1>3, Numbers
<1> QED
  BY <1>4, ChangeStep

LEMMA OtherSetSteps ==
  ASSUME IInv, NEW r \in Requests, NEW s \in Slot, Verify(r, s) \/ Renew(r, s) \/ Destroy(r, s)
  PROVE  IInv'
<1>1. stored \in [Slot -> Sub \cup {None}] /\ stored[s] \in Sub /\ clock + Life \in Nat
  BY Numbers DEF IInv, StoreOK, Verify, Renew, Destroy
<1>2. ASSUME NEW new, NEW sub \in Sub \cup {None}, new = [stored EXCEPT ![s] = sub], Change(r, new) PROVE IInv'
  <2>1. new \in [Slot -> Sub \cup {None}]
    BY <1>1, <1>2
  <2>2. {t \in Slot : new[t] # None} \subseteq Stored
    BY <1>1, <1>2, Distinct DEF Stored
  <2> QED
    BY <1>2, <2>1, <2>2, ReplaceStep
<1>3. CASE Verify(r, s)
  <2>1. [stored[s] EXCEPT !.verified = TRUE] \in Sub
    BY <1>1 DEF Sub
  <2>2. [stored EXCEPT ![s].verified = TRUE] = [stored EXCEPT ![s] = [stored[s] EXCEPT !.verified = TRUE]]
    BY <1>1
  <2> QED
    BY <1>2, <1>3, <2>1, <2>2 DEF Verify
<1>4. CASE Renew(r, s)
  <2>1. [stored[s] EXCEPT !.expires = clock + Life] \in Sub
    BY <1>1 DEF Sub
  <2>2. [stored EXCEPT ![s].expires = clock + Life] = [stored EXCEPT ![s] = [stored[s] EXCEPT !.expires = clock + Life]]
    BY <1>1
  <2> QED
    BY <1>2, <1>4, <2>1, <2>2 DEF Renew
<1>5. CASE Destroy(r, s)
  BY <1>2, <1>5 DEF Destroy
<1> QED
  BY <1>3, <1>4, <1>5

LEMMA FetchStep ==
  ASSUME IInv, NEW r \in Requests, Fetch(r)
  PROVE  IInv'
<1> DEFINE found == {[slot |-> s, sub |-> stored[s]] : s \in Unexpired}
<1>1. /\ request' = [request EXCEPT ![r] = [pc |-> "send", list |-> found]]
      /\ UNCHANGED <<world, stored, codes, sets, events, manager, tasks, client>>
  BY DEF Fetch
<1>2. found \subseteq Entry
  BY DEF Unexpired, Entry, IInv, StoreOK
<1>3. [pc |-> "send", list |-> found] \in [pc : {"none", "fetch", "send"}, list : SUBSET Entry]
  BY <1>2
<1> HIDE DEF found
<1>4. StoreOK'
  BY <1>1, <1>3 DEF IInv, StoreOK, Stored, world
<1>5. QueueOK' /\ ClientsOK' /\ TablesOK'
  BY <1>1 DEF IInv, QueueOK, ClientsOK, TablesOK, world, manager
<1>6. AllReached'
  BY <1>1 DEF IInv, AllReached, Reached, Queued, manager
<1> QED
  BY <1>4, <1>5, <1>6 DEF IInv

LEMMA FetchFailsStep ==
  ASSUME IInv, NEW r \in Requests, FetchFails(r)
  PROVE  IInv'
<1>1. /\ request' = [request EXCEPT ![r] = NoRequest]
      /\ UNCHANGED <<clock, latest, access, commits, stored, codes, sets, events, manager, tasks, client>>
  BY DEF FetchFails, Error
<1>2. StoreOK'
  BY <1>1, NoRequestType DEF IInv, StoreOK, Stored
<1>3. QueueOK' /\ ClientsOK' /\ TablesOK'
  BY <1>1 DEF IInv, QueueOK, ClientsOK, TablesOK, manager
<1>4. AllReached'
  BY <1>1 DEF IInv, AllReached, Reached, Queued, manager
<1> QED
  BY <1>2, <1>3, <1>4 DEF IInv

LEMMA SendUpdateStep ==
  ASSUME IInv, NEW r \in Requests, SendUpdate(r)
  PROVE  IInv'
<1> DEFINE new == <<[type |-> "shared"], [type |-> "subscriptions", list |-> request[r].list]>>
<1>1. /\ request' = [request EXCEPT ![r] = NoRequest] /\ events' = events \o new
      /\ UNCHANGED <<world, stored, codes, sets, manager, tasks, client>>
  BY DEF SendUpdate
<1>2. request[r].list \in SUBSET Entry
  BY DEF IInv, StoreOK
<1>3. new \in Seq(Event)
  <2>1. [type |-> "shared"] \in Event
    BY DEF Event
  <2>2. [type |-> "subscriptions", list |-> request[r].list] \in Event
    BY <1>2 DEF Event
  <2> QED
    BY <2>1, <2>2
<1> HIDE DEF new
<1>4. events' \in Seq(Event) /\ \A c \in Client : Queued(c) => Queued(c)'
  BY <1>1, <1>3, QueuedAfterAppend DEF IInv, QueueOK
<1>5. StoreOK'
  BY <1>1, NoRequestType DEF IInv, StoreOK, Stored, world
<1>6. QueueOK' /\ ClientsOK' /\ TablesOK'
  BY <1>1, <1>4 DEF IInv, QueueOK, ClientsOK, TablesOK, world, manager
<1>7. AllReached'
  BY <1>1, <1>4, ReachedStays DEF IInv, manager
<1> QED
  BY <1>5, <1>6, <1>7 DEF IInv

-------------------------------------------------------------------------------
(* The state manager. *)

LEMMA TasksAreNotices ==
  ASSUME IInv, NEW k \in Key, NEW state \in Nat
  PROVE  Tasks(k, state) \in Seq(Notice)
<1> DEFINE C == {d \in Told(k) \cap Client : client[d].open}
           S == {[to |-> c, key |-> k, state |-> state] : c \in C}
<1>1. IsFiniteSet(C)
  <2>1. C \subseteq Client
    OBVIOUS
  <2> QED
    BY <2>1, Finite, FS_Subset
<1>2. IsFiniteSet(S)
  <2> DEFINE f == [c \in C |-> [to |-> c, key |-> k, state |-> state]]
  <2> HIDE DEF C
  <2>1. f \in Surjection(C, S)
    BY DEF Surjection
  <2> HIDE DEF f, S
  <2> QED
    BY <1>1, <2>1, FS_Surjection
<1>3. SetToSeq(S) \in Seq(S)
  BY <1>2, SetToSeqIsSeq
<1>4. S \subseteq Notice
  BY DEF Notice
<1>5. SetToSeq(S) \in Seq(Notice)
  <2> HIDE DEF S
  <2> QED
    BY <1>3, <1>4, SeqMonotonic
<1> QED
  BY <1>5 DEF Tasks

\* A verified list says something of slots only, so a client stays as it is.
LEMMA AfterEvent ==
  ASSUME IInv, NEW e \in Event
  PROVE  /\ SubscribersAfter(e) \in [Client \cup Slot -> {None, [url |-> -1]} \cup Sub]
         /\ \A c \in Client : subscribers[c] # None => SubscribersAfter(e)[c] # None
         /\ \A c \in Client : e.type = "subscribe" /\ e.client = c => SubscribersAfter(e)[c] # None
<1> DEFINE All == {None, [url |-> -1]} \cup Sub
<1>1. subscribers \in [Client \cup Slot -> All]
  BY DEF IInv, TablesOK
<1>2. CASE e.type = "subscribe"
  <2>1. e.client \in Client
    BY <1>2 DEF Event
  <2>2. SubscribersAfter(e) = [subscribers EXCEPT ![e.client] = [url |-> -1]]
    BY <1>2 DEF SubscribersAfter
  <2> QED
    BY <1>1, <2>1, <2>2, Distinct
<1>3. CASE e.type = "subscriptions"
  <2>1. e.list \subseteq Entry
    BY <1>3 DEF Event
  <2>2. SubscribersAfter(e) =
           [x \in Client \cup Slot |->
             IF \E v \in Verified(e.list) : v.slot = x THEN (CHOOSE v \in Verified(e.list) : v.slot = x).sub
             ELSE IF x \in Ended(e.list) THEN None ELSE subscribers[x]]
    BY <1>1, <1>3 DEF SubscribersAfter
  <2>3. \A v \in Verified(e.list) : v.slot \in Slot /\ v.sub \in Sub
    BY <2>1 DEF Verified, Entry
  <2>4. \A x \in Client \cup Slot : SubscribersAfter(e)[x] \in All
    <3> SUFFICES ASSUME NEW x \in Client \cup Slot PROVE SubscribersAfter(e)[x] \in All
      OBVIOUS
    <3>1. CASE \E v \in Verified(e.list) : v.slot = x
      <4>1. (CHOOSE v \in Verified(e.list) : v.slot = x) \in Verified(e.list)
        BY <3>1
      <4>2. SubscribersAfter(e)[x] = (CHOOSE v \in Verified(e.list) : v.slot = x).sub
        BY <2>2, <3>1
      <4> QED
        BY <2>3, <4>1, <4>2
    <3>2. CASE ~\E v \in Verified(e.list) : v.slot = x
      BY <1>1, <2>2, <3>2
    <3> QED
      BY <3>1, <3>2
  <2>5. SubscribersAfter(e) \in [Client \cup Slot -> All]
    BY <2>2, <2>4
  <2>6. \A c \in Client : SubscribersAfter(e)[c] = subscribers[c]
    BY <2>2, <2>3, Finite DEF Ended
  <2> QED
    BY <1>3, <2>5, <2>6
<1>4. CASE e.type \notin {"subscribe", "subscriptions"}
  BY <1>1, <1>4 DEF SubscribersAfter
<1> QED
  BY <1>2, <1>3, <1>4

\* The purge leaves clients that are connected.
LEMMA AfterPurge ==
  ASSUME NEW subs \in [Client \cup Slot -> {None, [url |-> -1]} \cup Sub]
  PROVE  /\ Purged(subs) \in [Client \cup Slot -> {None, [url |-> -1]} \cup Sub]
         /\ \A c \in Client : client[c].open => Purged(subs)[c] = subs[c]
  BY DEF Purged, Invalid, IsValid

LEMMA RegisteredType ==
  ASSUME IInv, NEW list \in SUBSET Entry, NEW s \in Slot
  PROVE  Registered(s, list) \in 0..MaxSets
<1> DEFINE kept == IF s \in Ended(list) THEN 0 ELSE registered[s]
           new == {e.sub.url : e \in {f \in Verified(list) : f.slot = s}}
<1>1. kept \in 0..MaxSets
  BY Numbers DEF IInv, TablesOK
<1>2. new \subseteq 1..MaxSets
  BY DEF Verified, Entry, Sub
<1>3. new # {} => (CHOOSE url \in new : TRUE) \in new
  OBVIOUS
<1>4. Registered(s, list) = IF kept # 0 \/ new = {} THEN kept ELSE CHOOSE url \in new : TRUE
  BY DEF Registered
<1> HIDE DEF kept, new
<1>5. CASE kept # 0 \/ new = {}
  BY <1>1, <1>4, <1>5
<1>6. CASE ~(kept # 0 \/ new = {})
  <2>1. Registered(s, list) \in 1..MaxSets
    BY <1>2, <1>3, <1>4, <1>6
  <2> QED
    BY <2>1, Numbers
<1> QED
  BY <1>5, <1>6

LEMMA ReceiveStep ==
  ASSUME IInv, Receive
  PROVE  IInv'
<1> DEFINE e == Head(events)
           All == {None, [url |-> -1]} \cup Sub
<1>1. /\ events # <<>> /\ events' = Tail(events)
      /\ subscribers' = Purged(SubscribersAfter(e)) \/ subscribers' = SubscribersAfter(e)
      /\ shared' = IF e.type = "shared" THEN access ELSE shared
      /\ tasks' = IF e.type = "publish" THEN tasks \o Tasks(e.key, e.state) ELSE tasks
      /\ UNCHANGED <<world, stored, sets, request, client>>
  BY DEF Receive
<1>2. (e.type = "subscriptions" /\ registered' = [s \in Slot |-> Registered(s, e.list)]) \/ registered' = registered
  BY DEF Receive
<1>3. /\ events' \in Seq(Event) /\ e \in Event
      /\ \A c \in Client : Queued(c) => Queued(c)' \/ (e.type = "subscribe" /\ e.client = c)
  BY <1>1, QueuedAfterTail DEF IInv, QueueOK
<1> HIDE DEF e
<1>4. /\ SubscribersAfter(e) \in [Client \cup Slot -> All]
      /\ \A c \in Client : subscribers[c] # None => SubscribersAfter(e)[c] # None
      /\ \A c \in Client : e.type = "subscribe" /\ e.client = c => SubscribersAfter(e)[c] # None
  BY <1>3, AfterEvent
<1>5. /\ subscribers' \in [Client \cup Slot -> All]
      /\ \A c \in Client : client[c].open => subscribers'[c] = SubscribersAfter(e)[c]
  BY <1>1, <1>4, AfterPurge
<1>6. StoreOK'
  BY <1>1 DEF IInv, StoreOK, Stored, world
<1>7. QueueOK'
  BY <1>1, <1>3 DEF IInv, QueueOK, world
<1>8. ClientsOK'
  <2>1. tasks' \in Seq(Notice)
    <3>1. CASE e.type = "publish"
      <4>1. e.key \in Key /\ e.state \in Nat
        BY <1>3, <3>1 DEF Event
      <4>2. Tasks(e.key, e.state) \in Seq(Notice) /\ tasks \in Seq(Notice)
        BY <4>1, TasksAreNotices DEF IInv, ClientsOK
      <4>3. tasks' = tasks \o Tasks(e.key, e.state)
        BY <1>1, <3>1
      <4> QED
        BY <4>2, <4>3, ConcatProperties
    <3>2. CASE e.type # "publish"
      BY <1>1, <3>2 DEF IInv, ClientsOK
    <3> QED
      BY <3>1, <3>2
  <2> QED
    BY <1>1, <2>1 DEF IInv, ClientsOK
<1>9. TablesOK'
  <2>1. registered' \in [Slot -> 0..MaxSets]
    <3>1. CASE registered' = [s \in Slot |-> Registered(s, e.list)] /\ e.type = "subscriptions"
      <4>1. e.list \in SUBSET Entry
        BY <1>3, <3>1 DEF Event
      <4> QED
        BY <3>1, <4>1, RegisteredType
    <3>2. CASE registered' = registered
      BY <3>2 DEF IInv, TablesOK
    <3> QED
      BY <1>2, <3>1, <3>2
  <2>2. shared' \subseteq access'
    BY <1>1 DEF IInv, TablesOK, world
  <2> QED
    BY <1>5, <2>1, <2>2 DEF TablesOK
<1>10. AllReached'
  BY <1>1, <1>3, <1>4, <1>5 DEF IInv, AllReached, Reached
<1> QED
  BY <1>6, <1>7, <1>8, <1>9, <1>10 DEF IInv

\* The event that is lost is no client's subscription.
LEMMA TokenFailsStep ==
  ASSUME IInv, TokenFails
  PROVE  IInv'
<1>1. /\ events # <<>> /\ Head(events).type = "shared" /\ events' = Tail(events)
      /\ UNCHANGED <<clock, latest, access, commits, store, manager, tasks, client>>
  BY DEF TokenFails, Error
<1>2. events' \in Seq(Event) /\ \A c \in Client : Queued(c) => Queued(c)'
  BY <1>1, QueuedAfterTail DEF IInv, QueueOK
<1>3. StoreOK' /\ QueueOK' /\ ClientsOK' /\ TablesOK'
  BY <1>1, <1>2 DEF IInv, StoreOK, Stored, QueueOK, ClientsOK, TablesOK, store, manager
<1>4. AllReached'
  BY <1>1, <1>2, ReachedStays DEF IInv, manager
<1> QED
  BY <1>3, <1>4 DEF IInv

-------------------------------------------------------------------------------
(* Clients. *)

\* A client that changes, and stays connected or leaves.
LEMMA ClientStep ==
  ASSUME IInv, NEW c \in Client, NEW new \in ClientState, client' = [client EXCEPT ![c] = new],
         Len(new.channel) <= Capacity, new.open => client[c].open, tasks' \in Seq(Notice),
         UNCHANGED <<world, store, events, manager>>
  PROVE  IInv'
<1>1. client' \in [Client -> ClientState] /\ \A d \in Client : client'[d] = IF d = c THEN new ELSE client[d]
  BY DEF IInv, ClientsOK
<1>2. ClientsOK'
  BY <1>1 DEF IInv, ClientsOK
<1>3. StoreOK' /\ QueueOK' /\ TablesOK'
  BY DEF IInv, StoreOK, Stored, QueueOK, TablesOK, world, store, manager
<1>4. \A d \in Client : Queued(d) => Queued(d)'
  BY DEF Queued
<1>5. AllReached'
  BY <1>1, <1>4, ReachedStays DEF IInv, manager
<1> QED
  BY <1>2, <1>3, <1>5 DEF IInv

LEMMA TaskSteps ==
  ASSUME IInv, NEW t \in DOMAIN tasks, SendTask(t) \/ DropTask(t)
  PROVE  IInv'
<1> DEFINE c == tasks[t].to
<1>1. tasks \in Seq(Notice) /\ t \in 1..Len(tasks)
  BY LenProperties DEF IInv, ClientsOK
<1>2. tasks[t] \in Notice /\ c \in Client
  <2>1. tasks[t] \in Notice
    BY <1>1, ElementOfSeq
  <2> QED
    BY <2>1 DEF Notice
<1>3. RemoveAt(tasks, t) \in Seq(Notice)
  BY <1>1, RemoveAtIsSeq
<1>4. client[c] \in ClientState /\ client \in [Client -> ClientState] /\ client[c].channel \in Seq(Notice)
  BY <1>2 DEF IInv, ClientsOK, ClientState
<1>5. CASE SendTask(t)
  <2> DEFINE ch == Append(client[c].channel, tasks[t])
             new == [client[c] EXCEPT !.channel = ch]
  <2>1. ch \in Seq(Notice) /\ Len(ch) = Len(client[c].channel) + 1
    BY <1>2, <1>4, AppendProperties
  <2>2. Len(client[c].channel) < Capacity /\ Len(client[c].channel) \in Nat
    BY <1>4, <1>5, LenProperties DEF SendTask
  <2>3. client' = [client EXCEPT ![c] = new]
    BY <1>4, <1>5 DEF SendTask
  <2>4. tasks' = RemoveAt(tasks, t) /\ UNCHANGED <<world, store, events, manager>>
    BY <1>5 DEF SendTask
  <2>5. Len(ch) <= Capacity
    BY <2>1, <2>2, Numbers
  <2> HIDE DEF ch
  <2>6. new \in ClientState /\ new.channel = ch /\ new.open = client[c].open
    BY <1>4, <2>1 DEF ClientState
  <2> HIDE DEF new, c
  <2> QED
    BY <1>2, <1>3, <2>3, <2>4, <2>5, <2>6, ClientStep
<1>6. CASE DropTask(t)
  <2>1. tasks' = RemoveAt(tasks, t) /\ UNCHANGED <<world, store, events, manager, client>>
    BY <1>6 DEF DropTask
  <2>2. client' = [client EXCEPT ![c] = client[c]] /\ Len(client[c].channel) <= Capacity
    BY <1>2, <1>4, <2>1 DEF IInv, ClientsOK
  <2> HIDE DEF c
  <2> QED
    BY <1>2, <1>3, <1>4, <2>1, <2>2, ClientStep
<1> QED
  BY <1>5, <1>6

\* The subscription of a client that connects waits for the state manager.
LEMMA ConnectStep ==
  ASSUME IInv, NEW c \in Client, Connect(c)
  PROVE  IInv'
<1> DEFINE new == <<[type |-> "shared"], [type |-> "subscribe", client |-> c]>>
           there == [Away EXCEPT !.open = TRUE, !.told = latest]
<1>1. /\ client' = [client EXCEPT ![c] = there] /\ events' = events \o new
      /\ UNCHANGED <<world, store, manager, tasks>>
  BY DEF Connect, IInv, ClientsOK
<1>2. there \in ClientState /\ there.channel = <<>>
  BY AwayType DEF IInv, QueueOK, ClientState
<1>3. new \in Seq(Event) /\ Len(new) = 2 /\ new[2] = [type |-> "subscribe", client |-> c]
  <2>1. [type |-> "shared"] \in Event
    BY DEF Event
  <2>2. [type |-> "subscribe", client |-> c] \in Event
    BY DEF Event
  <2> QED
    BY <2>1, <2>2
<1> HIDE DEF there, new
<1>4. events' \in Seq(Event) /\ \A d \in Client : Queued(d) => Queued(d)'
  BY <1>1, <1>3, QueuedAfterAppend DEF IInv, QueueOK
<1>5. Queued(c)'
  <2>1. /\ Len(events') = Len(events) + Len(new) /\ Len(events) \in Nat /\ DOMAIN events' = 1..Len(events')
        /\ \A i \in 1..Len(events) + Len(new) : events'[i] = IF i <= Len(events) THEN events[i] ELSE new[i - Len(events)]
    BY <1>1, <1>3, <1>4, ConcatProperties, LenProperties DEF IInv, QueueOK
  <2>2. Len(events) + 2 \in DOMAIN events' /\ events'[Len(events) + 2] = new[2]
    BY <1>3, <2>1
  <2>3. new[2].type = "subscribe" /\ new[2].client = c
    BY <1>3
  <2> QED
    BY <2>2, <2>3 DEF Queued
<1>6. client' \in [Client -> ClientState] /\ \A d \in Client : client'[d] = IF d = c THEN there ELSE client[d]
  BY <1>1, <1>2 DEF IInv, ClientsOK
<1>7. ClientsOK'
  BY <1>1, <1>2, <1>6, AwayType, Numbers DEF IInv, ClientsOK
<1>8. StoreOK' /\ TablesOK'
  BY <1>1 DEF IInv, StoreOK, Stored, TablesOK, world, store, manager
<1>9. QueueOK'
  BY <1>1, <1>4 DEF IInv, QueueOK, world
<1>10. AllReached'
  BY <1>1, <1>4, <1>5, <1>6 DEF IInv, AllReached, Reached, manager
<1> QED
  BY <1>7, <1>8, <1>9, <1>10 DEF IInv

LEMMA CloseStep ==
  ASSUME IInv, NEW c \in Client, Close(c)
  PROVE  IInv'
<1> DEFINE new == [client[c] EXCEPT !.open = FALSE, !.gone = TRUE, !.channel = <<>>]
<1>1. client[c] \in ClientState /\ client \in [Client -> ClientState]
  BY DEF IInv, ClientsOK
<1>2. client' = [client EXCEPT ![c] = new] /\ UNCHANGED <<world, store, events, manager, tasks>>
  BY <1>1 DEF Close
<1>3. <<>> \in Seq(Notice) /\ Len(<<>>) = 0
  BY EmptySeq
<1>4. new \in ClientState /\ new.channel = <<>> /\ new.open = FALSE
  BY <1>1, <1>3 DEF ClientState
<1> HIDE DEF new
<1>5. Len(new.channel) <= Capacity /\ tasks' \in Seq(Notice)
  BY <1>2, <1>3, <1>4, Numbers DEF IInv, ClientsOK
<1> QED
  BY <1>2, <1>4, <1>5, ClientStep

LEMMA SocketSteps ==
  ASSUME IInv, NEW c \in Client, Enable(c) \/ Disable(c) \/ Flush(c)
  PROVE  IInv'
<1>1. client[c] \in ClientState /\ client \in [Client -> ClientState] /\ Len(client[c].channel) <= Capacity
  BY DEF IInv, ClientsOK
<1>2. latest \in [Key -> Nat] /\ Tell(c) \in [Key -> Nat]
  BY <1>1 DEF IInv, QueueOK, Tell, ClientState
<1>3. UNCHANGED <<world, store, events, manager, tasks>> /\ tasks' \in Seq(Notice)
  BY DEF Enable, Disable, Flush, IInv, ClientsOK
<1>4. ASSUME NEW new \in ClientState, client' = [client EXCEPT ![c] = new], new.channel = client[c].channel,
             new.open = client[c].open
      PROVE  IInv'
  BY <1>1, <1>3, <1>4, ClientStep
<1>5. CASE Enable(c)
  <2> DEFINE new == [client[c] EXCEPT !.enabled = TRUE, !.told = latest]
  <2>1. client' = [client EXCEPT ![c] = new]
    BY <1>1, <1>5 DEF Enable
  <2>2. new \in ClientState /\ new.channel = client[c].channel /\ new.open = client[c].open
    BY <1>1, <1>2 DEF ClientState
  <2> HIDE DEF new
  <2> QED
    BY <1>4, <2>1, <2>2
<1>6. CASE Disable(c)
  <2> DEFINE new == [client[c] EXCEPT !.enabled = FALSE]
  <2>1. client' = [client EXCEPT ![c] = new]
    BY <1>1, <1>6 DEF Disable
  <2>2. new \in ClientState /\ new.channel = client[c].channel /\ new.open = client[c].open
    BY <1>1 DEF ClientState
  <2> HIDE DEF new
  <2> QED
    BY <1>4, <2>1, <2>2
<1>7. CASE Flush(c)
  <2> DEFINE new == [client[c] EXCEPT !.changed = Nothing, !.told = Tell(c)]
  <2>1. client' = [client EXCEPT ![c] = new]
    BY <1>1, <1>7 DEF Flush
  <2>2. new \in ClientState /\ new.channel = client[c].channel /\ new.open = client[c].open
    BY <1>1, <1>2, NothingType DEF ClientState
  <2> HIDE DEF new
  <2> QED
    BY <1>4, <2>1, <2>2
<1> QED
  BY <1>5, <1>6, <1>7

LEMMA CollectStep ==
  ASSUME IInv, NEW c \in Client, Collect(c)
  PROVE  IInv'
<1> DEFINE change == Head(client[c].channel)
           ch == Tail(client[c].channel)
           got == IF Wants(c) THEN [client[c].changed EXCEPT ![change.key] = change.state] ELSE client[c].changed
           new == [client[c] EXCEPT !.channel = ch, !.changed = got]
<1>1. client[c] \in ClientState /\ client \in [Client -> ClientState] /\ Len(client[c].channel) <= Capacity
  BY DEF IInv, ClientsOK
<1>2. client[c].channel \in Seq(Notice) /\ client[c].channel # <<>> /\ client[c].changed \in [Key -> Nat]
  BY <1>1 DEF Collect, ClientState
<1>3. change \in Notice /\ ch \in Seq(Notice) /\ Len(ch) = Len(client[c].channel) - 1 /\ Len(client[c].channel) \in Nat
  BY <1>2, HeadTailProperties, LenProperties
<1>4. got \in [Key -> Nat]
  BY <1>2, <1>3 DEF Notice
<1>5. client' = [client EXCEPT ![c] = new]
  BY <1>1 DEF Collect
<1>6. UNCHANGED <<world, store, events, manager, tasks>> /\ tasks' \in Seq(Notice)
  BY DEF Collect, IInv, ClientsOK
<1> HIDE DEF ch, got
<1>7. new \in ClientState /\ new.channel = ch /\ new.open = client[c].open
  BY <1>1, <1>3, <1>4 DEF ClientState
<1>8. Len(ch) <= Capacity
  BY <1>1, <1>3, Numbers
<1> HIDE DEF new
<1> QED
  BY <1>5, <1>6, <1>7, <1>8, ClientStep

-------------------------------------------------------------------------------
(* The rest. *)

LEMMA CommitStep ==
  ASSUME IInv, NEW k \in Key, Commit(k)
  PROVE  IInv'
<1>1. /\ latest' = [latest EXCEPT ![k] = @ + 1] /\ commits' = commits \cup {[key |-> k, state |-> latest'[k]]}
      /\ UNCHANGED <<clock, access, store, events, manager, tasks, client>>
  BY DEF Commit
<1>2. latest' \in [Key -> Nat] /\ latest'[k] \in Nat
  BY <1>1 DEF IInv, QueueOK
<1>3. QueueOK'
  BY <1>1, <1>2 DEF IInv, QueueOK
<1>4. StoreOK' /\ ClientsOK' /\ TablesOK'
  BY <1>1 DEF IInv, StoreOK, Stored, ClientsOK, TablesOK, store, manager
<1>5. AllReached'
  BY <1>1 DEF IInv, AllReached, Reached, Queued, manager
<1> QED
  BY <1>3, <1>4, <1>5 DEF IInv

LEMMA BroadcastStep ==
  ASSUME IInv, NEW change \in commits, Broadcast(change)
  PROVE  IInv'
<1> DEFINE e == [type |-> "publish", key |-> change.key, state |-> change.state]
<1>1. /\ commits' = commits \ {change} /\ events' = Append(events, e)
      /\ UNCHANGED <<clock, latest, access, store, manager, tasks, client>>
  BY DEF Broadcast
<1>2. e \in Event
  BY DEF Event, IInv, QueueOK
<1> HIDE DEF e
<1>4. events' = events \o <<e>> /\ <<e>> \in Seq(Event)
  BY <1>1, <1>2, AppendIsConcat DEF IInv, QueueOK
<1>5. events' \in Seq(Event) /\ \A d \in Client : Queued(d) => Queued(d)'
  BY <1>4, QueuedAfterAppend DEF IInv, QueueOK
<1>6. StoreOK' /\ ClientsOK' /\ TablesOK'
  BY <1>1 DEF IInv, StoreOK, Stored, ClientsOK, TablesOK, store, manager
<1>7. QueueOK'
  BY <1>1, <1>5 DEF IInv, QueueOK
<1>8. AllReached'
  BY <1>1, <1>5, ReachedStays DEF IInv, manager
<1> QED
  BY <1>6, <1>7, <1>8 DEF IInv

LEMMA GrantStep ==
  ASSUME IInv, NEW k \in Key, Grant(k)
  PROVE  IInv'
<1>1. access' = access \cup {k} /\ UNCHANGED <<clock, latest, commits, store, events, manager, tasks, client>>
  BY DEF Grant
<1>2. StoreOK' /\ QueueOK' /\ ClientsOK'
  BY <1>1 DEF IInv, StoreOK, Stored, QueueOK, ClientsOK, store
<1>3. TablesOK'
  BY <1>1 DEF IInv, TablesOK, manager
<1>4. AllReached'
  BY <1>1 DEF IInv, AllReached, Reached, Queued, manager
<1> QED
  BY <1>2, <1>3, <1>4 DEF IInv

LEMMA TickStep ==
  ASSUME IInv, Tick
  PROVE  IInv'
<1>1. clock < MaxTime /\ clock' = clock + 1 /\ UNCHANGED <<latest, access, commits, store, events, manager, tasks, client>>
  BY DEF Tick
<1>2. clock' \in 0..MaxTime
  BY <1>1, Numbers DEF IInv, StoreOK
<1>3. StoreOK' /\ QueueOK' /\ ClientsOK' /\ TablesOK'
  BY <1>1, <1>2 DEF IInv, StoreOK, Stored, QueueOK, ClientsOK, TablesOK, store, manager
<1>4. AllReached'
  BY <1>1 DEF IInv, AllReached, Reached, Queued, manager
<1> QED
  BY <1>3, <1>4 DEF IInv

LEMMA NobodyThere ==
  ASSUME client = [c \in Client |-> Away], tasks = <<>>
  PROVE  ClientsOK /\ AllReached
<1>1. tasks \in Seq(Notice)
  BY EmptySeq
<1> QED
  BY <1>1, AwayType, Numbers DEF ClientsOK, AllReached, Reached

LEMMA RestartStep ==
  ASSUME IInv, Restart
  PROVE  IInv'
<1>1. /\ commits' = {} /\ request' = [r \in Requests |-> NoRequest] /\ events' = <<>> /\ tasks' = <<>>
      /\ subscribers' = [x \in Client \cup Slot |-> None] /\ shared' = {} /\ registered' = [s \in Slot |-> 0]
      /\ client' = [c \in Client |-> Away]
      /\ UNCHANGED <<clock, latest, access, stored, codes, sets>>
  BY DEF Restart
<1>2. StoreOK'
  BY <1>1, NoRequestType DEF IInv, StoreOK, Stored
<1>3. QueueOK'
  BY <1>1, EmptySeq DEF IInv, QueueOK
<1>4. TablesOK'
  BY <1>1, Numbers DEF TablesOK
<1>5. tasks' \in Seq(Notice)
  BY <1>1, EmptySeq
<1>6. ClientsOK' /\ AllReached'
  BY <1>1, <1>5, AwayType, Numbers DEF ClientsOK, AllReached, Reached
<1> QED
  BY <1>2, <1>3, <1>4, <1>6 DEF IInv

LEMMA Stutter ==
  ASSUME IInv, UNCHANGED vars
  PROVE  IInv'
  BY DEF IInv, StoreOK, Stored, QueueOK, ClientsOK, TablesOK, AllReached, Reached, Queued, vars, world, store, manager

LEMMA Steps == IInv /\ [Next]_vars => IInv'
  BY CreateStep, OtherSetSteps, FetchStep, FetchFailsStep, SendUpdateStep, ReceiveStep, TokenFailsStep, TaskSteps,
     ConnectStep, CloseStep, SocketSteps, CollectStep, CommitStep, BroadcastStep, GrantStep, TickStep, RestartStep, Stutter
     DEF Next, RequestStep, TaskStep, Published

LEMMA Start == Init => IInv
<1> SUFFICES ASSUME Init PROVE IInv
  OBVIOUS
<1>1. StoreOK
  <2>1. Stored = {}
    BY DEF Init, Stored
  <2>2. Cardinality(Stored) = 0
    BY <2>1, FS_EmptySet
  <2> QED
    BY <2>2, NoRequestType, Numbers DEF Init, StoreOK
<1>2. QueueOK
  BY EmptySeq, NothingType DEF Init, QueueOK
<1>3. TablesOK
  BY Numbers DEF Init, TablesOK
<1>4. ClientsOK /\ AllReached
  BY NobodyThere DEF Init
<1> QED
  BY <1>1, <1>2, <1>3, <1>4 DEF IInv

-------------------------------------------------------------------------------
(* The theorems. *)

\* A client that is connected to an event source or a WebSocket is subscribed, or its
\* subscription waits for the state manager, whoever else leaves, expires or is purged in
\* between and whatever lists of push subscriptions arrive (the purge at the end of the loop
\* of spawn_state_manager, UpdateSubscriptions).
THEOREM NobodyIsForgotten == Spec => []StaysSubscribed
<1>1. IInv => StaysSubscribed
  BY DEF IInv, ClientsOK, AllReached, Reached, Queued, StaysSubscribed
<1> QED
  BY <1>1, Start, Steps, PTL DEF Spec

\* The store never holds more than push_max_total subscriptions, a channel to a client no
\* more changes than its capacity, and the state manager shows an account no key it may not
\* see (push_subscription_set, SendTask's mpsc channel, UpdateSharedAccounts).
THEOREM LimitsKept == Spec => []TypeOK
<1>1. IInv => TypeOK
  BY DEF IInv, StoreOK, Stored, ClientsOK, TablesOK, TypeOK
<1> QED
  BY <1>1, Start, Steps, PTL DEF Spec
================================================================================
