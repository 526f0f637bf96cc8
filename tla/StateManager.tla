------------------------------ MODULE StateManager ------------------------------
(***************************************************************************)
(* The state manager of a node, for one account: who is told of changes.   *)
(* Clients listen on an event source or a WebSocket; push subscriptions    *)
(* are stored and registered with the push manager (module PushManager).   *)
(*                                                                         *)
(*   crates/jmap/src/services/state.rs                                     *)
(*   crates/jmap/src/push/{get,set}.rs                                     *)
(*   crates/jmap/src/api/event_source.rs, websocket/stream.rs              *)
(*                                                                         *)
(* What changes is a key, an account and a type of data.  Some keys belong *)
(* to the account, others are shared with it.                              *)
(***************************************************************************)
EXTENDS Integers, FiniteSets, Sequences, SequencesExt

CONSTANTS
    Key, OwnKeys,    \* what changes, and what of it belongs to the account
    Sources, Sockets, \* clients on an event source, and on a WebSocket
    Slot,            \* document ids of push subscriptions
    Requests,        \* PushSubscription/set requests at a time
    MaxPublished, MaxSets, MaxTime, MaxRestarts, MaxGrants,
    MaxErrors,       \* bound: reads of the store that fail
    MaxTotal,        \* push_max_total
    Life,            \* EXPIRES_MAX
    VerifyTimeout,   \* push_verify_timeout
    Capacity,        \* of the channel to a client
    Disables,        \* are notifications ever disabled?
    Orderly          \* do tasks send in the order in which they were spawned?

ASSUME StateAssumption ==
    /\ OwnKeys \subseteq Key /\ Sources \cap Sockets = {} /\ (Sources \cup Sockets) \cap Slot = {}
    /\ IsFiniteSet(Sources \cup Sockets) /\ IsFiniteSet(Slot) /\ Slot \subseteq Nat /\ {Disables, Orderly} \subseteq BOOLEAN
    /\ {MaxPublished, MaxSets, MaxTime, MaxRestarts, MaxGrants, MaxErrors, MaxTotal, VerifyTimeout} \subseteq Nat
    /\ {Life, Capacity} \subseteq Nat \ {0}

Client == Sources \cup Sockets

VARIABLES
    clock, restarts, errors,
    latest, access,  \* the last state of each key; the keys the account may see
    commits,         \* changes that are stored, by requests that have not published them yet
    stored, codes,   \* push subscriptions in the store; URLs that got their verification code
    sets, request,   \* requests made; requests under way
    events,          \* for the state manager
    subscribers, shared, \* clients and slots that are subscribed; keys of shared_accounts_map
    registered, lastVerify, \* of the push manager: the URL of each slot; when it last sent a code
    tasks, client    \* tasks that send to a client; the clients

world == <<clock, restarts, errors, latest, access, commits>>
store == <<stored, codes, sets, request>>
manager == <<subscribers, shared, registered, lastVerify>>
vars == <<world, store, events, manager, tasks, client>>

None == [url |-> 0]
NoRequest == [pc |-> "none", list |-> {}]
Nothing == [k \in Key |-> 0]

\* `told' is a history: what was stored of each key when the client was last sent a change of it.
Away == [open |-> FALSE, gone |-> FALSE, channel |-> <<>>, enabled |-> FALSE, changed |-> Nothing, told |-> Nothing]

Init ==
    /\ clock = 0 /\ restarts = 0 /\ errors = 0 /\ latest = Nothing /\ access = OwnKeys /\ commits = {}
    /\ stored = [s \in Slot |-> None] /\ codes = {} /\ sets = 0 /\ request = [r \in Requests |-> NoRequest]
    /\ events = <<>> /\ subscribers = [x \in Client \cup Slot |-> None] /\ shared = {}
    /\ registered = [s \in Slot |-> 0] /\ lastVerify = -1
    /\ tasks = <<>> /\ client = [c \in Client |-> Away]

-------------------------------------------------------------------------------
(* PushSubscription/set, one change at a time. *)

Change(r, new) ==
    /\ request[r] = NoRequest /\ sets < MaxSets /\ sets' = sets + 1 /\ stored' = new
    /\ request' = [request EXCEPT ![r].pc = "fetch"]
    /\ UNCHANGED <<world, codes, events, manager, tasks, client>>

Create(r, s) ==
    /\ stored[s] = None /\ Cardinality({t \in Slot : stored[t] # None}) < MaxTotal
    /\ Change(r, [stored EXCEPT ![s] = [url |-> sets + 1, verified |-> FALSE, expires |-> clock + Life]])

\* validate_push_value: the code that was sent to the URL.
Verify(r, s) ==
    /\ stored[s] # None /\ stored[s].url \in codes /\ ~stored[s].verified
    /\ Change(r, [stored EXCEPT ![s].verified = TRUE])

Renew(r, s) == stored[s] # None /\ Change(r, [stored EXCEPT ![s].expires = clock + Life])

Destroy(r, s) == stored[s] # None /\ Change(r, [stored EXCEPT ![s] = None])

\* fetch_push_subscriptions
Unexpired == {s \in Slot : stored[s] # None /\ stored[s].expires > clock}
Fetch(r) ==
    /\ request[r].pc = "fetch"
    /\ request' = [request EXCEPT ![r] = [pc |-> "send", list |-> {[slot |-> s, sub |-> stored[s]] : s \in Unexpired}]]
    /\ UNCHANGED <<world, stored, codes, sets, events, manager, tasks, client>>

\* A read of the store that fails.
Error == errors < MaxErrors /\ errors' = errors + 1 /\ UNCHANGED <<clock, restarts, latest, access, commits>>

\* The list cannot be had, and nobody is told.
FetchFails(r) ==
    /\ request[r].pc = "fetch" /\ Error /\ request' = [request EXCEPT ![r] = NoRequest]
    /\ UNCHANGED <<stored, codes, sets, events, manager, tasks, client>>

\* update_push_subscriptions
SendUpdate(r) ==
    /\ request[r].pc = "send" /\ request' = [request EXCEPT ![r] = NoRequest]
    /\ events' = events \o <<[type |-> "shared"], [type |-> "subscriptions", list |-> request[r].list]>>
    /\ UNCHANGED <<world, stored, codes, sets, manager, tasks, client>>

-------------------------------------------------------------------------------
(* The state manager. *)

\* Subscriber::is_valid
IsValid(subs, x) == IF x \in Client THEN client[x].open ELSE subs[x].expires > clock
Invalid(subs) == {x \in DOMAIN subs : subs[x] # None /\ ~IsValid(subs, x)}

\* Mutant: with one that is not valid all go.
PurgedAll(subs) == IF Invalid(subs) = {} THEN subs ELSE [x \in DOMAIN subs |-> None]

\* The subscribers after a purge.
Purged(subs) == [x \in DOMAIN subs |-> IF x \in Invalid(subs) THEN None ELSE subs[x]]

\* StateEvent::Publish: who is told of a change; a task for each client, the push manager for slots.
Told(k) == {x \in DOMAIN subscribers : k \in shared /\ subscribers[x] # None}
Tasks(k, state) ==
    SetToSeq({[to |-> c, key |-> k, state |-> state] : c \in {d \in Told(k) \cap Client : client[d].open}})

Verified(list) == {e \in list : e.sub.verified}

\* Subscriptions that are no longer verified, or no longer there.
Ended(list) == {s \in Slot : subscribers[s] # None /\ \A e \in Verified(list) : e.slot # s}

\* PushUpdate::Verify: a code for the first that is not verified, if the last one is old enough.
MayVerify == lastVerify = -1 \/ clock - lastVerify > VerifyTimeout
NewCodes(list) ==
    LET waiting == list \ Verified(list) IN
    IF MayVerify THEN {e.sub.url : e \in {f \in waiting : \A g \in waiting : f.slot <= g.slot}} ELSE {}

\* PushUpdate::Unregister, then PushUpdate::Register, which leaves alone what is there.
Registered(s, list) ==
    LET kept == IF s \in Ended(list) THEN 0 ELSE registered[s]
        new == {e.sub.url : e \in {f \in Verified(list) : f.slot = s}}
    IN IF kept # 0 \/ new = {} THEN kept ELSE CHOOSE url \in new : TRUE

\* StateEvent::UpdateSubscriptions, StateEvent::Subscribe
SubscribersAfter(e) ==
    CASE e.type = "subscribe" -> [subscribers EXCEPT ![e.client] = [url |-> -1]]
      [] e.type = "subscriptions" -> [x \in DOMAIN subscribers |->
             IF \E v \in Verified(e.list) : v.slot = x THEN (CHOOSE v \in Verified(e.list) : v.slot = x).sub
             ELSE IF x \in Ended(e.list) THEN None ELSE subscribers[x]]
      [] OTHER -> subscribers

\* One event, and the purge: when an hour has passed, and when one to be told is not valid.
Receive ==
    LET e == Head(events) IN
    /\ events # <<>> /\ events' = Tail(events)
    /\ \/ subscribers' = Purged(SubscribersAfter(e))
       \/ /\ e.type = "publish" => Told(e.key) \cap Invalid(subscribers) = {}
          /\ subscribers' = SubscribersAfter(e)
    /\ shared' = IF e.type = "shared" THEN access ELSE shared
    /\ tasks' = IF e.type = "publish" THEN tasks \o Tasks(e.key, e.state) ELSE tasks
    /\ IF e.type = "subscriptions"
       THEN /\ registered' = [s \in Slot |-> Registered(s, e.list)] /\ codes' = codes \cup NewCodes(e.list)
            /\ lastVerify' = IF NewCodes(e.list) = {} THEN lastVerify ELSE clock
       ELSE UNCHANGED <<registered, codes, lastVerify>>
    /\ UNCHANGED <<world, stored, sets, request, client>>

\* get_access_token fails in UpdateSharedAccounts: the next event, and no purge.
TokenFails ==
    /\ events # <<>> /\ Head(events).type = "shared" /\ events' = Tail(events) /\ Error
    /\ UNCHANGED <<store, manager, tasks, client>>

\* A task sends its change,
First(t) == IF Orderly THEN \A u \in 1..(t - 1) : tasks[u].to # tasks[t].to ELSE TRUE

SendTask(t) ==
    /\ First(t) /\ client[tasks[t].to].open /\ Len(client[tasks[t].to].channel) < Capacity
    /\ client' = [client EXCEPT ![tasks[t].to].channel = Append(@, tasks[t])]
    /\ tasks' = RemoveAt(tasks, t)
    /\ UNCHANGED <<world, store, events, manager>>

\* or ends without (SEND_TIMEOUT).
DropTask(t) ==
    /\ ~client[tasks[t].to].open \/ Len(client[tasks[t].to].channel) = Capacity
    /\ tasks' = RemoveAt(tasks, t)
    /\ UNCHANGED <<world, store, events, manager, client>>

-------------------------------------------------------------------------------
(* The clients. *)

\* subscribe_state_manager; what happened before the client finds out itself.
Connect(c) ==
    /\ client[c] = Away /\ client' = [client EXCEPT ![c] = [@ EXCEPT !.open = TRUE, !.told = latest]]
    /\ events' = events \o <<[type |-> "shared"], [type |-> "subscribe", client |-> c]>>
    /\ UNCHANGED <<world, store, manager, tasks>>

\* The connection ends: closed, failed, or idle for too long.
Close(c) ==
    /\ client[c].open /\ client' = [client EXCEPT ![c] = [@ EXCEPT !.open = FALSE, !.gone = TRUE, !.channel = <<>>]]
    /\ UNCHANGED <<world, store, events, manager, tasks>>

\* WebSocketMessage::PushEnable, PushDisable
Enable(c) ==
    /\ c \in Sockets /\ client[c].open /\ ~client[c].enabled
    /\ client' = [client EXCEPT ![c] = [@ EXCEPT !.enabled = TRUE, !.told = latest]]
    /\ UNCHANGED <<world, store, events, manager, tasks>>

Disable(c) ==
    /\ Disables /\ c \in Sockets /\ client[c].open /\ client' = [client EXCEPT ![c].enabled = FALSE]
    /\ UNCHANGED <<world, store, events, manager, tasks>>

\* Changes are collected, the later one for each key.
Wants(c) == c \in Sources \/ client[c].enabled
Collect(c) ==
    LET change == Head(client[c].channel) IN
    /\ client[c].open /\ client[c].channel # <<>>
    /\ client' = [client EXCEPT ![c].channel = Tail(@),
                                ![c].changed = IF Wants(c) THEN [@ EXCEPT ![change.key] = change.state] ELSE @]
    /\ UNCHANGED <<world, store, events, manager, tasks>>


Tell(c) == [k \in Key |-> IF client[c].changed[k] > 0 THEN latest[k] ELSE client[c].told[k]]

\* and sent when the throttle allows it.
Flush(c) ==
    /\ client[c].open /\ client[c].changed # Nothing
    /\ client' = [client EXCEPT ![c] = [@ EXCEPT !.changed = Nothing, !.told = Tell(c)]]
    /\ UNCHANGED <<world, store, events, manager, tasks>>

-------------------------------------------------------------------------------
(* The rest. *)

\* A request, or a delivery, stores a change,
Commit(k) ==
    /\ latest[k] < MaxPublished /\ latest' = [latest EXCEPT ![k] = @ + 1]
    /\ commits' = commits \cup {[key |-> k, state |-> latest'[k]]}
    /\ UNCHANGED <<clock, restarts, errors, access, store, events, manager, tasks, client>>

\* and publishes it; requests that stored one after the other may do so in any order
\* (broadcast_state_change).
Broadcast(change) ==
    /\ change \in commits /\ commits' = commits \ {change}
    /\ events' = Append(events, [type |-> "publish", key |-> change.key, state |-> change.state])
    /\ UNCHANGED <<clock, restarts, errors, latest, access, store, manager, tasks, client>>

\* A key is shared with the account.
Grant(k) ==
    /\ k \notin access /\ Cardinality(access) < Cardinality(OwnKeys) + MaxGrants /\ access' = access \cup {k}
    /\ UNCHANGED <<clock, restarts, errors, latest, commits, store, events, manager, tasks, client>>

Restart ==
    /\ restarts < MaxRestarts /\ restarts' = restarts + 1
    /\ commits' = {} /\ request' = [r \in Requests |-> NoRequest] /\ events' = <<>> /\ tasks' = <<>>
    /\ subscribers' = [x \in Client \cup Slot |-> None] /\ shared' = {} /\ registered' = [s \in Slot |-> 0] /\ lastVerify' = -1
    /\ client' = [c \in Client |-> Away]
    /\ UNCHANGED <<clock, errors, latest, access, stored, codes, sets>>

Tick == clock < MaxTime /\ clock' = clock + 1 /\ UNCHANGED <<restarts, errors, latest, access, commits, store, events, manager, tasks, client>>

RequestStep(r) == Fetch(r) \/ SendUpdate(r)
Published == \E change \in commits : Broadcast(change)
TaskStep == \E t \in DOMAIN tasks : SendTask(t) \/ DropTask(t)

Next ==
    \/ \E r \in Requests, s \in Slot : Create(r, s) \/ Verify(r, s) \/ Renew(r, s) \/ Destroy(r, s)
    \/ \E r \in Requests : RequestStep(r) \/ FetchFails(r)
    \/ Receive \/ TokenFails \/ TaskStep \/ Restart \/ Tick
    \/ \E c \in Client : Connect(c) \/ Close(c) \/ Enable(c) \/ Disable(c) \/ Collect(c) \/ Flush(c)
    \/ \E k \in Key : Commit(k) \/ Grant(k)
    \/ Published

\* The server's own steps are taken in the end.
Spec == /\ Init /\ [][Next]_vars /\ \A r \in Requests : WF_vars(RequestStep(r)) /\ WF_vars(Published)
        /\ WF_vars(Receive) /\ WF_vars(TaskStep) /\ \A c \in Client : WF_vars(Collect(c)) /\ WF_vars(Flush(c))

-------------------------------------------------------------------------------
(* Properties. *)

\* Types; the store holds no more than push_max_total subscriptions.
TypeOK ==
    /\ clock \in 0..MaxTime /\ Cardinality({s \in Slot : stored[s] # None}) <= MaxTotal
    /\ \A s \in Slot : registered[s] \in 0..MaxSets /\ shared \subseteq access
    /\ \A c \in Client : Len(client[c].channel) <= Capacity

\* A client that is connected stays subscribed, whoever else leaves (the purge).
StaysSubscribed ==
    \A c \in DOMAIN client : client[c].open =>
        subscribers[c] # None \/ \E k \in DOMAIN events : events[k].type = "subscribe" /\ events[k].client = c

\* In the end the subscriptions that are stored, verified and not expired are registered, and
\* no other is subscribed.
Registry ==
    \A s \in Slot : IF s \in Unexpired /\ stored[s].verified THEN registered[s] = stored[s].url
                    ELSE subscribers[s] = None \/ subscribers[s].expires <= clock

\* Every client that is connected was sent a change of each key it may see after the last one
\* was stored.
Informed ==
    \A c \in Client, k \in Key :
        (client[c].open /\ Wants(c) /\ k \in access) => client[c].told[k] = latest[k]
================================================================================
