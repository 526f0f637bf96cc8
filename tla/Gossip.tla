-------------------------------- MODULE Gossip --------------------------------
(***************************************************************************)
(* Cluster membership and the spreading of settings: every node pings its  *)
(* peers in turn over UDP, with what it knows of everybody; a peer that is *)
(* silent for too long is offline; a peer whose generation of the settings *)
(* or of the blocked addresses has changed makes a node load them again.   *)
(*                                                                         *)
(*   crates/jmap/src/services/gossip        the gossiper                   *)
(*   crates/common/src/manager/reload.rs    reload, reload_blocked_ips     *)
(*   crates/common/src/listener/blocked.rs  block_ip                       *)
(*   crates/jmap/src/api/management/reload.rs                              *)
(*                                                                         *)
(* The failure detector is a choice that silence limits: a peer heard since *)
(* the last round is not convicted, one silent for MaxSilence rounds is.   *)
(***************************************************************************)
EXTENDS Integers, FiniteSets, SequencesExt

CONSTANTS
    Node,            \* addresses
    Ban,             \* addresses that may be blocked
    MaxSilence,      \* rounds without a heartbeat after which a peer is convicted
    MaxEpoch,        \* bound: epochs stop there, and indirect news with them
    MaxNet,          \* bound: packets under way
    MaxRounds,       \* bound: rounds of pings (0: none)
    MaxChanges,      \* bound: changes of the settings
    MaxStops,        \* bound: crashes and departures
    GenModulus,      \* generations wrap there (256: GenerationId is an u8)
    Lossy,           \* may packets get lost?
    Away,            \* nodes cut off from the others at first
    Formed,          \* does the cluster start with everybody known to everybody?
    KnownFirst,      \* are changes made only when everybody knows everybody?
    ReloadsOverlap   \* may two reloads, or a reload and a ban, overlap on a node?

ASSUME GossipAssumption ==
    /\ MaxSilence \in Nat \ {0} /\ MaxEpoch \in Nat /\ MaxNet \in Nat \ {0}
    /\ MaxRounds \in Nat
    /\ MaxChanges \in Nat /\ MaxStops \in Nat /\ GenModulus \in Nat \ {0, 1}
    /\ {Lossy, Formed, KnownFirst, ReloadsOverlap} \subseteq BOOLEAN
    /\ Away \subseteq Node

VARIABLES
    up,        \* node -> it runs
    epoch,     \* node -> epoch
    peers,     \* node -> list of peers
    last,      \* node -> last_peer_pinged
    gen,       \* node -> config_version and blocked_ips_version
    net,       \* packets under way
    rounds,    \* history: rounds of pings, where they are bounded
    cut,       \* the nodes in Away cannot be reached, nor reach the others
    stored,    \* settings and blocked addresses in the store
    loaded,    \* node -> settings and blocked addresses in use
    reloads,   \* node -> reload tasks
    banning,   \* node -> addresses it is about to store
    stops      \* history: crashes and departures

vars == <<up, epoch, peers, last, gen, net, rounds, cut, stored, loaded, reloads, banning, stops>>
members == <<up, epoch, peers, last, net, rounds, cut, stops>>
settings == <<gen, stored, loaded, reloads, banning>>

State == {"Seed", "Alive", "Suspected", "Offline", "Left"}

Settings == [cfg: 0..MaxChanges, bans: SUBSET Ban]

Generation == [cfg: 0..(GenModulus - 1), bans: 0..(GenModulus - 1)]

PeerStatus == [addr: Node, epoch: 0..MaxEpoch, gen: Generation]

\* `hb' is hb_sum > 0: a heartbeat has been counted.  `silent' counts the rounds
\* since last_heartbeat.
Peer == [addr: Node, state: State, epoch: 0..MaxEpoch, gen: Generation, hb: BOOLEAN,
         silent: 0..MaxSilence]

NoGen == [cfg |-> 0, bans |-> 0]

NewSeed(a) == [addr |-> a, state |-> "Seed", epoch |-> 0, gen |-> NoGen, hb |-> FALSE, silent |-> 0]

NewPeer(s) == [addr |-> s.addr, state |-> "Alive", epoch |-> s.epoch, gen |-> s.gen, hb |-> FALSE,
               silent |-> 0]

IsOffline(p) == p.state \in {"Offline", "Left"}

\* A reload task: all settings or the blocked addresses only; whether the node
\* announces it; what it has read, if it has.
Task == [all: BOOLEAN, announce: BOOLEAN, read: BOOLEAN, got: Settings]

\* Types; no node lists itself, and none lists an address twice, although seeds
\* and the peers discovered for them share addresses (retain in handle_ping).
TypeOK ==
    /\ up \in [Node -> BOOLEAN] /\ epoch \in [Node -> 0..MaxEpoch] /\ cut \in BOOLEAN
    /\ gen \in [Node -> Generation] /\ stored \in Settings /\ loaded \in [Node -> Settings]
    /\ reloads \in [Node -> SUBSET Task] /\ banning \in [Node -> SUBSET Ban]
    /\ stops \in 0..MaxStops /\ Cardinality(net) <= MaxNet
    /\ \A n \in Node :
         /\ peers[n] \in Seq(Peer) /\ last[n] \in Nat
         /\ \A i \in DOMAIN peers[n] : peers[n][i].addr # n
         /\ \A i, j \in DOMAIN peers[n] : peers[n][i].addr = peers[n][j].addr => i = j

Seeds(n) == SetToSeq({NewSeed(a) : a \in Node \ {n}})

Known(n) == SetToSeq({[NewSeed(a) EXCEPT !.state = "Alive", !.hb = TRUE] : a \in Node \ {n}})

Fresh == [cfg |-> 0, bans |-> {}]

Init ==
    /\ up = [n \in Node |-> TRUE] /\ epoch = [n \in Node |-> 0] /\ last = [n \in Node |-> 0]
    /\ peers = [n \in Node |-> IF Formed THEN Known(n) ELSE Seeds(n)]
    /\ gen = [n \in Node |-> NoGen] /\ net = {} /\ rounds = 0 /\ cut = (Away # {})
    /\ stored = Fresh /\ loaded = [n \in Node |-> Fresh] /\ reloads = [n \in Node |-> {}]
    /\ banning = [n \in Node |-> {}] /\ stops = 0

Bump(e) == IF e < MaxEpoch THEN e + 1 ELSE e

-------------------------------------------------------------------------------
(* Packets. *)

OwnStatus(n, e) == [addr |-> n, epoch |-> e, gen |-> gen[n]]

\* build_peer_status: the sender first.
BuildPeerStatus(n, e, ps) ==
    <<OwnStatus(n, e)>> \o [i \in DOMAIN ps |-> [addr |-> ps[i].addr, epoch |-> ps[i].epoch, gen |-> ps[i].gen]]

Packet(kind, to, status) == [kind |-> kind, to |-> to, peers |-> status]

From(p) == Head(p.peers).addr

\* send_gossip: UDP; a packet across the cut is lost.
Send(rest, out) ==
    LET passes == {p \in out : ~cut \/ (From(p) \in Away <=> p.to \in Away)}
    IN \E sent \in SUBSET passes :
         /\ Lossy \/ sent = passes
         /\ Cardinality(rest \cup sent) <= MaxNet /\ net' = rest \cup sent

-------------------------------------------------------------------------------
(* A round: ping_peers. *)

\* check_heartbeat: what the detector may make of a peer.  One without a counted
\* heartbeat is left as it is.
CheckHeartbeat(p) ==
    IF IsOffline(p) \/ ~p.hb THEN {p}
    ELSE {[p EXCEPT !.state = st, !.silent = IF @ < MaxSilence THEN @ + 1 ELSE @] :
             st \in CASE p.silent = 0 -> {p.state}
                      [] p.silent \in 1..(MaxSilence - 1) -> {p.state, "Suspected", "Offline"}
                      [] OTHER -> {"Offline"}}

\* Mutant: offline peers are not pinged.
IsPingedAlive(p, alive) == p.state \in {"Seed", "Alive", "Suspected"}

\* Who is pinged: offline peers only where nobody else is alive.
IsPinged(p, alive) == p.state \in {"Seed", "Alive", "Suspected"} \/ (p.state = "Offline" /\ ~alive)

\* Every peer is checked, then the next one in turn is pinged: seeds with the
\* node's own status only, offline peers only where nobody else is alive.
PingPeers(n) ==
    \E ps \in {s \in [DOMAIN peers[n] -> UNION {CheckHeartbeat(peers[n][i]) : i \in DOMAIN peers[n]}] :
                 \A i \in DOMAIN s : s[i] \in CheckHeartbeat(peers[n][i])} :
        LET total == Len(peers[n])
            alive == \E i \in DOMAIN ps : ps[i].hb /\ ~IsOffline(ps[i])
            index(k) == ((last[n] + k) % total) + 1
            turns == {k \in 1..total : IsPinged(ps[index(k)], alive)}
            k == CHOOSE k \in turns : \A j \in turns : k <= j
            target == ps[index(k)]
            e == IF target.state \in {"Alive", "Suspected"} THEN Bump(epoch[n]) ELSE epoch[n]
            status == IF target.state = "Seed" THEN <<OwnStatus(n, e)>> ELSE BuildPeerStatus(n, e, ps)
        IN /\ up[n] /\ total > 0
           /\ peers' = [peers EXCEPT ![n] = ps]
           /\ \/ /\ turns = {} /\ UNCHANGED <<epoch, last, net>>
              \/ /\ turns # {}
                 /\ epoch' = [epoch EXCEPT ![n] = e] /\ last' = [last EXCEPT ![n] = index(k) - 1]
                 /\ Send(net, {Packet("ping", target.addr, status)})
           /\ UNCHANGED <<up, cut, stops, settings>>
           /\ MaxRounds > 0 => rounds < MaxRounds
           /\ rounds' = IF MaxRounds > 0 THEN rounds + 1 ELSE 0

-------------------------------------------------------------------------------
(* What arrives: handle_ping, handle_leave. *)

\* update_heartbeat: heartbeats that end an absence are not counted.
UpdateHeartbeat(p, direct) ==
    CASE p.state \in {"Seed", "Offline"} -> [p EXCEPT !.state = "Alive", !.silent = 0]
      [] p.state = "Left" /\ direct      -> [p EXCEPT !.state = "Alive", !.silent = 0]
      [] p.state = "Suspected"           -> [p EXCEPT !.state = "Alive", !.silent = 0, !.hb = TRUE]
      [] OTHER                           -> [p EXCEPT !.silent = 0, !.hb = TRUE]

\* One entry of a packet.  Only later epochs count, and whatever the sender says
\* of itself; other generations than known mean a reload, if heartbeats have
\* been counted.  Seeds that are met on the way to the peer are to be removed.
MergeStatus(acc, s, direct) ==
    LET at == {i \in DOMAIN acc.peers : acc.peers[i].addr = s.addr /\ acc.peers[i].state # "Seed"}
        i == CHOOSE i \in at : \A j \in at : i <= j
        old == acc.peers[i]
        new == [UpdateHeartbeat(old, direct) EXCEPT !.epoch = s.epoch, !.gen = s.gen]
        met == acc.seeds \/ \E j \in DOMAIN acc.peers : acc.peers[j].state = "Seed" /\ (at # {} => j < i)
    IN IF at = {} THEN [acc EXCEPT !.peers = Append(@, NewPeer(s)), !.seeds = met]
       ELSE IF s.epoch > old.epoch \/ direct
            THEN [acc EXCEPT !.peers[i] = new, !.seeds = met,
                             !.cfg = @ \/ (old.gen.cfg # s.gen.cfg /\ new.hb),
                             !.bans = @ \/ (old.gen.bans # s.gen.bans /\ new.hb)]
       ELSE [acc EXCEPT !.seeds = met]

\* All entries but the one about the node itself.
Merge(n, status) ==
    FoldLeftDomain(LAMBDA acc, i : IF status[i].addr = n THEN acc ELSE MergeStatus(acc, status[i], i = 1),
                   [peers |-> peers[n], seeds |-> FALSE, cfg |-> FALSE, bans |-> FALSE], status)

\* handle_ping: the answer goes to the first peer in the list.
HandlePing(n, p) ==
    LET e == Bump(epoch[n])
        acc == Merge(n, p.peers)
        ps == IF acc.seeds THEN SelectSeq(acc.peers, LAMBDA q : q.state # "Seed") ELSE acc.peers
        pong == IF p.kind = "ping" THEN {Packet("pong", ps[1].addr, BuildPeerStatus(n, e, ps))} ELSE {}
        task == [all |-> acc.cfg, announce |-> FALSE, read |-> FALSE, got |-> Fresh]
    IN /\ up[n] /\ p \in net /\ p.to = n /\ p.kind \in {"ping", "pong"}
       /\ epoch' = [epoch EXCEPT ![n] = e]
       /\ peers' = [peers EXCEPT ![n] = ps]
       /\ Send(net \ {p}, pong)
       /\ reloads' = IF acc.cfg \/ acc.bans THEN [reloads EXCEPT ![n] = @ \cup {task}] ELSE reloads
       /\ UNCHANGED <<up, last, rounds, cut, stops, gen, stored, loaded, banning>>

HandleLeave(n, p) ==
    /\ up[n] /\ p \in net /\ p.to = n /\ p.kind = "leave"
    /\ net' = net \ {p}
    /\ peers' = [peers EXCEPT ![n] = [i \in DOMAIN @ |->
                   IF @[i].addr = From(p) THEN [@[i] EXCEPT !.state = "Left", !.epoch = Head(p.peers).epoch]
                   ELSE @[i]]]
    /\ UNCHANGED <<up, epoch, last, rounds, cut, stops, settings>>

\* A packet for a node that does not run, or one the network loses late.
Drop(p) ==
    /\ p \in net /\ (Lossy \/ ~up[p.to])
    /\ net' = net \ {p}
    /\ UNCHANGED <<up, epoch, peers, last, rounds, cut, stops, settings>>

Heal == cut /\ cut' = FALSE /\ UNCHANGED <<up, epoch, peers, last, net, rounds, stops, settings>>

-------------------------------------------------------------------------------
(* Nodes go and come. *)

GoDown(n) ==
    /\ up[n] /\ stops < MaxStops /\ stops' = stops + 1
    /\ up' = [up EXCEPT ![n] = FALSE]
    /\ reloads' = [reloads EXCEPT ![n] = {}] /\ banning' = [banning EXCEPT ![n] = {}]

\* broadcast_leave.
Leave(n) ==
    /\ GoDown(n)
    /\ Send(net, {Packet("leave", peers[n][i].addr, <<OwnStatus(n, epoch[n])>>) :
                    i \in {j \in DOMAIN peers[n] : ~IsOffline(peers[n][j])}})
    /\ UNCHANGED <<epoch, peers, last, rounds, cut, gen, stored, loaded>>

Crash(n) == GoDown(n) /\ UNCHANGED <<epoch, peers, last, net, rounds, cut, gen, stored, loaded>>

\* A node starts with the seeds of its configuration and what is stored.
Start(n) ==
    /\ ~up[n] /\ up' = [up EXCEPT ![n] = TRUE]
    /\ epoch' = [epoch EXCEPT ![n] = 0] /\ last' = [last EXCEPT ![n] = 0]
    /\ peers' = [peers EXCEPT ![n] = Seeds(n)] /\ gen' = [gen EXCEPT ![n] = NoGen]
    /\ loaded' = [loaded EXCEPT ![n] = stored]
    /\ UNCHANGED <<net, rounds, cut, stops, stored, reloads, banning>>

-------------------------------------------------------------------------------
(* Settings and blocked addresses. *)

EverybodyKnown ==
    \A m, n \in Node : m # n => \E i \in DOMAIN peers[n] : peers[n][i].addr = m /\ peers[n][i].hb

\* An administrator stores settings and asks node n to load them.
ChangeSettings(n) ==
    /\ up[n] /\ stored.cfg < MaxChanges /\ (KnownFirst => EverybodyKnown)
    /\ stored' = [stored EXCEPT !.cfg = @ + 1]
    /\ reloads' = [reloads EXCEPT ![n] = @ \cup {[all |-> TRUE, announce |-> TRUE, read |-> FALSE, got |-> Fresh]}]
    /\ UNCHANGED <<members, gen, loaded, banning>>

\* Nothing on node n is between reading the settings and using them.
Quiet(n) == \A t \in reloads[n] : ~t.read

\* build_config reads the settings ...
ReadConfig(n, t) ==
    /\ t \in reloads[n] /\ ~t.read /\ (ReloadsOverlap \/ (Quiet(n) /\ banning[n] = {}))
    /\ reloads' = [reloads EXCEPT ![n] = (@ \ {t}) \cup {[t EXCEPT !.read = TRUE, !.got = stored]}]
    /\ UNCHANGED <<members, gen, stored, loaded, banning>>

\* Mutant: the version is not changed.
UseConfigSilently(n, t) ==
    /\ t \in reloads[n] /\ t.read
    /\ reloads' = [reloads EXCEPT ![n] = @ \ {t}]
    /\ loaded' = [loaded EXCEPT ![n] = IF t.all THEN t.got ELSE [@ EXCEPT !.bans = t.got.bans]]
    /\ UNCHANGED <<members, gen, stored, banning>>

\* ... which the node then uses; a reload the administrator asked for changes
\* the version.
UseConfig(n, t) ==
    /\ t \in reloads[n] /\ t.read
    /\ reloads' = [reloads EXCEPT ![n] = @ \ {t}]
    /\ loaded' = [loaded EXCEPT ![n] = IF t.all THEN t.got ELSE [@ EXCEPT !.bans = t.got.bans]]
    /\ gen' = IF t.announce THEN [gen EXCEPT ![n].cfg = (@ + 1) % GenModulus] ELSE gen
    /\ UNCHANGED <<members, stored, banning>>

\* block_ip: the address is blocked at once ...
BlockIp(n, b) ==
    /\ up[n] /\ b \notin loaded[n].bans /\ b \notin banning[n] /\ (KnownFirst => EverybodyKnown)
    /\ ReloadsOverlap \/ Quiet(n)
    /\ loaded' = [loaded EXCEPT ![n].bans = @ \cup {b}]
    /\ banning' = [banning EXCEPT ![n] = @ \cup {b}]
    /\ UNCHANGED <<members, gen, stored, reloads>>

\* ... then stored, and the version changed.
StoreBlockedIp(n, b) ==
    /\ b \in banning[n]
    /\ stored' = [stored EXCEPT !.bans = @ \cup {b}]
    /\ banning' = [banning EXCEPT ![n] = @ \ {b}]
    /\ gen' = [gen EXCEPT ![n].bans = (@ + 1) % GenModulus]
    /\ UNCHANGED <<members, loaded, reloads>>

-------------------------------------------------------------------------------
Reloads(n) == \E t \in reloads[n] : ReadConfig(n, t) \/ UseConfig(n, t)

\* Tasks that can go on do.
Work(n) == Reloads(n) \/ \E b \in Ban : StoreBlockedIp(n, b)

Receive(n) == \E p \in net : HandlePing(n, p) \/ HandleLeave(n, p)

Next ==
    \/ \E n \in Node : \/ PingPeers(n) \/ Receive(n) \/ Leave(n) \/ Crash(n) \/ Start(n)
                       \/ ChangeSettings(n) \/ Work(n) \/ \E b \in Ban : BlockIp(n, b)
    \/ \E p \in net : Drop(p)
    \/ Heal

\* The ping reaches the network.
PingSent(n, t) == PingPeers(n) /\ \E p \in net' : p.kind = "ping" /\ From(p) = n /\ p.to = t

\* A packet of m reaches n.
Heard(n, m) == \E p \in net : From(p) = m /\ (HandlePing(n, p) \/ HandleLeave(n, p))

\* Timers fire and tasks run; a link that is used again and again carries a
\* packet now and then; what is sent to a node that is down gets lost; the cut
\* ends.
Fairness ==
    /\ WF_vars(Heal) /\ WF_vars(\E p \in net : ~up[p.to] /\ Drop(p))
    /\ \A n \in Node : WF_vars(Work(n))
    /\ \A n \in Node : \A m \in Node \ {n} :
         /\ SF_vars(PingSent(n, m))
         /\ SF_vars(Heard(n, m))

Spec == Init /\ [][Next]_vars /\ Fairness

-------------------------------------------------------------------------------
(* Properties. *)

\* Every node uses the settings and blocks the addresses that are stored.
InStep == stops = 0 => \A n \in Node : loaded[n] = stored

\* Node n listens to a peer about which there is news.
NewsOf(n, new(_)) == \E i \in DOMAIN peers[n] : peers[n][i].hb /\ new(peers[n][i])

\* No news is lost for good: as long as a node does not use the settings and blocked addresses
\* that are stored, it is about to load them, a node is about to announce them, or it still
\* holds an old generation of a peer, so that the next packet about it makes the node load them.
NewsWaits ==
    stops = 0 => \A n \in Node :
      /\ loaded[n].cfg # stored.cfg =>
           \/ \E t \in reloads[n] : t.all /\ (t.read => t.got.cfg = stored.cfg)
           \/ \E m \in Node : \E t \in reloads[m] : t.announce
           \/ NewsOf(n, LAMBDA p : p.gen.cfg # gen[p.addr].cfg)
      /\ loaded[n].bans # stored.bans =>
           \/ \E t \in reloads[n] : t.read => t.got.bans = stored.bans
           \/ \E m \in Node : banning[m] # {}
           \/ NewsOf(n, LAMBDA p : p.gen.bans # gen[p.addr].bans)

\* The peers node n may ping: its offline ones only where nobody else is alive.
Pinged(n) ==
    LET alive == \E i \in DOMAIN peers[n] : peers[n][i].hb /\ ~IsOffline(peers[n][i])
    IN {peers[n][i].addr : i \in {j \in DOMAIN peers[n] : IsPinged(peers[n][j], alive)}}

\* A network that was cut in two grows together again: somebody on one side still
\* pings somebody on the other.
PartitionHeals ==
    Away # {} => \E m \in Away, n \in Node \ Away : m \in Pinged(n) \/ n \in Pinged(m)

\* An address that a node has blocked stays blocked on it.
BlockedStays == [][\A n \in Node : up'[n] /\ up[n] => loaded[n].bans \subseteq loaded'[n].bans]_vars
===============================================================================
