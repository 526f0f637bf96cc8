-------------------------------- MODULE MCGossip --------------------------------
(***************************************************************************)
(* Three clusters of the gossip protocol, checked together: part, chosen   *)
(* at the start, says which of them is looked at.  In the first, whose     *)
(* bounds are the constants, two nodes meet and the settings change.  The  *)
(* others have three nodes that have known each other for long: one is cut *)
(* in two, and a node goes and comes back; in the other packets overtake   *)
(* each other while the settings change, and an answer need not go to the  *)
(* node that asked.  The instances have the same variables.                *)
(***************************************************************************)
EXTENDS Gossip

CONSTANT Third   \* the node that is cut off

VARIABLE part    \* the cluster that is looked at

Apart == INSTANCE Gossip WITH
    Node <- Node \cup {Third}, Ban <- {}, MaxChanges <- 0, MaxStops <- 1, GenModulus <- 2,
    Lossy <- FALSE, Away <- {Third}, Formed <- TRUE, KnownFirst <- FALSE

News == INSTANCE Gossip WITH
    Node <- Node \cup {Third}, Ban <- {}, MaxEpoch <- 6, MaxNet <- 2, MaxRounds <- 3, Formed <- TRUE,
    KnownFirst <- FALSE

ASSUME ScenesFit == Third \notin Node /\ Apart!GossipAssumption /\ News!GossipAssumption

SumVars == <<part, vars>>

SumInit ==
    /\ part \in {"spread", "apart", "news"}
    /\ CASE part = "apart" -> Apart!Init [] part = "news" -> News!Init [] OTHER -> Init

Cluster(p, A) == part = p /\ A /\ UNCHANGED part

SumNext == Cluster("spread", Next) \/ Cluster("apart", Apart!Next) \/ Cluster("news", News!Next)

\* The fairness of Gossip, for the cluster about which something is promised.
SumFairness ==
    /\ \A n \in Node : WF_SumVars(Cluster("spread", Work(n)))
    /\ \A n \in Node : \A m \in Node \ {n} :
         SF_SumVars(Cluster("spread", PingSent(n, m))) /\ SF_SumVars(Cluster("spread", Heard(n, m)))

SumSpec == SumInit /\ [][SumNext]_SumVars /\ SumFairness

-------------------------------------------------------------------------------
(* Properties. *)

\* A network that was cut in two, and lost a node, grows together again: always somebody on
\* one side still pings somebody on the other (ping_peers pings the offline peers when
\* nobody else is alive).
GrowsTogether == part = "apart" => Apart!PartitionHeals

\* Among three nodes no news is lost for good, although packets get lost, overtake each other
\* and are answered to the first peer of the list: a node that does not use what is stored will
\* load it with the next packet about some peer, or is about to.  And between two nodes that
\* have met, whatever is changed is used by both in the end, although packets get lost
\* (handle_ping: generations, epochs, the answer to peers[0]).
SettingsSpread ==
    /\ [](part = "news" => News!NewsWaits)
    /\ <>[](part = "spread" => InStep)
=================================================================================
