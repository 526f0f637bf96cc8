------------------------------ MODULE MCMailStore ------------------------------
(***************************************************************************)
(* What is stored for an account, checked together: conversations and the  *)
(* tree of mailboxes.  The components share no variables, so it is enough  *)
(* to let one move at a time: part is chosen at the start.                 *)
(***************************************************************************)
EXTENDS MailThreads, Functions, TLC

VARIABLES
    part,   \* the instance that moves
    \* MailboxTree
    box, bMail, clock, last, view, since, act

CONSTANT p2   \* the second request

\* a, b and x are messages of their own, c answers a and b, f answers x and b.
RefsOf(m) == CASE m = "c" -> {"a", "b", m} [] m = "f" -> {"x", "b", m} [] OTHER -> {m}

Box(name, parent) == [name |-> name, parent |-> parent, role |-> "none", sub |-> FALSE]

Symmetry == UNION {Permutations(S) : S \in {Thread, Proc}}

\* Two requests answer messages of three conversations at the same time.
Overlap == INSTANCE MailThreads WITH
    Proc <- Proc \cup {p2}, Msg <- {"a", "b", "x", "c", "f"}, MaxIds <- 9, IngestsOverlap <- TRUE,
    Deletes <- "none"

Edits == INSTANCE MailboxTree WITH
    Ids <- {1,2,3,4}, Names <- {"a","b"}, Roles <- {"sent"}, Msgs <- {"m1"}, Jmap <- {"j1"},
    Sessions <- {}, Scripts <- {}, Seed <- <<Box("a", 0), Box("b", 0)>>, System <- {1},
    MaxDepth <- 3, MaxChanges <- 4, Serial <- TRUE, MoveNamed <- TRUE, NoInside <- TRUE,
    mail <- bMail

Filing == INSTANCE MailboxTree WITH
    Ids <- {1,2,3}, Names <- {"a","b"}, Roles <- {}, Msgs <- {"m1","m2"}, Jmap <- {"j1"},
    Sessions <- {}, Scripts <- {"d1"}, Seed <- <<Box("a", 0), Box("b", 0)>>, System <- {},
    MaxDepth <- 2, MaxChanges <- 3, Serial <- TRUE, MoveNamed <- TRUE, NoInside <- TRUE,
    mail <- bMail

Folders == INSTANCE MailboxTree WITH
    Ids <- {1,2,3}, Names <- {"a","b"}, Roles <- {}, Msgs <- {}, Jmap <- {},
    Sessions <- {"s1","s2"}, Scripts <- {}, Seed <- <<Box("a", 0), Box("b", 1)>>, System <- {},
    MaxDepth <- 2, MaxChanges <- 2, Serial <- TRUE, MoveNamed <- TRUE, NoInside <- TRUE,
    mail <- bMail

\* A request and a session work on the same mailboxes at the same time.
Crossing == INSTANCE MailboxTree WITH
    Ids <- {1,2}, Names <- {"a","b"}, Roles <- {"sent"}, Msgs <- {}, Jmap <- {"j1"},
    Sessions <- {"s1"}, Scripts <- {}, Seed <- <<Box("a", 0)>>, System <- {},
    MaxDepth <- 2, MaxChanges <- 2, Serial <- FALSE, MoveNamed <- FALSE, NoInside <- FALSE,
    mail <- bMail

ASSUME SumFit ==
    /\ Overlap!MailAssumption /\ Edits!MailboxTreeAssumption /\ Filing!MailboxTreeAssumption
    /\ Folders!MailboxTreeAssumption /\ Crossing!MailboxTreeAssumption

tree == <<box, bMail, clock, last, view, since, act>>
SumVars == <<part, vars, tree>>

\* a, x and b have come one after the other and are in threads of their own.
Apart ==
    /\ \E of \in Bijection(Doc, Thread) :
         /\ mail = [d \in Doc |-> [msg |-> <<"a", "x", "b">>[d], thread |-> of[d], tomb |-> FALSE, uid |-> d]]
         /\ tag = [t \in Thread |-> {d \in Doc : of[d] = t}]
    /\ threads = Thread /\ log = 1..3 /\ ids = 3 /\ uids = 3
    /\ cache = [modseq |-> 0, map |-> [d \in Doc |-> NoThread]]
    /\ proc = [p \in Proc \cup {p2} |-> Idle]

SumInit ==
    /\ part \in {"threads", "overlap", "jmap", "filing", "folders", "crossing"}
    /\ IF part = "overlap" THEN Apart ELSE Init
    /\ CASE part = "filing" -> Filing!Init
         [] part = "folders" -> Folders!Init
         [] part = "crossing" -> Crossing!Init
         [] OTHER -> Edits!Init

\* A step of one instance; nothing else moves.
Storing(p, A) == part = p /\ A /\ UNCHANGED <<part, tree>>
Tree(p, A) == part = p /\ A /\ UNCHANGED <<part, vars>>

SumNext ==
    \/ Storing("threads", Next) \/ Storing("overlap", Overlap!Next)
    \/ Tree("jmap", Edits!Next) \/ Tree("filing", Filing!Next) \/ Tree("folders", Folders!Next)
    \/ Tree("crossing", Crossing!Next)

SumSpec == SumInit /\ [][SumNext]_SumVars

-------------------------------------------------------------------------------
(* Properties. *)

\* Where messages come one after the other and deletions stand alone, a message is in a
\* conversation that exists, no conversation is empty, and messages that share a reference
\* are in one (find_or_merge_thread, emails_tombstone): see MailThreads.
ConversationsHold == part = "threads" => ThreadsHold

\* As long as a request is done before the next one begins, the mailboxes of an account are a
\* tree with unique sibling names and roles, every message is in mailboxes that exist, none
\* that is in another mailbox is deleted with one, and an IMAP session at rest knows the paths
\* there are, over sequences of what JMAP, IMAP and deliveries do (mailbox_set_item,
\* mailbox_destroy, mailbox.rs of IMAP).  Where a request and a session cross, none undoes what
\* the other did to a mailbox (the assertions of their batches): see MailboxTree.
TreeHolds ==
    /\ [](/\ part = "jmap" => Edits!Rooted /\ Edits!SiblingNames /\ Edits!OneRole
          /\ part = "filing" => Filing!MailHoused
          /\ part = "folders" => Folders!Rooted /\ Folders!SiblingNames /\ Folders!ViewCurrent)
    /\ [][/\ part = "filing" => Filing!MailKept
          /\ part = "crossing" => Crossing!NothingUndone]_tree
================================================================================
