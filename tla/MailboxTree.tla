----------------------------- MODULE MailboxTree -----------------------------
(***************************************************************************)
(* The mailboxes of one account: Mailbox/set of JMAP, CREATE, RENAME,      *)
(* DELETE and SUBSCRIBE of IMAP, and the folders that the delivery of a    *)
(* message creates on its way.                                             *)
(*                                                                         *)
(* Every operation reads the tree, decides, and writes later.  A write     *)
(* that changes a mailbox asserts the value that was read; the checks on   *)
(* OTHER mailboxes (children, names, roles, the chain of parents) are not  *)
(* repeated.  An IMAP session works on its own copy of the names and asks  *)
(* the change log whether the copy is still good.                          *)
(***************************************************************************)
EXTENDS Naturals, Sequences, FiniteSets, SequencesExt

CONSTANTS Ids,        \* document ids, from 1 (a parent of 0 is the root)
          Names,      \* names of mailboxes
          Roles,      \* special uses a mailbox may have
          Msgs,       \* messages
          Jmap,       \* JMAP requests at work at the same time
          Sessions,   \* IMAP sessions
          Scripts,    \* deliveries that file their message into a path
          Seed,       \* the mailboxes the account starts with
          System,     \* ids of the internal folders
          MaxDepth,   \* mailbox_max_depth
          MaxChanges, \* bound on the change ids given out
          Serial,     \* one operation at a time
          MoveNamed,  \* a JMAP client that moves a mailbox sends its name too
          NoInside    \* no IMAP client renames a mailbox to a path below it

MailboxTreeAssumption ==
  /\ Ids \in SUBSET (Nat \ {0}) /\ System \subseteq Ids
  /\ MaxDepth \in Nat \ {0} /\ MaxChanges \in Nat
  /\ {Serial, MoveNamed, NoInside} \subseteq BOOLEAN

VARIABLES box,    \* the stored mailboxes
          mail,   \* the mailboxes of every message; {} is no message
          clock,  \* the last change id given out
          last,   \* the largest change id in the log
          view,   \* per session: the id of every path it knows
          since,  \* per session: the change id its copy stands for
          act     \* what every actor is in the middle of

vars == <<box, mail, clock, last, view, since, act>>

Actors == Jmap \cup Sessions \cup Scripts

\* Absent values: no mailbox under an id, no role, a property left alone.
NoRole == "none"
Same == "same"
NoBox == [name |-> "", parent |-> 0, role |-> NoRole, sub |-> FALSE]
Idle == [pc |-> "idle"]

Live(b) == {i \in Ids : b[i] # NoBox}
Children(b, p) == {i \in Live(b) : b[i].parent = p}
Named(b, n, p) == {i \in Children(b, p) : b[i].name = n}

\* Chain(b)[n][i]: the ids from i up to the root, or <<>> if the root is not
\* reached in n steps.
Chain(b) ==
  LET Up[n \in 0..Cardinality(Ids)] ==
        [i \in Ids |->
           IF n = 0 \/ b[i] = NoBox THEN <<>>
           ELSE IF b[i].parent = 0 THEN <<i>>
           ELSE LET up == Up[n - 1][b[i].parent] IN
                IF up = <<>> THEN <<>> ELSE Append(up, i)]
  IN Up[Cardinality(Ids)]

-----------------------------------------------------------------------------
(* The names an IMAP session sees: a walk from the root, siblings by id.   *)
(* Of two mailboxes of one path the one visited last takes it.             *)

VisitedBefore(c, d) ==
  \/ IsStrictPrefix(c, d)
  \/ \E k \in 1..Len(c) : /\ k <= Len(d) /\ c[k] < d[k]
                          /\ \A j \in 1..(k - 1) : c[j] = d[j]

Paths(b) ==
  LET chain == Chain(b)
      path == [i \in {j \in Live(b) : chain[j] # <<>>} |->
                 [k \in 1..Len(chain[i]) |-> b[chain[i][k]].name]]
  IN [p \in {path[i] : i \in DOMAIN path} |->
        CHOOSE i \in DOMAIN path :
          /\ path[i] = p
          /\ \A j \in DOMAIN path :
               (path[j] = p /\ j # i) => VisitedBefore(chain[j], chain[i])]

\* What a session knows once it has asked the log for changes.
Synced(s) == IF last > since[s] THEN Paths(box) ELSE view[s]

Sync(s) ==
  /\ act[s] = Idle /\ last > since[s]
  /\ view' = [view EXCEPT ![s] = Paths(box)]
  /\ since' = [since EXCEPT ![s] = last]
  /\ UNCHANGED <<box, mail, clock, last, act>>

-----------------------------------------------------------------------------
Start(a) == act[a] = Idle /\ (Serial => \A x \in Actors : act[x] = Idle)

Go(a, r) == act' = [act EXCEPT ![a] = r]

\* A session's command begins with a look at the log.
Begin(s) ==
  /\ Start(s)
  /\ view' = [view EXCEPT ![s] = Synced(s)]
  /\ since' = [since EXCEPT ![s] = IF last > @ THEN last ELSE @]

-----------------------------------------------------------------------------
(* JMAP Mailbox/set: one create, update or destroy per request.            *)

\* The chain of parents from p must reach the root before MaxDepth steps and
\* must not pass through the mailbox being changed.
GoodParent(id, p) ==
  LET c == IF p = 0 THEN <<>> ELSE Chain(box)[p]
  IN /\ p # 0 => (p \in Live(box) /\ c # <<>>)
     /\ Len(c) < MaxDepth
     /\ \A k \in 1..Len(c) : c[k] # id

GoodRole(id, r) ==
  (r \notin {Same, NoRole, box[id].role}) =>
    /\ \A i \in Live(box) : box[i].role # r
    /\ id \notin System

\* "to" is {} when the request leaves the parent alone, {p} when it names p.
GoodName(cur, n, to) ==
  n # Same => /\ \A p \in to : Named(box, n, p) = {}
              /\ (to = {} /\ n # cur.name) => Named(box, n, cur.parent) = {}

Pick(new, old) == IF new = Same THEN old ELSE new

CreateRead(w, n, p, r) ==
  /\ Start(w)
  /\ GoodParent(0, p)
  /\ r # NoRole => \A i \in Live(box) : box[i].role # r
  /\ GoodName(NoBox, n, {p})
  /\ Go(w, [pc |-> "set", id |-> 0, cur |-> NoBox, assert |-> p,
            new |-> [name |-> n, parent |-> p, role |-> r, sub |-> FALSE]])
  /\ UNCHANGED <<box, mail, clock, last, view, since>>

UpdateRead(w, id, n, to, r) ==
  /\ Start(w) /\ id \in Live(box)
  /\ (MoveNamed /\ to # {}) => n # Same
  /\ \A p \in to : GoodParent(id, p)
  /\ GoodRole(id, r) /\ GoodName(box[id], n, to)
  /\ \E p \in IF to = {} THEN {box[id].parent} ELSE to :
       Go(w, [pc |-> "set", id |-> id, cur |-> box[id],
              assert |-> IF to = {} THEN 0 ELSE p,
              new |-> [name |-> Pick(n, box[id].name), parent |-> p,
                       role |-> Pick(r, box[id].role), sub |-> box[id].sub]])
  /\ UNCHANGED <<box, mail, clock, last, view, since>>

SetWriteMut(w) ==
  LET a == act[w]
      ok == a.assert # 0 => a.assert \in Live(box)
  IN /\ a.pc = "set"
     /\ \/ /\ ok
           /\ \E i \in IF a.id = 0 THEN Ids \ Live(box) ELSE {a.id} :
                box' = [box EXCEPT ![i] = a.new]
           /\ Go(w, [pc |-> "commit"])
        \/ ~ok /\ Go(w, Idle) /\ UNCHANGED box
     /\ UNCHANGED <<mail, clock, last, view, since>>

\* The batch: the parent still exists, the mailbox still is what was read.
SetWrite(w) ==
  LET a == act[w]
      ok == /\ a.assert # 0 => a.assert \in Live(box)
            /\ a.id # 0 => box[a.id] = a.cur
  IN /\ a.pc = "set"
     /\ \/ /\ ok
           /\ \E i \in IF a.id = 0 THEN Ids \ Live(box) ELSE {a.id} :
                box' = [box EXCEPT ![i] = a.new]
           /\ Go(w, [pc |-> "commit"])
        \/ ~ok /\ Go(w, Idle) /\ UNCHANGED box
     /\ UNCHANGED <<mail, clock, last, view, since>>

\* The changes of the request are logged under an id drawn now.
SetCommit(w) ==
  /\ act[w].pc = "commit" /\ clock < MaxChanges
  /\ clock' = clock + 1 /\ last' = clock + 1
  /\ Go(w, Idle)
  /\ UNCHANGED <<box, mail, view, since>>

-----------------------------------------------------------------------------
(* mailbox_destroy, for JMAP and for IMAP DELETE (which always removes the *)
(* messages).  "path" is what a session deletes, <<>> for JMAP.            *)

Doomed(a, id, path, remove) ==
  LET in == {m \in Msgs : id \in mail[m]}
  IN /\ id \notin System
     /\ Children(box, id) = {}
     /\ in # {} => remove
     /\ Go(a, [pc |-> "untag", id |-> id, path |-> path,
               left |-> [m \in in |-> mail[m]]])

DestroyRead(w, id, remove) ==
  /\ Start(w) /\ id \in Live(box)
  /\ Doomed(w, id, <<>>, remove)
  /\ UNCHANGED <<box, mail, clock, last, view, since>>

DeleteRead(s, path) ==
  /\ Begin(s)
  /\ path \in DOMAIN Synced(s)
  /\ Doomed(s, Synced(s)[path], path, TRUE)
  /\ UNCHANGED <<box, mail, clock, last>>

Elsewhere(a) == {m \in DOMAIN act[a].left : act[a].left[m] # {act[a].id}}

\* A message that is in another mailbox too loses this one only.
Untag(a) ==
  /\ act[a].pc = "untag"
  /\ \E m \in Elsewhere(a) :
       \/ /\ mail[m] = act[a].left[m]
          /\ mail' = [mail EXCEPT ![m] = @ \ {act[a].id}]
          /\ Go(a, [act[a] EXCEPT !.left =
                      [x \in DOMAIN @ \ {m} |-> @[x]]])
       \/ /\ mail[m] # act[a].left[m]
          /\ Go(a, Idle) /\ UNCHANGED mail
  /\ UNCHANGED <<box, clock, last, view, since>>

\* The others are deleted together, whatever mailboxes they are in by now.
Tombstone(a) ==
  /\ act[a].pc = "untag" /\ Elsewhere(a) = {}
  /\ mail' = [m \in Msgs |-> IF m \in DOMAIN act[a].left THEN {} ELSE mail[m]]
  /\ Go(a, [act[a] EXCEPT !.pc = "destroy"])
  /\ UNCHANGED <<box, clock, last, view, since>>

\* The mailbox is read and deleted; the read value is asserted.
DestroyWrite(a) ==
  /\ act[a].pc = "destroy"
  /\ IF act[a].id \in Live(box)
     THEN /\ box' = [box EXCEPT ![act[a].id] = NoBox]
          /\ Go(a, IF a \in Jmap THEN [pc |-> "commit"]
                   ELSE [pc |-> "deleted", path |-> act[a].path])
     ELSE Go(a, Idle) /\ UNCHANGED box
  /\ UNCHANGED <<mail, clock, last, view, since>>

DeleteCommit(s) ==
  /\ act[s].pc = "deleted" /\ clock < MaxChanges
  /\ clock' = clock + 1 /\ last' = clock + 1
  /\ view' = [view EXCEPT ![s] =
                [p \in DOMAIN @ \ {act[s].path} |-> @[p]]]
  /\ Go(s, Idle)
  /\ UNCHANGED <<box, mail, since>>

-----------------------------------------------------------------------------
(* Paths of which a part is missing: the missing folders are written one   *)
(* by one, with nothing asserted about their parents.                      *)

\* The longest known beginning of a path, and the mailbox it names.
Known(v, path) ==
  LET ks == {k \in 1..Len(path) : SubSeq(path, 1, k) \in DOMAIN v}
  IN IF ks = {} THEN 0 ELSE CHOOSE k \in ks : \A j \in ks : j <= k

ParentOf(v, path) ==
  IF Known(v, path) = 0 THEN 0 ELSE v[SubSeq(path, 1, Known(v, path))]

Missing(v, path) == SubSeq(path, Known(v, path) + 1, Len(path))

\* validate_mailbox_create; the change id is drawn in a later step.
Making(s, path) ==
  [pc |-> "draw", next |-> "make", id |-> 0, cur |-> NoBox, from |-> <<>>, path |-> path,
   at |-> Known(Synced(s), path), parent |-> ParentOf(Synced(s), path),
   names |-> Missing(Synced(s), path), role |-> NoRole, made |-> <<>>,
   cid |-> 0]

ImapCreate(s, path, r) ==
  /\ Begin(s)
  /\ Len(path) <= MaxDepth /\ path \notin DOMAIN Synced(s)
  /\ r # NoRole => \A i \in Live(box) : box[i].role # r
  /\ Go(s, [Making(s, path) EXCEPT !.role = r])
  /\ UNCHANGED <<box, mail, clock, last>>

ImapRename(s, from, to) ==
  /\ Begin(s)
  /\ Len(to) <= MaxDepth /\ to \notin DOMAIN Synced(s)
  /\ from \in DOMAIN Synced(s)
  /\ NoInside => ~IsPrefix(from, to)
  /\ Synced(s)[from] \in Live(box)
  /\ Go(s, [Making(s, to) EXCEPT !.id = Synced(s)[from], !.from = from,
                                 !.cur = box[Synced(s)[from]]])
  /\ UNCHANGED <<box, mail, clock, last>>

\* begin_changes
Draw(a) ==
  /\ act[a].pc = "draw" /\ clock < MaxChanges
  /\ clock' = clock + 1
  /\ Go(a, [act[a] EXCEPT !.pc = act[a].next, !.cid = clock + 1])
  /\ UNCHANGED <<box, mail, last, view, since>>

\* A delivery follows the path in the store, taking the first mailbox of
\* every name: the mailboxes found for the beginnings of the path.
Found(path) ==
  LET Node[k \in 0..Len(path)] ==
        IF k = 0 THEN {0}
        ELSE LET c == UNION {Named(box, path[k], p) : p \in Node[k - 1]}
             IN {i \in c : \A j \in c : i <= j}
      known == {k \in 1..Len(path) : Node[k] # {}}
  IN [q \in {SubSeq(path, 1, k) : k \in known} |-> CHOOSE i \in Node[Len(q)] : TRUE]

FileInto(d, path, m) ==
  LET v == Found(path)
  IN /\ Start(d) /\ mail[m] = {} /\ Len(path) <= MaxDepth
     /\ \A x \in Scripts : "msg" \in DOMAIN act[x] => act[x].msg # m
     /\ IF path \in DOMAIN v
        THEN Go(d, [pc |-> "deliver", msg |-> m, into |-> v[path]])
        ELSE Go(d, [pc |-> "draw", next |-> "make", id |-> 0, msg |-> m,
                    made |-> <<>>, parent |-> ParentOf(v, path),
                    role |-> NoRole, names |-> Missing(v, path), cid |-> 0])
     /\ UNCHANGED <<box, mail, clock, last, view, since>>

\* A rename keeps the last name for the mailbox itself.
Make(a) ==
  LET x == act[a]
  IN /\ x.pc = "make" /\ Len(x.names) > IF x.id = 0 THEN 0 ELSE 1
     /\ \E i \in Ids \ Live(box) :
          /\ box' = [box EXCEPT ![i] =
                       [name |-> Head(x.names), parent |-> x.parent,
                        role |-> IF Len(x.names) = 1 THEN x.role ELSE NoRole,
                        sub |-> FALSE]]
          /\ Go(a, [x EXCEPT !.parent = i, !.names = Tail(@),
                             !.made = Append(@, i)])
     /\ UNCHANGED <<mail, clock, last, view, since>>

Log(cid) == last' = IF cid > last THEN cid ELSE last

\* add_created_mailboxes
WithMade(v, x) ==
  LET new == {SubSeq(x.path, 1, x.at + k) : k \in 1..Len(x.made)}
  IN [p \in DOMAIN v \cup new |->
        IF p \in new THEN x.made[Len(p) - x.at] ELSE v[p]]

CreateCommit(s) ==
  LET x == act[s]
  IN /\ x.pc = "make" /\ x.id = 0 /\ x.names = <<>>
     /\ Log(x.cid)
     /\ view' = [view EXCEPT ![s] = WithMade(@, x)]
     /\ since' = [since EXCEPT ![s] = x.cid]
     /\ Go(s, Idle)
     /\ UNCHANGED <<box, mail, clock>>

\* The copy's paths below the old name move with it.
Moved(v, x) ==
  LET w == WithMade(v, x)
      below == {p \in DOMAIN w : IsStrictPrefix(x.from, p)}
      target(p) == x.path \o SubSeq(p, Len(x.from) + 1, Len(p))
      rest == DOMAIN w \ (below \cup {x.from})
      new == [q \in {target(p) : p \in below} |->
                w[CHOOSE p \in below : target(p) = q]]
  IN [p \in rest \cup DOMAIN new \cup {x.path} |->
        IF p = x.path THEN x.id ELSE IF p \in DOMAIN new THEN new[p] ELSE w[p]]

RenameCommit(s) ==
  LET x == act[s]
  IN /\ x.pc = "make" /\ x.id # 0 /\ Len(x.names) = 1
     /\ IF box[x.id] = x.cur
        THEN /\ box' = [box EXCEPT ![x.id].name = Head(x.names),
                                   ![x.id].parent = x.parent]
             /\ Log(x.cid)
             /\ view' = [view EXCEPT ![s] = Moved(@, x)]
             /\ since' = [since EXCEPT ![s] = x.cid]
        ELSE UNCHANGED <<box, last, view, since>>
     /\ Go(s, Idle)
     /\ UNCHANGED <<mail, clock>>

\* SUBSCRIBE and UNSUBSCRIBE change the mailbox in one batch with the log.
Subscribe(s, path) ==
  /\ Begin(s)
  /\ path \in DOMAIN Synced(s) /\ Synced(s)[path] \in Live(box)
  /\ Go(s, [pc |-> "draw", next |-> "subscribe", id |-> Synced(s)[path],
            cur |-> box[Synced(s)[path]], cid |-> 0])
  /\ UNCHANGED <<box, mail, clock, last>>

SubscribeCommit(s) ==
  LET x == act[s]
  IN /\ x.pc = "subscribe"
     /\ IF box[x.id] = x.cur
        THEN /\ box' = [box EXCEPT ![x.id].sub = ~@]
             /\ Log(x.cid)
             /\ since' = [since EXCEPT ![s] = x.cid]
        ELSE UNCHANGED <<box, last, since>>
     /\ Go(s, Idle)
     /\ UNCHANGED <<mail, clock, view>>

PathCommit(d) ==
  LET x == act[d]
  IN /\ x.pc = "make" /\ x.names = <<>>
     /\ Log(x.cid)
     /\ Go(d, [pc |-> "deliver", msg |-> x.msg, into |-> x.parent])
     /\ UNCHANGED <<box, mail, clock, view, since>>

\* The message is stored under the mailbox; nothing asserts that it exists.
Deliver(d) ==
  /\ act[d].pc = "deliver"
  /\ mail' = [mail EXCEPT ![act[d].msg] = {act[d].into}]
  /\ Go(d, Idle)
  /\ UNCHANGED <<box, clock, last, view, since>>

\* A client puts a message into one more mailbox.
Tag(m, id) ==
  /\ Serial => \A x \in Actors : act[x] = Idle
  /\ mail[m] # {} /\ id \in Live(box) \ mail[m]
  /\ mail' = [mail EXCEPT ![m] = @ \cup {id}]
  /\ UNCHANGED <<box, clock, last, view, since, act>>

-----------------------------------------------------------------------------
Init ==
  /\ box = [i \in Ids |-> IF i \in DOMAIN Seed THEN Seed[i] ELSE NoBox]
  /\ mail = [m \in Msgs |-> {}]
  /\ clock = 0 /\ last = 0
  /\ view = [s \in Sessions |-> Paths(box)]
  /\ since = [s \in Sessions |-> 0]
  /\ act = [a \in Actors |-> Idle]

SomePaths == UNION {[1..n -> Names] : n \in 1..(MaxDepth + 1)}

JmapNext(w) ==
  \/ \E n \in Names, p \in Live(box) \cup {0}, r \in Roles \cup {NoRole} :
       CreateRead(w, n, p, r)
  \/ \E id \in Live(box), n \in Names \cup {Same},
        to \in {{}} \cup {{p} : p \in Live(box) \cup {0}},
        r \in Roles \cup {NoRole, Same} : UpdateRead(w, id, n, to, r)
  \/ \E id \in Live(box), remove \in BOOLEAN : DestroyRead(w, id, remove)
  \/ SetWrite(w) \/ SetCommit(w)

ImapNext(s) ==
  \/ Sync(s)
  \/ \E p \in SomePaths, r \in Roles \cup {NoRole} : ImapCreate(s, p, r)
  \/ \E p, q \in SomePaths : ImapRename(s, p, q)
  \/ \E p \in SomePaths : DeleteRead(s, p) \/ Subscribe(s, p)
  \/ CreateCommit(s) \/ RenameCommit(s) \/ SubscribeCommit(s) \/ DeleteCommit(s)

ScriptNext(d) ==
  \/ \E p \in SomePaths, m \in Msgs : FileInto(d, p, m)
  \/ PathCommit(d) \/ Deliver(d)

Next ==
  \/ \E w \in Jmap : JmapNext(w)
  \/ \E s \in Sessions : ImapNext(s)
  \/ \E d \in Scripts : ScriptNext(d)
  \/ \E a \in Actors : Untag(a) \/ Tombstone(a) \/ DestroyWrite(a) \/ Draw(a) \/ Make(a)
  \/ \E m \in Msgs, id \in Ids : Tag(m, id)

Spec == Init /\ [][Next]_vars

-----------------------------------------------------------------------------
Boxes == [name : Names, parent : Ids \cup {0}, role : Roles \cup {NoRole},
          sub : BOOLEAN]

\* Every stored mailbox and every message is well formed, and a session's
\* paths name document ids.
TypeOK ==
  /\ box \in [Ids -> Boxes \cup {NoBox}]
  /\ mail \in [Msgs -> SUBSET Ids]
  /\ clock \in 0..MaxChanges /\ last \in 0..clock
  /\ \A s \in Sessions : since[s] <= clock /\ \A p \in DOMAIN view[s] : view[s][p] \in Ids

\* From every mailbox the chain of parents ends at the root: no mailbox is
\* below itself and no parent is gone.  The checks of mailbox_set_item and of
\* mailbox_destroy are there for it.
Rooted == \A i \in Live(box) : Chain(box)[i] # <<>>

\* Two mailboxes of one parent have different names, however they came there.
SiblingNames ==
  \A i, j \in Live(box) :
    (box[i].name = box[j].name /\ box[i].parent = box[j].parent) => i = j

\* A special use belongs to one mailbox at most.
OneRole ==
  \A i, j \in Live(box) : (box[i].role = box[j].role /\ i # j) => box[i].role = NoRole

\* Every mailbox a message is in exists: mailbox_destroy takes the messages
\* out before the mailbox goes.
MailHoused ==
  \A m \in Msgs : \A i \in mail[m] : i \in Live(box)

\* Destroying a mailbox deletes only messages that are in no other mailbox.
MailKept ==
  \A m \in Msgs : (mail[m] # {} /\ mail'[m] = {}) => Cardinality(mail[m]) = 1

\* What a request that is about to write was asked to change of its mailbox.
Asked(x) ==
  CASE x.pc = "set" -> {f \in DOMAIN NoBox : x.new[f] # x.cur[f]}
    [] x.pc = "make" -> {"name", "parent"}
    [] x.pc = "subscribe" -> {"sub"}
    [] OTHER -> {}

\* However requests and commands cross, a mailbox is changed in what one of them was asked
\* to change, and what another one wrote in between is not undone (the value that was read
\* is asserted in the batch of mailbox_set_item, rename_folder and SUBSCRIBE).
NothingUndone ==
  \A i \in Live(box) : (box'[i] # box[i] /\ box'[i] # NoBox) =>
    \E a \in {x \in Actors : act[x].pc \in {"set", "make", "subscribe"} /\ act[x].id = i /\ act'[x] # act[x]} :
      \A f \in DOMAIN NoBox : box'[i][f] # box[i][f] => f \in Asked(act[a])

\* A session at rest for which the log has nothing new knows exactly the
\* paths that the store has, as long as no operation is under way and no path
\* has two mailboxes.
ViewCurrent ==
  \A s \in Sessions :
    (/\ last <= since[s] /\ SiblingNames
     /\ \A a \in Actors : act[a] = Idle) => view[s] = Paths(box)
=============================================================================
