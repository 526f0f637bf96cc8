------------------------------ MODULE ImapMailbox ------------------------------
(***************************************************************************)
(* An IMAP session with a mailbox selected, beside deliveries and other    *)
(* sessions that change the mailbox.                                       *)
(*                                                                         *)
(*   crates/imap/src/core/message.rs   the session's copy of the mailbox   *)
(*   crates/imap/src/op/{select,noop,idle,fetch,store,expunge,close,       *)
(*                       search,copy_move,append}.rs    the commands       *)
(*   crates/jmap/src/email/set.rs      TagManager                          *)
(*                                                                         *)
(* The session numbers the messages by its own copy, `st'; `view' is what  *)
(* the client believes after the responses it got.  NOOP, EXPUNGE, CLOSE   *)
(* and SELECT run in the session's task, the others in tasks of their own. *)
(***************************************************************************)
EXTENDS Integers, FiniteSets, Sequences, SequencesExt

CONSTANTS
    N,          \* messages, numbered by document
    Initial,    \* those in the mailbox at first
    Others,     \* deliveries and other sessions
    OtherOps,   \* what they do
    Commands,   \* what the client sends
    MaxChange,  \* changes made
    MaxFails,   \* writes that fail
    MaxRetries, \* MAX_RETRIES
    QResync,    \* does the client use QRESYNC?
    Pipelined,  \* does the client send commands before the last one is answered?
    Apart       \* "no", "between": the others act between commands, "turns": and end what they began before one

Doc == 1..N
Uid == 1..N
Flag == {"deleted", "seen"}
Slot == {"main", "spawn"}
Inline == {"noop", "expunge", "close", "select"}

MailboxAssumption ==
    /\ N \in Nat \ {0} /\ Initial \subseteq Doc /\ Others # {}
    /\ OtherOps \subseteq {"deliver", "flag", "move", "destroy"}
    /\ Commands \subseteq Inline \cup {"fetch", "body", "store", "search", "copy", "move", "append"}
    /\ {MaxChange, MaxFails, MaxRetries} \subseteq Nat /\ {QResync, Pipelined} \subseteq BOOLEAN
    /\ Apart \in {"no", "between", "turns"}

VARIABLES
    box,      \* the UID of each message in the mailbox, 0 if it is not in it
    dest,     \* messages in another mailbox
    flags,    \* keywords
    born,     \* messages stored so far
    given,    \* the message each UID was drawn for, 0 if none
    cids,     \* change ids drawn
    log,      \* the change log
    oth,      \* what the others are doing
    open,     \* is the mailbox selected?
    st,       \* the session's state of it (MailboxState)
    next,     \* the state it changes to with the next report, and
    dels,     \* the messages that report removes (NextMailboxState)
    cache,    \* the mailbox state that sessions share
    saved,    \* the saved search
    jobs,     \* the commands in progress
    fails,    \* writes that failed
    view,     \* the client's view: a UID for each number
    known     \* the flags the client was told of

store == <<box, dest, flags, born, given, cids, log>>
session == <<open, st, next, dels, cache, saved>>
client == <<view, known>>
vars == <<store, oth, session, jobs, fails, client>>

NoJob == [cmd |-> "none", pc |-> "idle", by |-> "seq", n |-> 0, meant |-> {}, todo |-> {}, tag |-> {},
          mod |-> 0, cid |-> 0, docs |-> {}, read |-> {}, lists |-> <<0, FALSE>>, tries |-> 0, old |-> 0]
NoOther == [op |-> "none", doc |-> 0, cid |-> 0, uid |-> 0, written |-> FALSE]
NoState == [imap |-> <<>>, u2i |-> <<>>, total |-> 0, max |-> 0, modseq |-> 0]
Absent == [uid |-> 0, seq |-> 0]
Unknown == {"?"}

UidsGiven == {u \in Uid : given[u] # 0}
NextUid == Cardinality(UidsGiven) + 1
SetMax(S) == CHOOSE x \in S \cup {0} : \A y \in S : y <= x

\* get_last_change_id: the highest change id in the log.
LastChange == SetMax({e.cid : e \in log})

\* A copy of the mailbox with the messages in S, numbered by UID.
StateOf(S, mod) ==
    LET in == {d \in S : box[d] > 0} IN
    [imap |-> [d \in Doc |-> IF d \in in THEN [uid |-> box[d], seq |-> Cardinality({e \in in : box[e] <= box[d]})]
                             ELSE Absent],
     u2i |-> [u \in Uid |-> IF \E d \in in : box[d] = u THEN CHOOSE d \in in : box[d] = u ELSE 0],
     total |-> Cardinality(in), max |-> SetMax({box[d] : d \in in}), modseq |-> mod]

UidAt(s, p) == CHOOSE u \in Uid : \E d \in Doc : s.imap[d] = [uid |-> u, seq |-> p]
Numbers(s) == [p \in 1..s.total |-> UidAt(s, p)]

Init ==
    /\ box = [d \in Doc |-> IF d \in Initial THEN Cardinality({e \in Initial : e <= d}) ELSE 0]
    /\ dest = {} /\ flags = [d \in Doc |-> {}] /\ born = Initial
    /\ given = [u \in Uid |-> IF \E d \in Initial : box[d] = u THEN CHOOSE d \in Initial : box[d] = u ELSE 0]
    /\ cids = 0 /\ log = {} /\ oth = [o \in Others |-> NoOther]
    /\ open = TRUE /\ st = StateOf(Doc, 0) /\ next = NoState /\ dels = {} /\ cache = st
    /\ saved = {} /\ jobs = [s \in Slot |-> NoJob] /\ fails = 0
    \* the client has selected the mailbox and fetched the flags
    /\ view = Numbers(st) /\ known = [u \in Uid |-> IF given[u] = 0 THEN Unknown ELSE {}]

\* Types.
ImapId == [uid: 0..N, seq: 0..N]
TypeOK ==
    /\ box \in [Doc -> 0..N] /\ dest \subseteq Doc /\ flags \in [Doc -> SUBSET Flag] /\ born \subseteq Doc
    /\ given \in [Uid -> 0..N] /\ cids \in Nat /\ log \subseteq [cid: Nat, docs: SUBSET Doc]
    /\ open \in BOOLEAN /\ dels \subseteq ImapId /\ saved \subseteq ImapId
    /\ \A s \in {st, cache} : s.imap \in [Doc -> ImapId] /\ s.u2i \in [Uid -> 0..N] /\ s.total \in 0..N
    /\ \A s \in Slot : jobs[s].docs \subseteq Doc /\ jobs[s].tries \in 0..MaxRetries
    /\ view \in Seq(Uid) /\ known \in [Uid -> {Unknown} \cup SUBSET Flag]

-------------------------------------------------------------------------------
(* The others. *)

Quiet == Apart # "no" => \A s \in Slot : jobs[s] = NoJob

\* A delivery draws a UID and a change id; a change of flags or mailboxes a change id.
OtherStart(o, op, d) ==
    /\ oth[o] = NoOther /\ op \in OtherOps /\ cids < MaxChange /\ Quiet
    /\ IF op = "deliver" THEN d \notin born ELSE box[d] > 0
    /\ oth' = [oth EXCEPT ![o] = [NoOther EXCEPT !.op = op, !.doc = d,
                                                 !.cid = IF op = "destroy" THEN 0 ELSE cids + 1,
                                                 !.uid = IF op = "deliver" THEN NextUid ELSE 0]]
    /\ cids' = IF op = "destroy" THEN cids ELSE cids + 1
    /\ born' = born \cup {d}
    /\ given' = IF op = "deliver" THEN [given EXCEPT ![NextUid] = d] ELSE given
    /\ UNCHANGED <<box, dest, flags, log, session, jobs, fails, client>>

\* The batch; a delivery logs its change with it.
OtherWrite(o) ==
    LET a == oth[o] IN
    /\ a.op # "none" /\ ~a.written /\ Quiet
    /\ box' = CASE a.op = "deliver" -> [box EXCEPT ![a.doc] = a.uid]
                [] a.op \in {"move", "destroy"} -> [box EXCEPT ![a.doc] = 0]
                [] OTHER -> box
    /\ dest' = CASE a.op = "move" -> dest \cup {a.doc} [] a.op = "destroy" -> dest \ {a.doc} [] OTHER -> dest
    /\ flags' = IF a.op = "flag" THEN [flags EXCEPT ![a.doc] = @ \cup {"seen"}] ELSE flags
    /\ log' = IF a.op = "deliver" THEN log \cup {[cid |-> a.cid, docs |-> {a.doc}]} ELSE log
    /\ oth' = [oth EXCEPT ![o] = IF a.op = "deliver" THEN NoOther ELSE [a EXCEPT !.written = TRUE]]
    /\ UNCHANGED <<born, given, cids, session, jobs, fails, client>>

\* commit_changes; a deletion draws its change id here.
OtherLog(o) ==
    LET a == oth[o] cid == IF a.cid = 0 THEN cids + 1 ELSE a.cid IN
    /\ a.written /\ Quiet
    /\ log' = log \cup {[cid |-> cid, docs |-> {a.doc}]}
    /\ cids' = IF a.cid = 0 THEN cids + 1 ELSE cids
    /\ oth' = [oth EXCEPT ![o] = NoOther]
    /\ UNCHANGED <<box, dest, flags, born, given, session, jobs, fails, client>>

-------------------------------------------------------------------------------
(* Commands. *)

Goto(s, pc) == jobs' = [jobs EXCEPT ![s].pc = pc]
Done(s) == jobs' = [jobs EXCEPT ![s] = NoJob]
SlotOf(cmd) == IF cmd \in Inline THEN "main" ELSE "spawn"
At(s, pc) == jobs[s].pc = pc
Is(s, cmds) == jobs[s].cmd \in cmds

\* Where a command begins.
FirstStep(cmd) ==
    CASE cmd \in {"expunge", "close"} -> "find" [] cmd = "search" -> "query" [] cmd = "append" -> "insert"
      [] cmd \in {"copy", "move"} -> "ids" [] OTHER -> "sync"

\* ingest_bytes: the client names a message by number, by UID or as the saved search.
Begin(cmd, by, n) ==
    LET s == SlotOf(cmd) IN
    /\ cmd \in Commands /\ jobs[s] = NoJob /\ (~Pipelined => \A t \in Slot : jobs[t] = NoJob)
    /\ open \/ cmd = "select"
    /\ Apart = "turns" => \A o \in Others : oth[o] = NoOther
    /\ cmd \notin {"noop", "select", "fetch", "search"} => cids < MaxChange
    /\ IF cmd \in {"fetch", "body", "store", "copy", "move"}
       THEN IF by = "saved" THEN saved # {} /\ n = 1 ELSE n \in DOMAIN view
       ELSE by = "seq" /\ n = 1
    /\ cmd = "append" => born # Doc
    /\ jobs' = [jobs EXCEPT ![s] = [NoJob EXCEPT
          !.cmd = cmd, !.pc = FirstStep(cmd), !.by = by, !.n = n, !.old = IF cmd = "noop" THEN st.modseq ELSE 0,
          !.meant = IF by = "saved" THEN {i.uid : i \in saved} ELSE IF n \in DOMAIN view THEN {view[n]} ELSE {}]]
    /\ UNCHANGED <<store, oth, session, fails, client>>

\* What comes after the session's copy is up to date.
AfterSync(cmd) ==
    CASE cmd \in {"noop", "expunge", "move"} -> "report" [] cmd = "select" -> "set" [] OTHER -> "ids"

\* synchronize_messages, or SELECT: the copy is current if no later change is logged.
Sync(s) ==
    LET current == IF Is(s, {"select"}) THEN cache.modseq >= LastChange ELSE st.modseq = LastChange IN
    /\ At(s, "sync")
    /\ jobs' = [jobs EXCEPT ![s].pc = IF current THEN AfterSync(jobs[s].cmd) ELSE "modseq",
                            ![s].tag = IF current THEN {} ELSE {d \in Doc : box[d] > 0}]
    /\ UNCHANGED <<store, oth, session, fails, client>>

\* fetch_messages reads the messages of the mailbox, then the last change id, then the UIDs.
FetchModseq(s) ==
    /\ At(s, "modseq") /\ jobs' = [jobs EXCEPT ![s].pc = "props", ![s].mod = LastChange]
    /\ UNCHANGED <<store, oth, session, fails, client>>

\* Messages that are gone from the mailbox since the last report.
Gone(new) == dels \cup {st.imap[d] : d \in {e \in Doc : st.imap[e].uid > 0 /\ new.u2i[st.imap[e].uid] = 0}}

\* The copy loses what is gone and keeps its numbers; the new numbers wait for the next report.
FetchProps(s) ==
    LET new == StateOf(jobs[s].tag, jobs[s].mod)
        gone == {i.uid : i \in Gone(new)}
    IN /\ At(s, "props") /\ cache' = new
       /\ IF Is(s, {"select"}) THEN UNCHANGED <<st, next, dels>>
          ELSE /\ dels' = Gone(new) /\ next' = new
               /\ st' = [st EXCEPT !.imap = [d \in Doc |-> IF @[d].uid \in gone THEN Absent ELSE @[d]],
                                   !.u2i = [u \in Uid |-> IF u \in gone THEN 0 ELSE @[u]],
                                   !.modseq = new.modseq]
       /\ jobs' = [jobs EXCEPT ![s].pc = AfterSync(jobs[s].cmd), ![s].tag = {}, ![s].mod = 0]
       /\ UNCHANGED <<store, oth, open, saved, fails, client>>

\* SELECT takes over the shared copy.
Select(s) ==
    /\ At(s, "set") /\ open' = TRUE /\ st' = cache /\ next' = NoState /\ dels' = {} /\ saved' = {}
    /\ view' = Numbers(cache) /\ known' = [u \in Uid |-> Unknown] /\ Done(s)
    /\ UNCHANGED <<store, oth, cache, fails>>

\* Mutant: the numbers are those of before the first removal.
ExpungeNumbersOld(seqs) == SetToSortSeq(seqs, <)

\* expunge::Response: in ascending order, each less the removals before it.
ExpungeNumbers(seqs) == LET sorted == SetToSortSeq(seqs, <) IN [k \in DOMAIN sorted |-> sorted[k] - (k - 1)]

\* What the client makes of EXPUNGE or VANISHED.
RemoveNumber(v, k) == IF k \in DOMAIN v THEN RemoveAt(v, k) ELSE v
Expunged(v) ==
    IF QResync THEN SelectSeq(v, LAMBDA u : u \notin {i.uid : i \in dels})
    ELSE FoldLeft(RemoveNumber, v, ExpungeNumbers({i.seq : i \in dels}))

\* Is EXISTS sent?
Exists == dels # {} \/ next.max > st.max

\* write_mailbox_changes: removals, then EXISTS; the new numbers are in force.
Report(s) ==
    LET left == Expunged(view)
        more == IF Exists THEN [p \in 1..(next.total - Len(left)) |-> UidAt(next, Len(left) + p)] ELSE <<>>
    IN /\ At(s, "report")
       /\ IF next = NoState THEN UNCHANGED <<st, next, dels, view>>
          ELSE view' = left \o more /\ st' = next /\ next' = NoState /\ dels' = {}
       /\ IF Is(s, {"noop"}) THEN Goto(s, "changes") ELSE Done(s)
       /\ UNCHANGED <<store, oth, open, cache, saved, fails, known>>

\* Messages that changed since the copy's state.
ChangedSince(old) == {st.imap[d].uid : d \in UNION {e.docs : e \in {f \in log : f.cid > old}}} \ {0}

\* write_changes: the flags of what changed are fetched.
Changes(s) ==
    LET uids == IF jobs[s].old = st.modseq THEN {} ELSE ChangedSince(jobs[s].old) IN
    /\ At(s, "changes")
    /\ IF uids = {} THEN Done(s)
       ELSE jobs' = [jobs EXCEPT ![s] = [NoJob EXCEPT !.cmd = "flags", !.pc = "sync", !.by = "uid", !.meant = uids]]
    /\ UNCHANGED <<store, oth, session, fails, client>>

Item(d) == [id |-> d, uid |-> st.imap[d].uid, seq |-> st.imap[d].seq]

\* sequence_to_ids
ToIds(j) ==
    CASE j.by = "seq" -> {Item(d) : d \in {e \in Doc : st.imap[e].uid > 0 /\ st.imap[e].seq = j.n}}
      [] j.by = "uid" -> {Item(d) : d \in {e \in Doc : st.imap[e].uid \in j.meant}}
      [] OTHER -> {[id |-> st.u2i[i.uid], uid |-> i.uid, seq |-> i.seq] : i \in {k \in saved : st.u2i[k.uid] # 0}}

Lookup(s) ==
    LET ids == ToIds(jobs[s]) IN
    /\ At(s, "ids")
    /\ IF ids = {} THEN Done(s)
       ELSE jobs' = [jobs EXCEPT ![s].todo = ids, ![s].pc = IF Is(s, {"fetch", "body", "flags"}) THEN "item" ELSE "read"]
    /\ UNCHANGED <<store, oth, session, fails, client>>

First(s) == CHOOSE i \in jobs[s].todo : \A k \in jobs[s].todo : i.seq <= k.seq
NextItem(s) == IF jobs[s].todo = {First(s)} THEN "log" ELSE "read"

\* FETCH: one response for each message; the body sets \Seen afterwards.
FetchItem(s) ==
    LET i == First(s)
        f == flags[i.id] \cup (IF Is(s, {"body"}) THEN {"seen"} ELSE {})
        rest == jobs[s].todo \ {i}
    IN /\ At(s, "item")
       /\ known' = IF i.seq \in DOMAIN view THEN [known EXCEPT ![view[i.seq]] = f] ELSE known
       /\ IF Is(s, {"body"}) /\ "seen" \notin flags[i.id]
          THEN jobs' = [jobs EXCEPT ![s].pc = "seen", ![s].read = flags[i.id]]
          ELSE IF rest = {} THEN Done(s) ELSE jobs' = [jobs EXCEPT ![s].todo = rest]
       /\ UNCHANGED <<store, oth, session, fails, view>>

\* The change id of a command, drawn with its first write.
Cid(s) == IF jobs[s].cid = 0 THEN cids + 1 ELSE jobs[s].cid
DrawCid(s) == cids' = IF jobs[s].cid = 0 THEN cids + 1 ELSE cids

\* assert_value: the keywords are still what was read.
MayWrite(s, d) == flags[d] = jobs[s].read

\* \Seen, unless the flags have changed.
SetSeen(s) ==
    LET d == First(s).id IN
    /\ At(s, "seen")
    /\ IF MayWrite(s, d)
       THEN /\ flags' = [flags EXCEPT ![d] = jobs[s].read \cup {"seen"}] /\ cids' = cids + 1
            /\ jobs' = [jobs EXCEPT ![s].pc = "log", ![s].cid = cids + 1, ![s].docs = {d}]
       ELSE Done(s) /\ UNCHANGED <<flags, cids>>
    /\ UNCHANGED <<box, dest, born, given, log, oth, session, fails, client>>

\* STORE +FLAGS (\Deleted): the keywords of a message are read,
StoreRead(s) ==
    LET d == First(s).id IN
    /\ At(s, "read") /\ Is(s, {"store"})
    /\ IF "deleted" \in flags[d]
       THEN jobs' = [jobs EXCEPT ![s].todo = @ \ {First(s)}, ![s].pc = NextItem(s)]
       ELSE jobs' = [jobs EXCEPT ![s].read = flags[d], ![s].pc = "write"]
    /\ UNCHANGED <<store, oth, session, fails, client>>

MayRetry(s) == jobs[s].tries < MaxRetries

\* and written, if they are still the same; it is tried again otherwise.
StoreWrite(s) ==
    LET i == First(s) IN
    /\ At(s, "write") /\ Is(s, {"store"})
    /\ \/ /\ MayWrite(s, i.id)
          /\ flags' = [flags EXCEPT ![i.id] = jobs[s].read \cup {"deleted"}] /\ DrawCid(s)
          /\ known' = IF i.seq \in DOMAIN view THEN [known EXCEPT ![view[i.seq]] = jobs[s].read \cup {"deleted"}] ELSE known
          /\ jobs' = [jobs EXCEPT ![s].todo = @ \ {i}, ![s].pc = NextItem(s), ![s].read = {},
                                  ![s].cid = Cid(s), ![s].docs = @ \cup {i.id}, ![s].tries = 0]
       \/ /\ ~MayWrite(s, i.id) /\ UNCHANGED <<flags, cids, known>>
          /\ jobs' = IF MayRetry(s)
                     THEN [jobs EXCEPT ![s].tries = @ + 1, ![s].pc = "read"]
                     ELSE [jobs EXCEPT ![s].todo = @ \ {i}, ![s].pc = NextItem(s), ![s].tries = 0]
    /\ UNCHANGED <<box, dest, born, given, log, oth, session, fails, view>>

\* Where a command goes after its changes are logged.
AfterLog(s) ==
    CASE Is(s, {"expunge"}) -> Goto(s, "sync") [] Is(s, {"close"}) -> Goto(s, "deselect")
      [] Is(s, {"move"}) /\ jobs[s].docs # {} -> Goto(s, "sync") [] OTHER -> Done(s)

\* commit_changes
Log(s) ==
    /\ At(s, "log") /\ AfterLog(s)
    /\ IF jobs[s].docs = {} THEN UNCHANGED <<cids, log>>
       ELSE log' = log \cup {[cid |-> Cid(s), docs |-> jobs[s].docs]} /\ DrawCid(s)
    /\ UNCHANGED <<box, dest, flags, born, given, oth, session, fails, client>>

\* SEARCH RETURN (SAVE) for everything: the result is mapped by the session's copy.
Search(s) ==
    /\ At(s, "query") /\ Done(s)
    /\ saved' = {st.imap[d] : d \in {e \in Doc : box[e] > 0 /\ st.imap[e].uid > 0}}
    /\ UNCHANGED <<store, oth, open, st, next, dels, cache, fails, client>>

\* COPY and MOVE: the mailboxes of a message are read,
CopyRead(s) ==
    LET i == First(s) IN
    /\ At(s, "read") /\ Is(s, {"copy", "move"})
    /\ IF box[i.id] = 0 \/ i.id \in dest
       THEN jobs' = [jobs EXCEPT ![s].todo = @ \ {i}, ![s].pc = NextItem(s)]
       ELSE jobs' = [jobs EXCEPT ![s].lists = <<box[i.id], i.id \in dest>>, ![s].pc = "write"]
    /\ UNCHANGED <<store, oth, session, fails, client>>

\* and written if they are the same; the command ends otherwise, and logs nothing.
CopyWrite(s) ==
    LET i == First(s) IN
    /\ At(s, "write") /\ Is(s, {"copy", "move"})
    /\ IF jobs[s].lists # <<box[i.id], i.id \in dest>> THEN Done(s) /\ UNCHANGED <<box, dest, cids>>
       ELSE /\ dest' = dest \cup {i.id} /\ DrawCid(s)
            /\ box' = IF Is(s, {"move"}) THEN [box EXCEPT ![i.id] = 0] ELSE box
            /\ jobs' = [jobs EXCEPT ![s].todo = @ \ {i}, ![s].pc = NextItem(s),
                                    ![s].lists = <<0, FALSE>>, ![s].cid = Cid(s), ![s].docs = @ \cup {i.id}]
    /\ UNCHANGED <<flags, born, given, log, oth, session, fails, client>>

\* EXPUNGE and CLOSE: which messages of the mailbox are \Deleted?
FindDeleted(s) ==
    /\ At(s, "find") /\ jobs' = [jobs EXCEPT ![s].tag = {d \in Doc : box[d] > 0 /\ "deleted" \in flags[d]}, ![s].pc = "lists"]
    /\ UNCHANGED <<store, oth, session, fails, client>>

\* email_untag_or_delete: those in other mailboxes too are untagged, the rest is destroyed.
ReadLists(s) ==
    LET in == {d \in jobs[s].tag : box[d] > 0} IN
    /\ At(s, "lists")
    /\ jobs' = [jobs EXCEPT ![s].tag = in \cap dest, ![s].pc = "untag",
                            ![s].todo = {[id |-> d, uid |-> box[d], seq |-> 0] : d \in in \ dest}]
    /\ UNCHANGED <<store, oth, session, fails, client>>

Untag(s) ==
    /\ At(s, "untag")
    /\ IF jobs[s].tag = {} THEN Goto(s, "destroy") /\ UNCHANGED <<box, flags, cids>>
       ELSE LET d == CHOOSE e \in jobs[s].tag : TRUE IN
            IF box[d] > 0 /\ d \in dest
            THEN /\ box' = [box EXCEPT ![d] = 0] /\ flags' = [flags EXCEPT ![d] = @ \ {"deleted"}] /\ DrawCid(s)
                 /\ jobs' = [jobs EXCEPT ![s].tag = @ \ {d}, ![s].cid = Cid(s), ![s].docs = @ \cup {d}]
            ELSE jobs' = [jobs EXCEPT ![s].tag = @ \ {d}] /\ UNCHANGED <<box, flags, cids>>
    /\ UNCHANGED <<dest, born, given, log, oth, session, fails, client>>

\* emails_tombstone: out of all mailboxes.
Destroy(s) ==
    LET ids == {i.id : i \in jobs[s].todo} IN
    /\ At(s, "destroy")
    /\ box' = [d \in Doc |-> IF d \in ids THEN 0 ELSE box[d]] /\ dest' = dest \ ids
    /\ jobs' = [jobs EXCEPT ![s].pc = "log", ![s].todo = {}, ![s].docs = @ \cup ids]
    /\ saved' = IF Is(s, {"expunge"}) THEN {} ELSE saved
    /\ UNCHANGED <<flags, born, given, cids, log, oth, open, st, next, dels, cache, fails, client>>

Deselect(s) ==
    /\ At(s, "deselect") /\ Done(s) /\ open' = FALSE /\ st' = StateOf({}, 0) /\ next' = NoState /\ dels' = {}
    /\ saved' = {} /\ view' = <<>> /\ UNCHANGED <<store, oth, cache, fails, known>>

\* APPEND to the selected mailbox: the message is stored and logged,
AppendInsert(s) ==
    LET d == CHOOSE e \in Doc \ born : \A f \in Doc \ born : e <= f IN
    /\ At(s, "insert")
    /\ IF born = Doc THEN Done(s) /\ UNCHANGED store
       ELSE /\ box' = [box EXCEPT ![d] = NextUid] /\ given' = [given EXCEPT ![NextUid] = d] /\ born' = born \cup {d}
            /\ cids' = cids + 1 /\ log' = log \cup {[cid |-> cids + 1, docs |-> {d}]} /\ UNCHANGED <<dest, flags>>
            /\ jobs' = [jobs EXCEPT ![s].pc = "local", ![s].todo = {[id |-> d, uid |-> NextUid, seq |-> 0]}, ![s].mod = cids + 1]
    /\ UNCHANGED <<oth, session, fails, client>>

\* Is the session's copy older than the message?
AppendIsNew(s) == jobs[s].mod > st.modseq

\* append_messages: and gets the next number in the session's copy.
AppendLocal(s) ==
    LET i == First(s) IN
    /\ At(s, "local") /\ Done(s)
    /\ st' = IF AppendIsNew(s)
             THEN [st EXCEPT !.total = @ + 1, !.imap[i.id] = [uid |-> i.uid, seq |-> st.total + 1],
                             !.u2i[i.uid] = i.uid, !.max = i.uid]
             ELSE st
    /\ UNCHANGED <<store, oth, open, next, dels, cache, saved, fails, client>>

\* A write fails: the command ends, and what it has written is not logged.
WriteFails(s) ==
    /\ fails < MaxFails /\ jobs[s].pc \in {"write", "seen", "untag", "destroy", "log"}
    /\ fails' = fails + 1 /\ Done(s)
    /\ UNCHANGED <<store, oth, session, client>>

Step(s) ==
    \/ Sync(s) \/ FetchModseq(s) \/ FetchProps(s) \/ Select(s) \/ Report(s) \/ Changes(s) \/ Lookup(s)
    \/ FetchItem(s) \/ SetSeen(s) \/ StoreRead(s) \/ StoreWrite(s) \/ Log(s) \/ Search(s)
    \/ CopyRead(s) \/ CopyWrite(s) \/ FindDeleted(s) \/ ReadLists(s) \/ Untag(s) \/ Destroy(s)
    \/ Deselect(s) \/ AppendInsert(s) \/ AppendLocal(s)

Next ==
    \/ \E o \in Others : OtherWrite(o) \/ OtherLog(o) \/ \E op \in OtherOps, d \in Doc : OtherStart(o, op, d)
    \/ \E cmd \in Commands, by \in {"seq", "uid", "saved"}, n \in Doc : Begin(cmd, by, n)
    \/ \E s \in Slot : Step(s) \/ WriteFails(s)

\* Tasks run on; the client sends a NOOP, or is idle, again and again.  The others wait for
\* the session only where they take turns.
Fairness ==
    /\ \A s \in Slot : WF_vars(Step(s))
    /\ \A o \in Others : SF_vars(OtherWrite(o)) /\ SF_vars(OtherLog(o))
    /\ SF_vars(Begin("noop", "seq", 1)) /\ SF_vars(Begin("select", "seq", 1))

Spec == Init /\ [][Next]_vars /\ Fairness

-------------------------------------------------------------------------------
(* Properties. *)

Agrees(i) == i.seq \in DOMAIN view /\ view[i.seq] = i.uid

\* The numbers of the session's copy, and of the removals it has yet to report, are the
\* client's: EXPUNGE, FETCH and STORE mean the same message to both (write_mailbox_changes).
NumbersAgree == /\ \A d \in Doc : st.imap[d].uid > 0 => Agrees(st.imap[d])
                /\ \A i \in dels : Agrees(i)

\* The responses a command has yet to send carry the numbers the client has now.
ResponsesAgree == \A s \in Slot : jobs[s].pc \in {"item", "read", "write"} => \A i \in jobs[s].todo : Agrees(i)

\* A command works on the messages the client named, by number, by UID or as the saved
\* search (sequence_to_ids).
RightMessage == \A s \in Slot : jobs[s].pc \in {"item", "read", "write"} =>
                    \A i \in jobs[s].todo : i.uid \in jobs[s].meant /\ given[i.uid] = i.id

================================================================================
