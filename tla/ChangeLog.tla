------------------------------- MODULE ChangeLog -------------------------------
(***************************************************************************)
(* The change log of an account: change ids, the log, what changed since a *)
(* state, and a JMAP client that follows it.                               *)
(*                                                                         *)
(*   crates/utils/src/snowflake.rs       change ids                        *)
(*   crates/common/src/core.rs           assign, commit and delete changes *)
(*   crates/store/src/query/log.rs       the changes of a range, compacted *)
(*   crates/jmap/src/changes/{get,query,state}.rs   the requests           *)
(***************************************************************************)
EXTENDS Integers, FiniteSets, Sequences, SequencesExt

CONSTANTS
    NumItems, NumNodes, NumWriters, \* objects; nodes; requests at a time on each node
    SeqLen,     \* 2^SEQUENCE_LEN
    MaxChanges, \* writes
    MaxTime,    \* milliseconds
    PageSize,   \* max_changes, 0 for no limit
    Clients,    \* what the client follows: its copy, a query
    Mutable,    \* does the query depend on what changes?
    Serial,     \* one request at a time?
    Reuse,      \* is the id of a destroyed object used again (random_available_id)?
    Truncates   \* is the log ever truncated?

LogAssumption ==
    /\ {NumItems, NumNodes, NumWriters, SeqLen, MaxTime} \subseteq Nat \ {0}
    /\ {MaxChanges, PageSize} \subseteq Nat /\ Clients \subseteq {"copy", "query"}
    /\ {Mutable, Serial, Reuse, Truncates} \subseteq BOOLEAN

Item == 1..NumItems
Node == 0..(NumNodes - 1)
Writer == Node \X (1..NumWriters)

VARIABLES
    clock, seq,  \* milliseconds; the sequence counter of each node
    items,       \* the version of each object, 0 if it does not exist
    log,         \* the entries of the log, in the order of their ids
    writer,      \* the requests that change something
    writes,      \* how many there were
    drawn,       \* the ids drawn, in order
    past,        \* the objects as of each state
    state, copy, \* the client: its state and its copy
    fetch,       \* what it is about to fetch
    qstate, list, \* a query's state, and its result
    answer       \* changes read for a query whose result is not yet read

data == <<items, log, writes, past>>
ids == <<clock, seq, drawn>>
client == <<state, copy, fetch>>
query == <<qstate, list, answer>>
vars == <<ids, data, writer, client, query>>

NoWriter == [pc |-> "none", op |-> "none", item |-> 0, time |-> 0, cid |-> 0]
Initial == [kind |-> "initial"]
Exact(c) == [kind |-> "exact", id |-> c]
NoAnswer == [state |-> Initial, list |-> <<>>]
NoFetch == [pc |-> "none", ids |-> {}]

Init ==
    /\ clock = 1 /\ seq = [n \in Node |-> 0] /\ drawn = <<>>
    /\ items = [i \in Item |-> 0] /\ log = <<>> /\ writer = [w \in Writer |-> NoWriter] /\ writes = 0
    /\ past = {[cid |-> 0, items |-> items]}
    /\ state = Initial /\ copy = items /\ fetch = NoFetch /\ qstate = Initial /\ list = <<>>
    /\ answer = NoAnswer

-------------------------------------------------------------------------------
(* The log. *)

\* Changes::deserialize: deletion after creation is nothing, and hides updates.
AddDelete(cs, id) ==
    IF Contains(cs, <<"ins", id>>) THEN SelectSeq(cs, LAMBDA c : c # <<"ins", id>>)
    ELSE Append(SelectSeq(cs, LAMBDA c : c # <<"upd", id>>), <<"del", id>>)

\* An update after creation is not counted; a later update moves to the end.
AddUpdate(cs, id) ==
    IF Contains(cs, <<"ins", id>>) THEN cs
    ELSE Append(SelectSeq(cs, LAMBDA c : c # <<"upd", id>>), <<"upd", id>>)

AddEntry(cs, e) ==
    CASE e.op = "ins" -> Append(cs, <<"ins", e.item>>)
      [] e.op = "upd" -> AddUpdate(cs, e.item)
      [] OTHER -> AddDelete(cs, e.item)

\* Store::changes: the entries of a range, in the order of their ids, compacted, and the
\* ids of the first and the last one that count.
Step(acc, e) ==
    [list |-> AddEntry(acc.list, e), from |-> IF acc.list = <<>> THEN e.cid ELSE acc.from, to |-> e.cid]
ChangesIn(from, to, isLast) ==
    LET entries == SelectSeq(log, LAMBDA e : e.cid >= from /\ (isLast \/ e.cid <= to))
        res == FoldLeft(Step, [list |-> <<>>, from |-> 0, to |-> 0], entries)
    IN IF res.list = <<>> THEN [res EXCEPT !.from = from - 1, !.to = IF isLast THEN from - 1 ELSE to] ELSE res
Since(c) == ChangesIn(c + 1, 0, TRUE)

\* get_state
LastState == IF log = <<>> THEN Initial ELSE Exact(Last(log).cid)

-------------------------------------------------------------------------------
(* Changing something. *)

\* Other requests wait if requests come one at a time.
Free == Serial => fetch.pc # "state" /\ \A w \in Writer : writer[w] = NoWriter

\* SnowflakeIdGenerator::generate: the time is read,
Begin(w, op, i) ==
    /\ writer[w] = NoWriter /\ writes < MaxChanges /\ Free
    /\ (op = "ins") <=> (items[i] = 0)
    /\ \A v \in Writer : writer[v].item # i
    /\ op = "ins" => Reuse \/ \A e \in ToSet(log) : e.item # i
    /\ writes' = writes + 1
    /\ writer' = [writer EXCEPT ![w] = [NoWriter EXCEPT !.pc = "draw", !.op = op, !.item = i, !.time = clock]]
    /\ UNCHANGED <<ids, items, log, past, client, query>>

\* then the sequence; both and the node make the id.
IdOf(time, node, s) == (time * NumNodes + node) * SeqLen + (s % SeqLen)

NextSeq(s) == s + 1

Draw(w) ==
    LET cid == IdOf(writer[w].time, w[1], seq[w[1]]) IN
    /\ writer[w].pc = "draw" /\ seq' = [seq EXCEPT ![w[1]] = NextSeq(@)] /\ drawn' = Append(drawn, cid)
    /\ writer' = [writer EXCEPT ![w].pc = "write", ![w].cid = cid]
    /\ UNCHANGED <<clock, data, client, query>>

\* Entries with one id replace each other.
Logged(w) ==
    LET c == writer[w].cid IN
    SelectSeq(log, LAMBDA e : e.cid < c) \o <<[cid |-> c, op |-> writer[w].op, item |-> writer[w].item]>>
        \o SelectSeq(log, LAMBDA e : e.cid > c)
\* What ChangesExact compares with.
Remember(w, its) == past' = IF Clients # {} THEN past ELSE {p \in past : p.cid # writer[w].cid} \cup {[cid |-> writer[w].cid, items |-> its]}

\* An insertion is logged with the batch that makes it, other changes by commit_changes.
Write(w) ==
    LET i == writer[w].item
        its == [items EXCEPT ![i] = IF writer[w].op = "del" THEN 0 ELSE Len(drawn)]
    IN /\ writer[w].pc = "write" /\ items' = its
       /\ IF writer[w].op = "ins"
          THEN log' = Logged(w) /\ Remember(w, its) /\ writer' = [writer EXCEPT ![w] = NoWriter]
          ELSE writer' = [writer EXCEPT ![w].pc = "commit"] /\ UNCHANGED <<log, past>>
       /\ UNCHANGED <<ids, writes, client, query>>

CommitChanges(w) ==
    /\ writer[w].pc = "commit" /\ log' = Logged(w) /\ Remember(w, items)
    /\ writer' = [writer EXCEPT ![w] = NoWriter]
    /\ UNCHANGED <<ids, items, writes, client, query>>

\* delete_changes: entries older than the history that is kept.
DeleteChanges ==
    /\ Truncates /\ \E t \in 1..clock : log' = SelectSeq(log, LAMBDA e : e.cid >= IdOf(t, 0, 0)) /\ log' # log
    /\ UNCHANGED <<ids, items, writes, past, writer, client, query>>

Tick == clock < MaxTime /\ clock' = clock + 1 /\ UNCHANGED <<seq, drawn, data, writer, client, query>>

-------------------------------------------------------------------------------
(* The client. *)

\* Email/get for everything: which messages there are,
GetIds ==
    /\ "copy" \in Clients /\ fetch = NoFetch /\ Free /\ fetch' = [pc |-> "state", ids |-> {i \in Item : items[i] > 0}]
    /\ UNCHANGED <<ids, data, writer, state, copy, query>>

\* the state,
GetState ==
    /\ fetch.pc = "state" /\ state' = LastState /\ fetch' = [fetch EXCEPT !.pc = "all"]
    /\ UNCHANGED <<ids, data, writer, copy, query>>

\* and the messages: of all of them, or of those that changed.
Fetch ==
    /\ fetch.pc \in {"all", "changed"} /\ fetch' = NoFetch
    /\ copy' = [i \in Item |-> IF i \in fetch.ids THEN items[i] ELSE IF fetch.pc = "all" THEN 0 ELSE copy[i]]
    /\ UNCHANGED <<ids, data, writer, state, query>>

\* The changes since a state, and how many of them the client has.
Pending(s) ==
    CASE s.kind = "initial" -> [sent |-> 0, log |-> ChangesIn(0, 0, TRUE)]
      [] s.kind = "exact" -> [sent |-> 0, log |-> Since(s.id)]
      [] OTHER -> LET range == ChangesIn(s.from, s.to, FALSE) IN
                  IF s.sent >= Len(range.list) THEN [sent |-> 0, log |-> Since(s.to)]
                  ELSE [sent |-> s.sent, log |-> [range EXCEPT !.list = SubSeq(@, 1, Len(@) - s.sent)]]

\* Mutant: the page is forgotten in the state.
PageStateExact(p) == Exact(p.log.to)

PageState(p) == [kind |-> "inter", from |-> p.log.from, to |-> p.log.to, sent |-> p.sent + PageSize]

\* The last changes first, as many as fit.
Page(p, size) ==
    LET all == p.log.list
        more == size > 0 /\ Len(all) > size
    IN [list |-> IF more THEN SubSeq(all, Len(all) - size + 1, Len(all)) ELSE all,
        state |-> IF more THEN PageState(p) ELSE IF all = <<>> /\ log = <<>> THEN Initial ELSE Exact(p.log.to)]

Of(cs, kind) == {c[2] : c \in {d \in ToSet(cs) : d[1] = kind}}

\* Foo/changes; the client fetches what was created or updated.
Changes ==
    /\ "copy" \in Clients /\ fetch = NoFetch
    /\ \E page \in {Page(Pending(state), PageSize)} :
        LET new == Of(page.list, "ins") \cup Of(page.list, "upd") IN
        /\ state' = page.state
        /\ copy' = [i \in Item |-> IF i \in Of(page.list, "del") THEN 0 ELSE copy[i]]
        /\ fetch' = IF new = {} THEN NoFetch ELSE [pc |-> "changed", ids |-> new]
    /\ UNCHANGED <<ids, data, writer, query>>

\* The result of a query: by a property that changes with every write, or one that never does.
Matches(i) == items[i] > 0 /\ (IF Mutable THEN items[i] % 2 = 1 ELSE i > 1)
Result == SelectSeq([i \in Item |-> i], Matches)

\* What a query's result loses: objects destroyed and, if they may have left it, updated ones.
Removed(cs) == Of(cs, "del") \cup (IF Mutable THEN Of(cs, "upd") ELSE {})

\* and gains, each at its index.
Added(cs) == {k \in DOMAIN Result : Result[k] \in Of(cs, "ins") \cup (IF Mutable THEN Of(cs, "upd") ELSE {})}

\* Foo/queryChanges: what changed,
ReadChanges ==
    /\ "query" \in Clients /\ answer = NoAnswer /\ Page(Pending(qstate), 0).list # <<>>
    /\ answer' = Page(Pending(qstate), 0)
    /\ UNCHANGED <<ids, data, writer, client, qstate, list>>

\* then the result; the client takes out what is removed and puts in what is added.
QueryChanges ==
    LET left == SelectSeq(list, LAMBDA i : i \notin Removed(answer.list))
        Put(l, k) == IF k <= Len(l) + 1 THEN InsertAt(l, k, Result[k]) ELSE Append(l, Result[k])
    IN /\ answer # NoAnswer /\ qstate' = answer.state /\ answer' = NoAnswer
       /\ list' = FoldLeft(Put, left, SelectSeq([k \in DOMAIN Result |-> k], LAMBDA k : k \in Added(answer.list)))
       /\ UNCHANGED <<ids, data, writer, client>>

-------------------------------------------------------------------------------

WriterStep(w) == Draw(w) \/ Write(w) \/ CommitChanges(w)

Next ==
    \/ \E w \in Writer : WriterStep(w) \/ \E op \in {"ins", "upd", "del"}, i \in Item : Begin(w, op, i)
    \/ DeleteChanges \/ Tick \/ GetIds \/ GetState \/ Fetch \/ Changes \/ ReadChanges \/ QueryChanges

\* Requests end, and the client asks for changes again and again.
Spec == /\ Init /\ [][Next]_vars /\ \A w \in Writer : WF_vars(WriterStep(w))
        /\ WF_vars(GetState) /\ WF_vars(Fetch) /\ WF_vars(Changes) /\ WF_vars(ReadChanges) /\ WF_vars(QueryChanges)

-------------------------------------------------------------------------------
(* Properties. *)

\* Types.
TypeOK ==
    /\ clock \in 1..MaxTime /\ seq \in [Node -> Nat] /\ items \in [Item -> Nat]
    /\ \A e \in ToSet(log) : e.op \in {"ins", "upd", "del"} /\ e.item \in Item /\ e.cid \in Nat \ {0}
    /\ copy \in [Item -> Nat] /\ state.kind \in {"initial", "exact", "inter"}
    /\ fetch.pc \in {"none", "state", "all", "changed"} /\ IsInjective(list) /\ ToSet(list) \subseteq Item

\* What is reported since any earlier state is what changed since: nothing of an object that
\* came and went, one change of any other (Changes::deserialize).
ChangesExact ==
    (\A w \in Writer : writer[w].pc # "commit") =>
    \A p \in past : LET cs == (IF p.cid = 0 THEN ChangesIn(0, 0, TRUE) ELSE Since(p.cid)).list IN
        /\ IsInjective(cs)
        /\ \A i \in Item : {c[1] : c \in {d \in ToSet(cs) : d[2] = i}} \in
              CASE items[i] = p.items[i] -> {{}}
                [] p.items[i] = 0 -> {{"ins"}}
                [] items[i] = 0 -> {{"del"}}
                [] OTHER -> {{"upd"}, {"ins", "del"}}

================================================================================
