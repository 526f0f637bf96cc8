------------------------------ MODULE EventChannel ------------------------------
(***************************************************************************)
(* Events on their way from the threads of the server to the tracers.      *)
(*                                                                         *)
(*   crates/trc/src/ipc/channel.rs     a ring of each thread               *)
(*   crates/trc/src/ipc/collector.rs   the thread that empties the rings   *)
(*   crates/trc/src/ipc/subscriber.rs  batches for a tracer                *)
(*   crates/common/src/telemetry/tracers/store.rs  a tracer                *)
(*                                                                         *)
(* A connection or a delivery attempt is a span: a task that sends a       *)
(* start, events and an end, numbered here.  The flags, the token of park  *)
(* and the rings are shared without locks, so a thread does each in a step *)
(* of its own.                                                             *)
(***************************************************************************)
EXTENDS Integers, FiniteSets, Sequences, SequencesExt

CONSTANTS
    Thread, Span, Tracer,
    Home,        \* the thread the task of a span runs on
    EndNo,       \* the number of the last event of a span; 1 is the first
    Ring,        \* CHANNEL_SIZE
    OverflowMax, \* twice CHANNEL_SIZE
    Room,        \* batches that fit in the channel of a tracer
    MaxBatch,    \* MAX_BATCH_SIZE
    Lossy,       \* the tracers that may lose events
    Errors,      \* the numbers of events of level Error
    Migrate,     \* do tasks move from thread to thread?
    MaxExits, MayStop

EventChannelAssumption ==
    /\ {EndNo, Ring, OverflowMax, Room, MaxBatch} \subseteq Nat \ {0} /\ EndNo >= 2 /\ MaxExits \in Nat
    /\ Home \in [Span -> Thread] /\ Lossy \subseteq Tracer /\ Errors \subseteq 1..EndNo /\ {Migrate, MayStop} \subseteq BOOLEAN

Event == [span : Span, no : 1..EndNo]

VARIABLES
    sent,            \* the last event of a span
    thread,          \* what a thread does: pc, and the event at hand
    ring, overflow,  \* of a thread
    flags, token,    \* CHANNEL_FLAGS: updates to make, events to collect; of park
    updates,         \* COLLECTOR_UPDATES
    pc, at,          \* the collector; the receiver it is at
    receivers, closed,
    spans,           \* active_spans
    batch, channel,  \* of a tracer
    traced,          \* of a tracer: what it has received, its spans and what it stored
    before,          \* what was in the rings when the collector was told to stop
    exits

sender == <<sent, thread, ring, overflow, exits>>
shared == <<flags, token, updates>>
collector == <<pc, at, receivers, closed, spans, batch>>
vars == <<sender, shared, collector, channel, traced, before>>

NoEvent == [span |-> "none", no |-> 0]
NoTrace == [got |-> <<>>, open |-> [s \in Span |-> <<>>], stored |-> [s \in Span |-> <<>>]]

Init ==
    /\ sent = [s \in Span |-> 0]
    /\ thread = [t \in Thread |-> [pc |-> "new", event |-> NoEvent]]
    /\ ring = [t \in Thread |-> <<>>] /\ overflow = [t \in Thread |-> <<>>]
    /\ flags = {} /\ token = FALSE /\ updates = <<>>
    /\ pc = "swap" /\ at = 1 /\ receivers = <<>> /\ closed = {} /\ spans = {}
    /\ batch = [b \in Tracer |-> <<>>] /\ channel = [b \in Tracer |-> <<>>] /\ traced = [b \in Tracer |-> NoTrace]
    /\ before = {} /\ exits = 0

-------------------------------------------------------------------------------
(* A thread: EVENT_TX, Event::send, Sender::send. *)

Goto(t, step) == thread' = [thread EXCEPT ![t].pc = step]

\* The first event of a thread registers its ring with the collector.
Register(t) ==
    /\ thread[t].pc = "new" /\ Goto(t, "mark") /\ updates' = Append(updates, t)
    /\ UNCHANGED <<sent, ring, overflow, exits, flags, token, collector, channel, traced, before>>

Mark(t) ==
    /\ thread[t].pc = "mark" /\ Goto(t, "unpark") /\ flags' = flags \cup {"update"}
    /\ UNCHANGED <<sent, ring, overflow, exits, token, updates, collector, channel, traced, before>>

\* A task sends its next event.
Begin(t, s) ==
    /\ thread[t].pc = "idle" /\ sent[s] < EndNo /\ (Migrate \/ Home[s] = t)
    /\ \A u \in Thread : thread[u].event.span # s
    /\ sent' = [sent EXCEPT ![s] = @ + 1]
    /\ thread' = [thread EXCEPT ![t] = [pc |-> "refill", event |-> [span |-> s, no |-> sent[s] + 1]]]
    /\ UNCHANGED <<ring, overflow, exits, shared, collector, channel, traced, before>>

IsFull(t) == Len(ring[t]) >= Ring

\* Events that did not fit, the last of them first.
Refill(t) ==
    /\ thread[t].pc = "refill"
    /\ IF overflow[t] = <<>> \/ IsFull(t) THEN Goto(t, "push") /\ UNCHANGED <<ring, overflow>>
       ELSE /\ ring' = [ring EXCEPT ![t] = Append(@, Last(overflow[t]))]
            /\ overflow' = [overflow EXCEPT ![t] = Front(@)] /\ UNCHANGED thread
    /\ UNCHANGED <<sent, exits, shared, collector, channel, traced, before>>

\* Is there room in the overflow?
Accepts(t) == Len(overflow[t]) <= OverflowMax

Push(t) ==
    /\ thread[t].pc = "push"
    /\ \/ ~IsFull(t) /\ ring' = [ring EXCEPT ![t] = Append(@, thread[t].event)] /\ Goto(t, "flag") /\ UNCHANGED overflow
       \/ /\ IsFull(t) /\ Accepts(t)
          /\ overflow' = [overflow EXCEPT ![t] = Append(@, thread[t].event)] /\ Goto(t, "flag") /\ UNCHANGED ring
       \/ /\ IsFull(t) /\ ~Accepts(t)
          /\ thread' = [thread EXCEPT ![t] = [pc |-> "idle", event |-> NoEvent]] /\ UNCHANGED <<ring, overflow>>
    /\ UNCHANGED <<sent, exits, shared, collector, channel, traced, before>>

Flag(t) ==
    /\ thread[t].pc = "flag" /\ Goto(t, "unpark") /\ flags' = flags \cup {"events"}
    /\ UNCHANGED <<sent, ring, overflow, exits, token, updates, collector, channel, traced, before>>

\* Mutant: the collector is not woken.
UnparkNot(t) ==
    /\ thread[t].pc = "unpark" /\ thread' = [thread EXCEPT ![t] = [pc |-> "idle", event |-> NoEvent]]
    /\ UNCHANGED <<sent, ring, overflow, exits, shared, collector, channel, traced, before>>

Unpark(t) ==
    /\ thread[t].pc = "unpark" /\ token' = TRUE
    /\ thread' = [thread EXCEPT ![t] = [pc |-> "idle", event |-> NoEvent]]
    /\ UNCHANGED <<sent, ring, overflow, exits, flags, updates, collector, channel, traced, before>>

\* A thread ends: its ring is abandoned, and its overflow lost.
Exit(t) ==
    /\ thread[t].pc = "idle" /\ exits < MaxExits /\ exits' = exits + 1
    /\ Goto(t, "gone") /\ overflow' = [overflow EXCEPT ![t] = <<>>]
    /\ UNCHANGED <<sent, ring, shared, collector, channel, traced, before>>

ThreadStep(t) ==
    Register(t) \/ Mark(t) \/ (\E s \in Span : Begin(t, s)) \/ Refill(t) \/ Push(t) \/ Flag(t) \/ Unpark(t)

-------------------------------------------------------------------------------
(* Collector::collect. *)

Drain(rs, i) == pc' = (IF i > Len(rs) THEN "batches" ELSE "drain") /\ at' = i

Swap ==
    /\ pc = "swap" /\ flags' = {}
    /\ \/ flags = {} /\ pc' = "park" /\ at' = 1
       \/ "update" \in flags /\ pc' = "update" /\ at' = 1
       \/ flags = {"events"} /\ Drain(receivers, 1)
    /\ UNCHANGED <<receivers, closed, spans, batch, sender, token, updates, channel, traced, before>>

\* park returns once it has the token, and may return without.
Park ==
    /\ pc = "park" /\ token' = FALSE /\ Drain(receivers, 1)
    /\ UNCHANGED <<receivers, closed, spans, batch, sender, flags, updates, channel, traced, before>>

\* What comes after a shutdown in the list is dropped.
Update ==
    LET stop == {i \in 1..Len(updates) : updates[i] = "stop"}
        upTo == IF stop = {} THEN Len(updates) ELSE (CHOOSE i \in stop : \A j \in stop : i <= j) - 1
    IN  /\ pc = "update" /\ receivers' = receivers \o SubSeq(updates, 1, upTo)
        /\ updates' = <<>> /\ closed' = IF stop = {} THEN closed ELSE closed \cup {"stop"}
        /\ Drain(receivers', 1) /\ UNCHANGED <<spans, batch, sender, flags, token, channel, traced, before>>

\* active_spans after an event.
SpansAfter(e) ==
    CASE e.no = 1 -> spans \cup {e.span}
      [] e.no = EndNo -> spans \ {e.span}
      [] OTHER -> spans

\* An event goes to every tracer, with its span if that is known (a start has none).
Traced(e) == [event |-> e, span |-> e.no > 1 /\ e.span \in spans]

\* Receiver::try_recv
NextOf(t) == Head(ring[t])

Collect ==
    LET t == receivers[at] IN
    /\ pc = "drain"
    /\ \/ /\ ring[t] # <<>> /\ ring' = [ring EXCEPT ![t] = RemoveFirst(@, NextOf(t))]
          /\ spans' = SpansAfter(NextOf(t))
          /\ batch' = [b \in Tracer |-> Append(batch[b], Traced(NextOf(t)))]
          /\ UNCHANGED <<pc, at, receivers, closed>>
       \/ /\ ring[t] = <<>> /\ closed' = IF thread[t].pc = "gone" THEN closed \cup {t} ELSE closed
          /\ UNCHANGED <<ring, spans, batch, receivers>> /\ Drain(receivers, at + 1)
    /\ UNCHANGED <<sent, thread, overflow, exits, shared, channel, traced, before>>

\* What a tracer's batch becomes when its channel is full.
Kept(b) ==
    IF b \in Lossy /\ Len(batch[b]) > MaxBatch
    THEN LET errors == SelectSeq(batch[b], LAMBDA x : x.event.no \in Errors)
         IN  SubSeq(errors, 1, IF Len(errors) > MaxBatch THEN MaxBatch ELSE Len(errors))
    ELSE batch[b]

\* try_send
Fits(b) == Len(channel[b]) < Room

\* Subscriber::send_batch of every tracer.
SendBatches ==
    /\ pc = "batches"
    /\ channel' = [b \in Tracer |-> IF batch[b] # <<>> /\ Fits(b) THEN Append(channel[b], batch[b]) ELSE channel[b]]
    /\ batch' = [b \in Tracer |-> IF Fits(b) THEN <<>> ELSE Kept(b)]
    /\ receivers' = SelectSeq(receivers, LAMBDA t : t \notin closed)
    /\ closed' = {} /\ at' = 1
    /\ pc' = IF "stop" \in closed THEN "ended" ELSE "swap"
    /\ UNCHANGED <<spans, sender, shared, traced, before>>

CollectorStep == Swap \/ Update \/ Collect \/ SendBatches \/ (token /\ Park)

\* Collector::shutdown: the update and its flag.
Shutdown ==
    /\ MayStop /\ before = {} /\ \A s \in Span : sent[s] > 0
    /\ updates' = Append(updates, "stop")
    /\ flags' = flags \cup {"update"} /\ token' = TRUE
    /\ before' = UNION {ToSet(ring[t]) : t \in Thread} \cup {NoEvent}
    /\ UNCHANGED <<sender, collector, channel, traced>>

-------------------------------------------------------------------------------
(* The tracer that stores spans. *)

StoreEvent(tr, x) ==
    LET s == x.event.span
        tr2 == [tr EXCEPT !.got = Append(@, x.event)]
    IN  CASE ~x.span -> tr2
          [] x.span /\ x.event.no < EndNo -> [tr2 EXCEPT !.open[s] = Append(@, x.event.no)]
          [] OTHER -> IF tr.open[s] = <<>> THEN tr2
                      ELSE [tr2 EXCEPT !.stored[s] = <<1>> \o tr.open[s] \o <<EndNo>>, !.open[s] = <<>>]

Trace(b) ==
    /\ channel[b] # <<>> /\ channel' = [channel EXCEPT ![b] = Tail(@)]
    /\ traced' = [traced EXCEPT ![b] = FoldLeft(StoreEvent, @, Head(channel[b]))]
    /\ UNCHANGED <<sender, shared, collector, before>>

Next ==
    \/ \E t \in Thread : ThreadStep(t) \/ Exit(t)
    \/ CollectorStep \/ Park \/ Shutdown
    \/ \E b \in Tracer : Trace(b)

\* Threads finish what they began, the collector and the tracers run; park needs the token.
Spec ==
    /\ Init /\ [][Next]_vars /\ WF_vars(CollectorStep)
    /\ \A t \in Thread : WF_vars(ThreadStep(t)) /\ \A b \in Tracer : WF_vars(Trace(b))

-------------------------------------------------------------------------------
(* Properties. *)

\* Types; rings, overflows and channels stay within their limits.
TypeOK ==
    /\ \A t \in Thread : ring[t] \in Seq(Event) /\ Len(ring[t]) <= Ring /\ Len(overflow[t]) <= OverflowMax + 1
    /\ \A b \in Tracer : Len(channel[b]) <= Room 
    /\ flags \subseteq {"update", "events"} /\ token \in BOOLEAN /\ spans \subseteq Span /\ closed \subseteq Thread \cup {"stop"}
    /\ pc \in {"swap", "park", "update", "drain", "batches", "ended"} /\ ToSet(receivers) \subseteq Thread

Numbers(b, s) == LET of == SelectSeq(traced[b].got, LAMBDA e : e.span = s) IN [i \in 1..Len(of) |-> of[i].no]

\* A tracer gets the events of a span in the order they were sent (rings, receivers).
InOrder == \A b \in Tracer, s \in Span : \A i \in 1..Len(Numbers(b, s)) - 1 : Numbers(b, s)[i] < Numbers(b, s)[i + 1]

\* What was in a ring when the collector was told to stop is with the tracers when it has stopped.
FinalFlush ==
    pc = "ended" => \A b \in Tracer, e \in before \ {NoEvent} :
        \/ e \in ToSet(traced[b].got)
        \/ \E i \in 1..Len(channel[b]) : \E x \in ToSet(channel[b][i]) : x.event = e

\* What tasks send reaches every tracer in the end: no wake-up of the collector is lost.
AllGot == \A b \in Tracer : Event \subseteq ToSet(traced[b].got)
================================================================================
