----------------------------- MODULE TraceFeed -----------------------------
(***************************************************************************)
(* The live query graph: the bounded trace store and broadcaster of        *)
(* src/middleware/graph_observer.py (TraceHub), the SSE endpoint of        *)
(* graph_api.py and the browser client of static/graph/graph.js.           *)
(*                                                                         *)
(* Queries publish deltas; the hub keeps each query's trace, a bounded     *)
(* replay log and a bounded queue per subscriber, and evicts whole traces  *)
(* by age, by count and by size.  A browser reconnects with the id of the  *)
(* last event it received, and reloads a trace by a GET of its snapshot.   *)
(* The hub's lock is held through a call, but the queues are drained, and  *)
(* reset_required is read, without it.                                     *)
(*                                                                         *)
(* An event is its number: `event` holds what every number stood for, and  *)
(* the log, the queues and the connections hold numbers.                   *)
(***************************************************************************)
EXTENDS Integers, SequencesExt

CONSTANTS
    Queries,      \* query ids
    Elements,     \* node and edge ids of a trace
    Browsers,     \* open graph pages, each with at most one EventSource
    Selecting,    \* those whose user selects traces (a GET of the snapshot)
    TraceLimit, ElementLimit, LogLimit, QueueLimit, \* limits of the hub
    WireLimit,    \* bound: events in flight on one connection
    MaxEvents,    \* bound: events after which nothing more is published
    MaxFaults,    \* bound: connections and snapshot responses lost
    Nobody        \* no trace is selected, or awaited

ASSUME ConstantsAssumption ==
    /\ Selecting \subseteq Browsers /\ Nobody \notin Queries
    /\ {TraceLimit, ElementLimit, LogLimit, QueueLimit, WireLimit} \subseteq Nat \ {0}
    /\ MaxEvents \in Nat /\ MaxFaults \in Nat

NoTrace == [known |-> FALSE, items |-> [e \in Elements |-> 0], complete |-> FALSE]
Traces == [known : BOOLEAN, items : [Elements -> Nat], complete : BOOLEAN]
Deltas == [query : Queries, op : {"upsert"}, seq : Nat, item : Elements]
          \cup [query : Queries, op : {"trace_complete", "trace_evicted"}, seq : Nat]
Fetches == [query : Queries, stage : {"asked", "answered"}, found : Traces]
Phases == {"down", "joined", "live", "taking", "resetting", "ended"}

VARIABLES
    \* the hub
    event,    \* the deltas appended so far; its indices are the event ids
    traces,   \* _traces: what is stored of each query
    next,     \* next_sequence of each stored trace
    age,      \* the order of _traces, least recently updated first
    log,      \* _events: the ids kept for replay
    floor,    \* _replay_floor
    \* the SSE endpoint, for each browser's connection
    phase, queue, lost, \* where the handler is; subscriber queue; reset_required
    outbox, latest,     \* ids still to replay; the id last sent
    wire,               \* sent and not yet received
    \* the browser
    seen, pending, view, active, fetch,
    whole,    \* browsers never told to start over (history)
    faults

hub == <<event, traces, next, age, log, floor>>
server == <<phase, queue, lost, outbox, latest>>
page == <<seen, pending, view, active, fetch, whole>>
vars == <<hub, server, wire, page, faults>>

Newest == Len(event)
Lowest(S) == CHOOSE n \in S : \A m \in S : n <= m
Highest(S) == CHOOSE n \in S : \A m \in S : m <= n

Init ==
    /\ event = <<>> /\ log = {} /\ floor = 0
    /\ traces = [q \in Queries |-> NoTrace]
    /\ next = [q \in Queries |-> 0]
    /\ age = <<>>
    /\ phase = [b \in Browsers |-> "down"]
    /\ queue = [b \in Browsers |-> {}]
    /\ lost = [b \in Browsers |-> FALSE]
    /\ outbox = [b \in Browsers |-> {}]
    /\ latest = [b \in Browsers |-> 0]
    /\ wire = [b \in Browsers |-> <<>>]
    /\ seen = [b \in Browsers |-> 0]
    /\ pending = [b \in Browsers |-> <<>>]
    /\ view = [b \in Browsers |-> [q \in Queries |-> NoTrace]]
    /\ active = [b \in Browsers |-> Nobody]
    /\ fetch = [b \in Browsers |-> Nobody]
    /\ whole = Browsers
    /\ faults = 0

-----------------------------------------------------------------------------
(* The hub.  A call holds the lock to its end, and only publish takes more   *)
(* than one step: it evicts while the hub is over its limits.               *)

Stored == {qe \in Queries \X Elements : traces[qe[1]].items[qe[2]] # 0}

Free ==
    \/ age = <<>>
    \/ Len(age) <= TraceLimit /\ Cardinality(Stored) <= ElementLimit

Subscribed(b) == phase[b] \notin {"down", "ended"}

\* _append_event: number the delta, log it (the deque drops its oldest, which
\* the floor remembers) and offer it to every subscriber not already lost.
AppendEvent(delta, kept, base) ==
    LET id == Newest + 1
        over == Cardinality(kept) = LogLimit
        fits(b) == Cardinality(queue[b]) < QueueLimit
        told(b) == Subscribed(b) /\ ~lost[b]
    IN /\ event' = Append(event, delta)
       /\ log' = (IF over THEN kept \ {Lowest(kept)} ELSE kept) \cup {id}
       /\ floor' = IF over /\ Lowest(kept) > base THEN Lowest(kept) ELSE base
       /\ queue' = [b \in Browsers |->
                       IF told(b) /\ fits(b) THEN queue[b] \cup {id} ELSE queue[b]]
       /\ lost' = [b \in Browsers |-> lost[b] \/ (told(b) /\ ~fits(b))]

\* _evict_trace: the trace, and every logged event of its query, are gone.
Evict(q) ==
    LET dropped == {i \in log : event[i].query = q}
        base == IF dropped # {} /\ Highest(dropped) > floor THEN Highest(dropped) ELSE floor
    IN /\ traces' = [traces EXCEPT ![q] = NoTrace]
       /\ next' = [next EXCEPT ![q] = 0]
       /\ age' = RemoveFirst(age, q)
       /\ AppendEvent([query |-> q, op |-> "trace_evicted", seq |-> next[q]],
                      log \ dropped, base)

\* _evict_expired, with which every call begins (list_traces and health do
\* little else): the least recently updated trace has expired.
Expire ==
    /\ Free /\ age # <<>>
    /\ Evict(Head(age))
    /\ UNCHANGED <<phase, outbox, latest, wire, page, faults>>

\* publish after the expiry, of the deltas the query pipeline emits (none is a
\* "remove"): _apply, _store_delta, move_to_end, _append_event.
Store(q, delta, items, complete) ==
    /\ Free /\ Newest < MaxEvents
    /\ traces' = [traces EXCEPT ![q] = [known |-> TRUE, items |-> items, complete |-> complete]]
    /\ next' = [next EXCEPT ![q] = @ + 1]
    /\ age' = Append(RemoveFirst(age, q), q)
    /\ AppendEvent(delta, log, floor)
    /\ UNCHANGED <<phase, outbox, latest, wire, page, faults>>

PublishUpsert(q, e) ==
    Store(q, [query |-> q, op |-> "upsert", item |-> e, seq |-> next[q]],
          [traces[q].items EXCEPT ![e] = Newest + 1], traces[q].complete)

\* A query first publishes the node of its question; an error after its answer
\* completes its trace once more.
PublishComplete(q) ==
    /\ \E i \in 1..Newest : event[i].query = q /\ event[i].op = "upsert"
    /\ Store(q, [query |-> q, op |-> "trace_complete", seq |-> next[q]], traces[q].items, TRUE)

\* _enforce_limits: whole traces go, least recently updated first -- the
\* publishing query's own when it alone is too large.
Enforce ==
    /\ ~Free
    /\ Evict(Head(age))
    /\ UNCHANGED <<phase, outbox, latest, wire, page, faults>>

-----------------------------------------------------------------------------
(* GET /graph/api/events.                                                   *)

\* Mutant: the page asks from the event after the one it wants.
ConnectPast(b) ==
    /\ phase[b] = "down" /\ Free
    /\ phase' = [phase EXCEPT ![b] = "joined"]
    /\ latest' = [latest EXCEPT ![b] = seen[b] + 1]
    /\ UNCHANGED <<hub, queue, lost, outbox, wire, page, faults>>

\* connect() opens an EventSource; the handler subscribes first ...
Connect(b) ==
    /\ phase[b] = "down" /\ Free
    /\ phase' = [phase EXCEPT ![b] = "joined"]
    /\ latest' = [latest EXCEPT ![b] = seen[b]]
    /\ UNCHANGED <<hub, queue, lost, outbox, wire, page, faults>>

\* Mutant: only the ends of the log are compared, not what eviction took from it.
GoneByEnds(n) == IF log = {} THEN n > 0 ELSE n < Lowest(log) - 1 \/ n > Highest(log)

\* ... and then asks what it missed (events_since).
Gone(n) ==
    IF log = {} THEN n > 0
    ELSE n < floor \/ n < Lowest(log) - 1 \/ n > Highest(log)

AskSince(b) ==
    /\ phase[b] = "joined" /\ Free
    /\ phase' = [phase EXCEPT ![b] = IF Gone(latest[b]) THEN "resetting" ELSE "live"]
    /\ outbox' = [outbox EXCEPT ![b] =
                      IF Gone(latest[b]) THEN {} ELSE {i \in log : i > latest[b]}]
    /\ UNCHANGED <<hub, queue, lost, latest, wire, page, faults>>

Send(b, id, reset) ==
    /\ Len(wire[b]) < WireLimit
    /\ wire' = [wire EXCEPT ![b] = Append(@, [id |-> id, reset |-> reset])]

Replay(b) ==
    /\ phase[b] = "live" /\ outbox[b] # {}
    /\ Send(b, Lowest(outbox[b]), FALSE)
    /\ latest' = [latest EXCEPT ![b] = Lowest(outbox[b])]
    /\ outbox' = [outbox EXCEPT ![b] = @ \ {Lowest(outbox[b])}]
    /\ UNCHANGED <<hub, phase, queue, lost, page, faults>>

\* Mutant: reset_required is not looked at.
CheckNothing(b) ==
    /\ phase[b] = "live" /\ outbox[b] = {}
    /\ phase' = [phase EXCEPT ![b] = "taking"]
    /\ UNCHANGED <<hub, queue, lost, outbox, latest, wire, page, faults>>

\* The top of the loop reads reset_required without the lock; the queue may
\* overflow between this test and the get().  A lost subscriber's flag is
\* cleared and its queue drained before the reset event is made.
Check(b) ==
    /\ phase[b] = "live" /\ outbox[b] = {}
    /\ phase' = [phase EXCEPT ![b] = IF lost[b] THEN "resetting" ELSE "taking"]
    /\ queue' = [queue EXCEPT ![b] = IF lost[b] THEN {} ELSE @]
    /\ lost' = [lost EXCEPT ![b] = FALSE]
    /\ UNCHANGED <<hub, outbox, latest, wire, page, faults>>

\* queue.get(): what the replay has already sent is skipped.
Take(b) ==
    /\ phase[b] = "taking" /\ queue[b] # {}
    /\ LET id == Lowest(queue[b])
       IN /\ queue' = [queue EXCEPT ![b] = @ \ {id}]
          /\ IF id <= latest[b] THEN UNCHANGED <<latest, wire>>
             ELSE Send(b, id, FALSE) /\ latest' = [latest EXCEPT ![b] = id]
    /\ phase' = [phase EXCEPT ![b] = "live"]
    /\ UNCHANGED <<hub, lost, outbox, page, faults>>

\* _reset_event carries the id of the newest event; the stream then returns
\* and its `finally` unsubscribes.
SendReset(b) ==
    /\ phase[b] = "resetting" /\ Free
    /\ Send(b, IF log = {} THEN 0 ELSE Highest(log), TRUE)
    /\ phase' = [phase EXCEPT ![b] = "ended"]
    /\ UNCHANGED <<hub, queue, lost, outbox, latest, page, faults>>

\* The server closes the stream, or the connection is lost with what it
\* carried; the browser's onerror schedules a reconnection.
Hangup(b) ==
    /\ phase' = [phase EXCEPT ![b] = "down"]
    /\ queue' = [queue EXCEPT ![b] = {}]
    /\ lost' = [lost EXCEPT ![b] = FALSE]
    /\ outbox' = [outbox EXCEPT ![b] = {}]
    /\ latest' = [latest EXCEPT ![b] = 0]
    /\ wire' = [wire EXCEPT ![b] = <<>>]
    /\ UNCHANGED <<hub, page>>

Closed(b) == phase[b] = "ended" /\ wire[b] = <<>> /\ Hangup(b) /\ UNCHANGED faults

Disconnect(b) ==
    /\ Free /\ phase[b] # "down"
    /\ faults < MaxFaults /\ faults' = faults + 1
    /\ Hangup(b)

-----------------------------------------------------------------------------
(* The page.                                                                *)

\* Mutant: an evicted trace is emptied, but its entry stays in the store.
IngestEmptied(shown, i) ==
    LET d == event[i]
        known == [shown[d.query] EXCEPT !.known = TRUE]
    IN [shown EXCEPT ![d.query] =
           CASE d.op = "trace_evicted"  -> [known EXCEPT !.items = NoTrace.items]
             [] d.op = "trace_complete" -> [known EXCEPT !.complete = TRUE]
             [] d.op = "upsert"         -> [known EXCEPT !.items[d.item] = i]]

\* GS.ingest over GS.applyDelta: an upsert older than what is shown is stale.
Ingest(shown, i) ==
    LET d == event[i]
        known == [shown[d.query] EXCEPT !.known = TRUE]
        stale == known.items[d.item] # 0 /\ d.seq <= event[known.items[d.item]].seq
    IN [shown EXCEPT ![d.query] =
           CASE d.op = "trace_evicted"  -> NoTrace
             [] d.op = "trace_complete" -> [known EXCEPT !.complete = TRUE]
             [] d.op = "upsert"         -> IF stale THEN known
                                           ELSE [known EXCEPT !.items[d.item] = i]]

\* onStreamEvent: remember the id; queue the delta for the next frame, or, on
\* a reset, reload the selected trace.
Receive(b) ==
    /\ wire[b] # <<>>
    /\ LET e == Head(wire[b])
       IN /\ seen' = [seen EXCEPT ![b] = e.id]
          /\ IF e.reset
             THEN /\ fetch[b] = Nobody
                  /\ whole' = whole \ {b}
                  /\ fetch' = [fetch EXCEPT ![b] =
                        IF active[b] = Nobody THEN Nobody
                        ELSE [query |-> active[b], stage |-> "asked", found |-> NoTrace]]
                  /\ UNCHANGED pending
             ELSE /\ pending' = [pending EXCEPT ![b] = Append(@, e.id)]
                  /\ UNCHANGED <<whole, fetch>>
    /\ wire' = [wire EXCEPT ![b] = Tail(@)]
    /\ UNCHANGED <<hub, server, view, active, faults>>

\* scheduleFlush: one animation frame ingests the whole batch.
Flush(b) ==
    /\ pending[b] # <<>>
    /\ view' = [view EXCEPT ![b] = FoldLeft(Ingest, @, pending[b])]
    /\ pending' = [pending EXCEPT ![b] = <<>>]
    /\ UNCHANGED <<hub, server, wire, seen, active, fetch, whole, faults>>

\* selectTrace: the user, or `follow`, selects a trace and asks for its snapshot
\* (once: a bound).
Select(b, q) ==
    /\ b \in Selecting /\ fetch[b] = Nobody /\ active[b] = Nobody /\ traces[q].known
    /\ active' = [active EXCEPT ![b] = q]
    /\ fetch' = [fetch EXCEPT ![b] = [query |-> q, stage |-> "asked", found |-> NoTrace]]
    /\ UNCHANGED <<hub, server, wire, seen, pending, view, whole, faults>>

\* TraceHub.snapshot.
Snapshot(b) ==
    /\ fetch[b] # Nobody /\ fetch[b].stage = "asked" /\ Free
    /\ fetch' = [fetch EXCEPT ![b].stage = "answered", ![b].found = traces[fetch[b].query]]
    /\ UNCHANGED <<hub, server, wire, seen, pending, view, active, whole, faults>>

\* The response replaces what the page showed of the trace; a 404 or a failed
\* request keeps it.
Show(b) ==
    /\ fetch[b] # Nobody /\ fetch[b].stage = "answered"
    /\ \/ /\ view' = IF fetch[b].found.known
                     THEN [view EXCEPT ![b][fetch[b].query] = fetch[b].found] ELSE view
          /\ UNCHANGED faults
       \/ faults < MaxFaults /\ faults' = faults + 1 /\ UNCHANGED view
    /\ fetch' = [fetch EXCEPT ![b] = Nobody]
    /\ UNCHANGED <<hub, server, wire, seen, pending, active, whole>>

-----------------------------------------------------------------------------
ServerStep(b) ==
    \/ Connect(b) \/ AskSince(b) \/ Replay(b) \/ Check(b)
    \/ Take(b) \/ SendReset(b) \/ Closed(b)

PageStep(b) == Receive(b) \/ Flush(b) \/ Snapshot(b) \/ Show(b)

Next ==
    \/ \E q \in Queries : PublishComplete(q) \/ \E e \in Elements : PublishUpsert(q, e)
    \/ Expire \/ Enforce
    \/ \E b \in Browsers :
         ServerStep(b) \/ PageStep(b) \/ Disconnect(b)
         \/ \E q \in Queries : Select(b, q)

Spec == Init /\ [][Next]_vars

-----------------------------------------------------------------------------
TypeOK ==
    /\ event \in Seq(Deltas)
    /\ traces \in [Queries -> Traces] /\ next \in [Queries -> Nat] /\ age \in Seq(Queries)
    /\ log \subseteq 1..Newest /\ floor \in 0..Newest
    /\ phase \in [Browsers -> Phases]
    /\ queue \in [Browsers -> SUBSET (1..Newest)] /\ outbox \in [Browsers -> SUBSET (1..Newest)]
    /\ lost \in [Browsers -> BOOLEAN]
    /\ latest \in [Browsers -> 0..Newest] /\ seen \in [Browsers -> 0..Newest]
    /\ wire \in [Browsers -> Seq([id : 0..Newest, reset : BOOLEAN])]
    /\ pending \in [Browsers -> Seq(1..Newest)]
    /\ view \in [Browsers -> [Queries -> Traces]]
    /\ active \in [Browsers -> Queries \cup {Nobody}]
    /\ fetch \in [Browsers -> Fetches \cup {Nobody}]
    /\ whole \subseteq Browsers /\ faults \in 0..MaxFaults

-----------------------------------------------------------------------------
Feed == INSTANCE EventFeed WITH Readers <- Browsers, logged <- Newest, got <- seen

\* Across reconnections, evictions and overflowing queues a page receives every
\* event once and in order, or is told to start over (graph_api.events).
KeepsItsPromise == Feed!Spec

\* Nothing is under way between the hub and the page.
Quiet(b) ==
    /\ Free /\ phase[b] \in {"live", "taking"} /\ ~lost[b] /\ outbox[b] = {}
    /\ queue[b] = {} /\ wire[b] = <<>> /\ pending[b] = <<>> /\ fetch[b] = Nobody

\* A page that was never reset and never reloaded a trace shows, when nothing is
\* under way, exactly the traces the hub stores -- whatever was evicted, stored
\* again under the same query id, replayed or sent twice (graph.js ingest).
QuietPageIsExact ==
    \A b \in whole : Quiet(b) /\ active[b] = Nobody => view[b] = traces

\* The holder of the lock finishes its call; a handler or a page that waits for
\* the lock, however often others take it first, gets its turn in the end.
Fairness ==
    /\ WF_vars(Enforce)
    /\ \A b \in Browsers : /\ WF_vars(ServerStep(b)) /\ WF_vars(Receive(b))
                           /\ WF_vars(Flush(b)) /\ WF_vars(Snapshot(b)) /\ WF_vars(Show(b))

LiveSpec == Spec /\ Fairness

\* A page is never left behind: after the last event it has received the newest.
CatchesUp == \A b \in Browsers : <>[](seen[b] = Newest)

=============================================================================
