----------------------------- MODULE NewsCursors -----------------------------
(***************************************************************************)
(* Company news by ticker: the incremental passes of the scheduler         *)
(* (src/scheduler/__init__.py, _run_sources) and the bounded refreshes of  *)
(* the query process (run_bounded_security_refresh) drive the same adapter *)
(* (src/ingestion/finnhub_ingestor.py) and share its cursors in SQLite.    *)
(*                                                                         *)
(* A fetch asks for the window [cursor - overlap, today], whole days, page *)
(* by page, stores what comes and moves the cursor to the newest article   *)
(* stored, once all is stored.  The provider is external: it lists an      *)
(* article at most Late ticks after its timestamp and Ahead before it.     *)
(* Quotas, retries and cooldowns are ProviderBudget's; here a request      *)
(* succeeds or fails, and a pass may run out of requests.                  *)
(***************************************************************************)
EXTENDS Integers, FiniteSets, Sequences, SequencesExt

CONSTANTS
    Articles, Published, Of,  \* an article's timestamp and ticker
    Malformed,                \* articles no record can be made of
    Tickers,                  \* the coverage, in order of name: a sequence
    NoCursor,
    Day, Overlap,             \* ticks of a day, and overlap_hours
    Lookback,                 \* initial_lookback_days, of each process
    Late, Ahead,
    PageSize, MaxPages,
    WorkLimit, RequestLimit,  \* max_work_items_per_run, requests_per_run
    Delistable, Refreshable,  \* the tickers it may happen to
    MaxTick, MaxRefreshes, MaxFaults   \* bounds

Processes == {"run", "refresh"}
Symbols == Range(Tickers)

Coverage(s) == s \in Seq(Symbols) /\ s # <<>> /\ IsInjective(s)

ASSUME ConstantsAssumption ==
    /\ Coverage(Tickers)
    /\ Published \in [Articles -> Nat] /\ Of \in [Articles -> Symbols]
    /\ NoCursor \notin Int
    /\ {Day, PageSize, MaxPages, WorkLimit, RequestLimit} \subseteq Nat \ {0}
    /\ Delistable \subseteq Symbols /\ Refreshable \subseteq Symbols
    /\ Lookback \in [Processes -> Nat]
    /\ {Overlap, Late, Ahead, MaxTick, MaxRefreshes, MaxFaults} \subseteq Nat

(* The overlap is as long as a timestamp and its listing can lie apart.     *)
ASSUME OverlapCovers == Late + Ahead <= Overlap

VARIABLES
    now,
    listed,     \* the articles the provider lists
    dead,       \* the tickers it refuses (404)
    indexed,    \* the articles stored and indexed
    cursor,     \* source_cursors.cursor_value
    served,     \* the tickers with a cursor row, least recent key first
    succeeded,  \* those whose last_successful_at is set
    origin,     \* history: the latest first window of each ticker
    fetch,      \* each process's locals in ingest_ticker_news
    running, queue, clean,  \* the pass: the tickers ahead, no error so far
    requests,   \* what each process's RunBudget has left
    fresh,      \* cache_meta of the source: its TTL has not passed
    cooldown,   \* the provider's circuit is open
    refreshes, faults   \* how many there were

provider == <<now, listed, dead>>
rows == <<cursor, served, succeeded, origin>>
pass == <<running, queue, clean>>
spent == <<refreshes, faults>>
vars == <<provider, indexed, rows, fetch, pass, requests, fresh, cooldown, spent>>

NoFetch == [phase |-> "idle", ticker |-> Tickers[1], before |-> NoCursor, from |-> 0,
            to |-> 0, read |-> {}, newest |-> NoCursor, stored |-> TRUE, pages |-> 0,
            status |-> "ok"]

Init ==
    /\ now = 0 /\ listed = {} /\ dead = {} /\ indexed = {}
    /\ cursor = [t \in Symbols |-> NoCursor] /\ served = <<>> /\ succeeded = {}
    /\ origin = [t \in Symbols |-> 0]
    /\ fetch = [p \in Processes |-> NoFetch]
    /\ running = FALSE /\ queue = <<>> /\ clean = TRUE
    /\ requests = [p \in Processes |-> 0]
    /\ fresh = FALSE /\ cooldown = FALSE /\ refreshes = 0 /\ faults = 0

Later(a, b) == IF a > b THEN a ELSE b
Faulty == faults < MaxFaults /\ faults' = faults + 1

-----------------------------------------------------------------------------
(* Windows.                                                                 *)

StartOfDay(tick) == tick - (tick % Day)
EndOfDay(tick) == StartOfDay(tick) + Day - 1
From(since, p) ==
    StartOfDay(IF since = NoCursor THEN now - Lookback[p] ELSE since - Overlap)

Window(f) == {a \in listed : Of[a] = f.ticker /\ f.from <= Published[a]
                             /\ Published[a] <= f.to}

(* order_partitions: those never fetched, by name, then by their last       *)
(* success, or by their last update if they never had one.                 *)
\* The first n of the coverage, without those that have a row.
Unserved[n \in 0..Len(Tickers)] ==
    IF n = 0 THEN <<>>
    ELSE IF Tickers[n] \in Range(served) THEN Unserved[n - 1]
    ELSE Append(Unserved[n - 1], Tickers[n])

Order == Unserved[Len(Tickers)] \o served

MovedBack(t) == Append(RemoveFirst(served, t), t)

-----------------------------------------------------------------------------
(* The provider and the clock.                                              *)

Tick ==
    /\ now < MaxTick /\ now' = now + 1
    /\ UNCHANGED <<listed, dead, indexed, rows, fetch, pass, requests, fresh, cooldown, spent>>

List(a) ==
    /\ a \notin listed /\ Published[a] - Ahead <= now /\ now <= Published[a] + Late
    /\ listed' = listed \cup {a}
    /\ UNCHANGED <<now, dead, indexed, rows, fetch, pass, requests, fresh, cooldown, spent>>

Delist(t) ==
    /\ t \notin dead /\ dead' = dead \cup {t}
    /\ UNCHANGED <<now, listed, indexed, rows, fetch, pass, requests, fresh, cooldown, spent>>

-----------------------------------------------------------------------------
(* A fetch.                                                                 *)

Fetching(p, t) ==
    [NoFetch EXCEPT !.phase = "fetching", !.ticker = t, !.before = cursor[t],
                    !.from = From(cursor[t], p), !.to = EndOfDay(now),
                    !.newest = cursor[t]]

(* What set_source_status is about to write: the row's own cursor again.    *)
Noting(f, status) ==
    [NoFetch EXCEPT !.phase = "noting", !.ticker = f.ticker,
                    !.before = cursor[f.ticker], !.status = status]

(* The whole window is read and stored: what set_source_cursor will write.  *)
Complete(f) ==
    [NoFetch EXCEPT !.phase = "complete", !.ticker = f.ticker, !.before = f.before,
                    !.from = f.from, !.newest = f.newest]

(* Mutant: a request that is made whatever is left of the budget.           *)
SpendUnchecked(p) == requests' = [requests EXCEPT ![p] = @ - 1]

Becomes(p, f) == fetch' = [fetch EXCEPT ![p] = f]
Spend(p) == requests[p] > 0 /\ requests' = [requests EXCEPT ![p] = @ - 1]
\* The locals of a call are gone when it returns; a refresh's budget with them.
Done(p) ==
    /\ Becomes(p, NoFetch)
    /\ requests' = IF p = "run" THEN requests ELSE [requests EXCEPT ![p] = 0]
\* Only the pass keeps a status of its own.
Mark(p, ok) == clean' = IF p = "run" THEN clean /\ ok ELSE clean
Abandon(p) == queue' = IF p = "run" THEN <<>> ELSE queue

(* Mutant: a row that could not be stored does not hold the cursor back.    *)
AfterPageUnstored(f, more) ==
    IF more /\ f.pages < MaxPages THEN f
    ELSE IF more THEN Noting(f, "error")
    ELSE IF f.newest = NoCursor THEN Noting(f, "ok")
    ELSE Complete(f)

AfterPage(f, more) ==
    IF more /\ f.pages < MaxPages THEN f
    ELSE IF more \/ ~f.stored THEN Noting(f, "error")
    ELSE IF f.newest = NoCursor THEN Noting(f, "ok")
    ELSE Complete(f)

(* The rows of a page are stored one by one; `bad` fail to be, in SQLite or *)
(* in the index.                                                           *)
Store(p, new, bad) ==
    LET f == fetch[p]
        good == (new \ Malformed) \ bad
        stamps == {Published[a] : a \in good} \cup ({f.newest} \ {NoCursor})
    IN
    /\ IF bad = {} THEN faults' = faults ELSE Faulty
    /\ indexed' = indexed \cup good
    /\ \E newest \in IF stamps = {} THEN {NoCursor} ELSE stamps :
        /\ \A s \in stamps : s <= newest
        /\ Becomes(p, AfterPage(
               [f EXCEPT !.read = @ \cup new, !.newest = newest, !.pages = @ + 1,
                         !.stored = @ /\ bad = {}],
               ~(Window(f) \subseteq f.read \cup new)))
    /\ Mark(p, bad = {} /\ new \cap Malformed = {})

Page(p) ==
    LET f == fetch[p] IN
    /\ f.phase = "fetching" /\ f.ticker \notin dead /\ Spend(p)
    /\ \E new \in SUBSET (Window(f) \ f.read) :
        /\ Cardinality(new) <= PageSize /\ (new = {} => Window(f) \subseteq f.read)
        /\ \E bad \in SUBSET (new \ Malformed) : Store(p, new, bad)
    /\ UNCHANGED <<provider, rows, running, queue, fresh, cooldown, refreshes>>

(* The provider fails once and the request is tried again.                  *)
Retry(p) ==
    /\ fetch[p].phase = "fetching" /\ Spend(p) /\ Faulty
    /\ UNCHANGED <<provider, indexed, rows, fetch, pass, fresh, cooldown, refreshes>>

(* An answer that speaks of this ticker alone: refused, or not news.        *)
Refused(p) ==
    /\ fetch[p].phase = "fetching" /\ Spend(p)
    /\ IF fetch[p].ticker \in dead THEN faults' = faults ELSE Faulty
    /\ Becomes(p, Noting(fetch[p], "error")) /\ Mark(p, FALSE)
    /\ UNCHANGED <<provider, indexed, rows, running, queue, fresh, cooldown, refreshes>>

(* An answer that denies the plan: the other tickers are not asked for.     *)
Denied(p) ==
    /\ fetch[p].phase = "fetching" /\ Spend(p) /\ Faulty
    /\ Becomes(p, Noting(fetch[p], "denied")) /\ Mark(p, FALSE) /\ Abandon(p)
    /\ UNCHANGED <<provider, indexed, rows, running, fresh, cooldown, refreshes>>

(* The request policy or the budget raises: no status is written, and the   *)
(* pass ends.  A failure of the whole provider opens its circuit.          *)
Raises(p) ==
    /\ fetch[p].phase = "fetching"
    /\ \/ requests[p] = 0 /\ UNCHANGED <<faults, cooldown>>
       \/ /\ requests[p] > 0 /\ Faulty
          /\ \E wide \in BOOLEAN : cooldown' = (cooldown \/ (wide /\ p = "run"))
    /\ Done(p) /\ Mark(p, FALSE) /\ Abandon(p)
    /\ UNCHANGED <<provider, indexed, rows, running, fresh, refreshes>>

(* set_source_cursor, in a transaction of its own.                          *)
Commit(p) ==
    LET f == fetch[p] IN
    /\ f.phase = "complete"
    /\ cursor' = [cursor EXCEPT ![f.ticker] = f.newest]
    /\ origin' = [origin EXCEPT ![f.ticker] =
                      IF f.before = NoCursor THEN Later(@, f.from) ELSE @]
    /\ served' = MovedBack(f.ticker) /\ succeeded' = succeeded \cup {f.ticker}
    /\ Done(p)
    /\ UNCHANGED <<provider, indexed, pass, fresh, cooldown, spent>>

CommitFails(p) ==
    /\ fetch[p].phase = "complete" /\ Faulty
    /\ Done(p) /\ Mark(p, FALSE)
    /\ UNCHANGED <<provider, indexed, rows, running, queue, fresh, cooldown, refreshes>>

(* Mutant: the row is left as it is: a ticker never fetched stays first.    *)
NoteNothing(p) ==
    /\ fetch[p].phase = "noting" /\ Done(p) /\ Mark(p, fetch[p].status = "ok")
    /\ UNCHANGED <<provider, indexed, rows, running, queue, fresh, cooldown, spent>>

(* set_source_status reads the row and writes it back with the status.      *)
Note(p) ==
    LET f == fetch[p]
        well == f.status = "ok"
    IN
    /\ f.phase = "noting"
    /\ cursor' = [cursor EXCEPT ![f.ticker] = f.before]
    /\ served' = IF well \/ f.ticker \notin succeeded THEN MovedBack(f.ticker) ELSE served
    /\ succeeded' = IF well THEN succeeded \cup {f.ticker} ELSE succeeded
    /\ cooldown' = (cooldown \/ (p = "run" /\ f.status = "denied"))
    /\ Done(p) /\ Mark(p, well)
    /\ UNCHANGED <<provider, indexed, origin, running, queue, fresh, spent>>

-----------------------------------------------------------------------------
(* The scheduler's pass, and the refresh of one ticker.                     *)

StartRun ==
    /\ ~running /\ ~fresh /\ ~cooldown
    /\ running' = TRUE
    /\ LET order == Order
       IN queue' = SubSeq(order, 1, IF WorkLimit < Len(order) THEN WorkLimit ELSE Len(order))
    /\ requests' = [requests EXCEPT !["run"] = RequestLimit]
    /\ UNCHANGED <<provider, indexed, rows, fetch, clean, fresh, cooldown, spent>>

NextTicker(t) ==
    /\ running /\ fetch["run"].phase = "idle" /\ queue # <<>> /\ t = Head(queue)
    /\ Becomes("run", Fetching("run", t)) /\ queue' = Tail(queue)
    /\ UNCHANGED <<provider, indexed, rows, running, clean, requests, fresh, cooldown, spent>>

EndRun ==
    /\ running /\ fetch["run"].phase = "idle" /\ queue = <<>>
    /\ running' = FALSE /\ fresh' = clean /\ clean' = TRUE
    /\ requests' = [requests EXCEPT !["run"] = 0]
    /\ UNCHANGED <<provider, indexed, rows, fetch, queue, cooldown, spent>>

StartRefresh(t) ==
    /\ fetch["refresh"].phase = "idle" /\ ~cooldown
    /\ refreshes < MaxRefreshes /\ refreshes' = refreshes + 1
    /\ Becomes("refresh", Fetching("refresh", t))
    /\ requests' = [requests EXCEPT !["refresh"] = RequestLimit]
    /\ UNCHANGED <<provider, indexed, rows, pass, fresh, cooldown, faults>>

(* A process dies: what it stored stays, its locals are gone.               *)
Crash(p) ==
    /\ Faulty /\ (fetch[p].phase # "idle" \/ (p = "run" /\ running))
    /\ Becomes(p, NoFetch) /\ Abandon(p) /\ running' = (running /\ p # "run")
    /\ clean' = (clean \/ p = "run") /\ requests' = [requests EXCEPT ![p] = 0]
    /\ UNCHANGED <<provider, indexed, rows, fresh, cooldown, refreshes>>

(* The TTL of the source passes; the provider's reset passes.               *)
Expire ==
    /\ fresh /\ fresh' = FALSE
    /\ UNCHANGED <<provider, indexed, rows, fetch, pass, requests, cooldown, spent>>

Reset ==
    /\ cooldown /\ cooldown' = FALSE
    /\ UNCHANGED <<provider, indexed, rows, fetch, pass, requests, fresh, spent>>

FetchStep(p) == Page(p) \/ Retry(p) \/ Refused(p) \/ Denied(p) \/ Raises(p)
                \/ Commit(p) \/ CommitFails(p) \/ Note(p) \/ Crash(p)

Next ==
    \/ Tick \/ \E a \in Articles : List(a)
    \/ (\E t \in Delistable : Delist(t)) \/ (\E t \in Refreshable : StartRefresh(t))
    \/ StartRun \/ (\E t \in Symbols : NextTicker(t)) \/ EndRun \/ Expire \/ Reset
    \/ \E p \in Processes : FetchStep(p)

Spec == Init /\ [][Next]_vars

(* Passes are started again and again, and go on until they end; the clocks *)
(* of the TTL and of the reset go on too.  Refreshes owe nothing.          *)
Goes == StartRun \/ (\E t \in Symbols : NextTicker(t)) \/ EndRun \/ FetchStep("run")
LiveSpec == Spec /\ WF_vars(Goes) /\ WF_vars(Expire) /\ WF_vars(Reset)

-----------------------------------------------------------------------------
Phases == {"idle", "fetching", "complete", "noting"}
Cursors == Int \cup {NoCursor}
Fetch == [phase : Phases, ticker : Symbols, before : Cursors, from : Int, to : Int,
          read : SUBSET Articles, newest : Cursors, stored : BOOLEAN, pages : Nat,
          status : {"ok", "error", "denied"}]

(* A ticker has one place among the rows, and none has a cursor that never  *)
(* succeeded; a pass works only while it runs, and on no ticker twice.      *)
TypeOK ==
    /\ now \in Nat /\ faults \in 0..MaxFaults /\ refreshes \in 0..MaxRefreshes
    /\ listed \subseteq Articles /\ indexed \subseteq listed \ Malformed
    /\ dead \subseteq Symbols
    /\ cursor \in [Symbols -> Cursors] /\ origin \in [Symbols -> Int]
    /\ succeeded \subseteq Symbols /\ served \in Seq(Symbols)
    /\ fetch \in [Processes -> Fetch]
    /\ requests \in [Processes -> 0..RequestLimit]
    /\ queue \in Seq(Symbols)
    /\ {running, clean, fresh, cooldown} \subseteq BOOLEAN
    /\ IsInjective(served) /\ succeeded \subseteq Range(served)
    /\ \A t \in Symbols : cursor[t] # NoCursor => t \in succeeded
    /\ IsInjective(queue) /\ (queue # <<>> => running)
    /\ fetch["run"].phase # "idle" => running /\ fetch["run"].ticker \notin Range(queue)

(* No article is left behind: one the provider lists of a ticker with a     *)
(* cursor, no older than its first window, is indexed or will be asked for  *)
(* by the next fetch, whatever pages failed, processes died, and cursors    *)
(* were written by the other process meanwhile.                            *)
NothingSkipped ==
    \A a \in listed \ Malformed :
        LET t == Of[a] IN
        cursor[t] # NoCursor /\ origin[t] <= Published[a]
            => a \in indexed \/ From(cursor[t], "run") <= Published[a]

InWindow(a) ==
    /\ From(cursor[Of[a]], "run") <= Published[a] /\ origin[Of[a]] <= Published[a]

(* A ticker whose fetches cannot succeed: refused, or with more pages of    *)
(* news in its window than a fetch reads.  If it once did, its key stays    *)
(* the oldest, and it takes a place in every pass.                         *)
Hopeless(t) ==
    \/ t \in dead
    \/ MaxPages < Cardinality({a \in listed :
                     Of[a] = t /\ From(cursor[t], "run") <= Published[a]})
HeadsOfPasses == {t \in succeeded : Hopeless(t)}

(* Liveness.  An article in the window of its ticker is indexed, if the     *)
(* tickers at the head of each pass leave it room: faults end passes and    *)
(* processes, but the order of the tickers lets each have its turn.        *)
Delivered ==
    \A a \in Articles \ Malformed :
        a \in listed /\ InWindow(a) /\ Published[a] <= EndOfDay(now)
            ~> \/ a \in indexed \/ ~InWindow(a)
               \/ Hopeless(Of[a]) \/ Cardinality(HeadsOfPasses) >= WorkLimit
=============================================================================
