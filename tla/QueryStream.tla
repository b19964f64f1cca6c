---------------------------- MODULE QueryStream ----------------------------
(***************************************************************************)
(* The request path of src/middleware/app.py: POST /query, POST            *)
(* /query/stream, and what they share -- the context build, the            *)
(* deterministic fast path, the bounded tool rounds, the one fallback to   *)
(* the non-streaming answer, the graph trace and the evidence trace.       *)
(*                                                                         *)
(* The model server and the client are external: any call may fail, any    *)
(* answer may come, and the client of a stream may leave.  An action ends   *)
(* at an `await` or a `yield`, where other requests run; they share the    *)
(* process's flags and the cached health of the model.  Progress frames    *)
(* and the text of answers are left out.                                   *)
(***************************************************************************)
EXTENDS Naturals, FiniteSets

CONSTANTS
    Requests, Streams, \* those to /query/stream; the others are to /query
    Setups,       \* configurations of the process
    MaxRounds,    \* max_tool_iterations
    MaxRefreshes, \* max_refreshes_per_query
    MaxTokens,    \* bound: tokens of a streamed answer
    MaxFaults,    \* bound: clients that leave and internal errors
    Silent        \* no answer yet

Setup == [progress : BOOLEAN, observer : BOOLEAN, tools : BOOLEAN,
          toolFinal : BOOLEAN, deterministic : BOOLEAN, promptReuse : BOOLEAN]

Answers == {"deterministic", "streamed", "fallback"}

ASSUME ConstantsAssumption ==
    /\ Streams \subseteq Requests /\ Setups \subseteq Setup /\ Silent \notin Answers
    /\ MaxRounds \in Nat \ {0} /\ {MaxRefreshes, MaxTokens, MaxFaults} \subseteq Nat

VARIABLES
    setup,
    toolsSupported,  \* _tools_supported
    reuseSupported,  \* _prompt_cache_supported
    health,          \* _model_health: "up", "down", or "stale" (its TTL is over)
    req,             \* each request's place and locals
    faults

flags == <<setup, toolsSupported, reuseSupported>>
vars == <<flags, health, req, faults>>

Ends == {"done", "refused", "failed", "broken", "gone"}

\* The generator of a stream is running: the client may leave it.
Generating == {"head", "waking", "planning", "streaming", "answering", "asking",
               "posting", "finishing", "closing"}
Places == {"idle", "building", "probing"} \cup Generating \cup Ends

Prompts == {"none", "plain", "abandoned", "tools"}

New == [at        |-> "idle",
        eligible  |-> FALSE,    \* for the deterministic fast path
        toolRun   |-> FALSE,    \* run_tool_final
        available |-> FALSE,    \* the model answered the probe
        streams   |-> FALSE,    \* the final answer is to be streamed
        attempt   |-> 0,        \* how often tool rounds were begun
        round     |-> 0,        \* of the present rounds
        counted   |-> 0,        \* refresh_count of their ToolContext
        refreshed |-> 0,        \* refresh writes of the request
        source    |-> "none",   \* the messages of the final answer
        reuse     |-> FALSE,    \* cache_prompt is sent
        prompt    |-> "none",   \* evidence trace: the recorded prompt
        results   |-> {},       \* evidence trace: attempts with recorded results
        graph     |-> "none",   \* the query's trace in the graph hub
        answer    |-> Silent, tokens |-> 0]

Init ==
    /\ setup \in Setups
    /\ toolsSupported = TRUE /\ reuseSupported = TRUE /\ health = "stale"
    /\ req = [r \in Requests |-> New]
    /\ faults = 0

Becomes(r, new) == req' = [req EXCEPT ![r] = new]
Complete(q) == IF q.graph = "open" THEN [q EXCEPT !.graph = "complete"] ELSE q
\* The locals of a call are gone when it returns.
Over(q, end) ==
    [q EXCEPT !.at = end, !.eligible = FALSE, !.toolRun = FALSE, !.available = FALSE,
              !.source = "none"]
Fault == faults < MaxFaults /\ faults' = faults + 1

\* _check_model_health answers `up`: from its cache, or by asking.
CheckHealth(up) ==
    /\ health = "stale" \/ (health = "up") = up
    /\ health' = IF up THEN "up" ELSE "down"

-----------------------------------------------------------------------------
(* Before the answer.                                                       *)

\* The capability gate, then _install_query_emitter: a refused request has no
\* trace, any other opens one.
Arrive(r) ==
    /\ req[r].at = "idle"
    /\ Becomes(r, IF r \in Streams /\ setup.tools /\ ~setup.toolFinal
                  THEN [New EXCEPT !.at = "refused"]
                  ELSE [New EXCEPT !.at = "building",
                                   !.graph = IF setup.observer THEN "open" ELSE "none"])
    /\ UNCHANGED <<flags, health, faults>>

\* _build_query_context: the evidence decides whether the fast path applies,
\* and whether tools have run already.
Build(r, eligible, toolsRan) ==
    /\ req[r].at = "building" /\ (eligible => setup.deterministic)
    /\ LET q == req[r] IN
       Becomes(r, [q EXCEPT
           !.eligible = eligible,
           !.toolRun = /\ r \in Streams /\ ~toolsRan /\ toolsSupported
                       /\ setup.tools /\ setup.toolFinal,
           !.at = IF r \notin Streams THEN "answering"
                  ELSE IF eligible THEN "head" ELSE "probing"])
    /\ UNCHANGED <<flags, health, faults>>

\* Mutant: the error is raised without a terminal event.
BuildFailsSilently(r) ==
    /\ req[r].at = "building" /\ Fault
    /\ Becomes(r, Over(req[r], "failed"))
    /\ UNCHANGED <<flags, health>>

BuildFails(r) ==
    /\ req[r].at = "building" /\ Fault
    /\ Becomes(r, Over(Complete(req[r]), "failed"))
    /\ UNCHANGED <<flags, health>>

\* A 404 when there is neither a model nor a way to degrade in the stream.
Probe(r, up) ==
    /\ req[r].at = "probing" /\ CheckHealth(up)
    /\ Becomes(r, IF up \/ setup.progress \/ req[r].toolRun
                  THEN [req[r] EXCEPT !.available = up, !.at = "head"]
                  ELSE Over(req[r], "refused"))
    /\ UNCHANGED <<flags, faults>>

-----------------------------------------------------------------------------
(* The deterministic fast path, tried first by a stream and by every        *)
(* non-streaming answer.                                                    *)

Deterministic(r) ==
    /\ req[r].at \in {"head", "answering"} /\ req[r].eligible
    /\ Becomes(r, IF r \notin Streams
                  THEN [Over(Complete(req[r]), "done") EXCEPT !.answer = "deterministic"]
                  ELSE [Complete(req[r]) EXCEPT !.at = "closing", !.answer = "deterministic",
                                                !.tokens = @ + 1])
    /\ UNCHANGED <<flags, health, faults>>

\* Where a stream goes once it knows whether there is a model.
BeginStream(q) ==
    IF ~q.available THEN [q EXCEPT !.at = "answering"]
    ELSE IF q.toolRun
         THEN [q EXCEPT !.at = "planning", !.streams = TRUE, !.attempt = @ + 1]
         ELSE [q EXCEPT !.at = "streaming", !.streams = TRUE, !.source = "plain"]

\* Not eligible, or rendering and validating failed: the model answers.
NotDeterministic(r) ==
    /\ LET q == req[r] IN
       \/ q.at = "head" /\ Becomes(r, IF q.eligible THEN [q EXCEPT !.at = "waking"]
                                                   ELSE BeginStream(q))
       \/ q.at = "answering" /\ Becomes(r, [q EXCEPT !.at = "asking"])
    /\ UNCHANGED <<flags, health, faults>>

Wake(r, up) ==
    /\ req[r].at = "waking" /\ CheckHealth(up)
    /\ Becomes(r, BeginStream([req[r] EXCEPT !.available = up]))
    /\ UNCHANGED <<flags, faults>>

-----------------------------------------------------------------------------
(* The tool rounds (_run_tool_planning_rounds), before a streamed answer or  *)
(* within _call_model.                                                      *)

Posting(q, source) ==
    [q EXCEPT !.at = "posting", !.source = source,
              !.reuse = setup.promptReuse /\ reuseSupported]

Planned(begun, outcome) ==
    LET q == [begun EXCEPT !.round = 0, !.counted = 0] IN
    CASE outcome = "error" ->
            [q EXCEPT !.at = IF q.streams THEN "answering" ELSE "finishing", !.streams = FALSE]
      [] outcome = "plain" ->
            IF q.streams THEN [q EXCEPT !.at = "streaming", !.source = "abandoned", !.results = {}]
                         ELSE Posting(q, "abandoned")
      [] outcome = "answered" ->
            IF q.streams THEN [q EXCEPT !.at = "streaming", !.source = "tools"]
                         ELSE [q EXCEPT !.at = "finishing", !.prompt = "tools"]
      [] outcome = "final" ->
            IF q.streams THEN [q EXCEPT !.at = "streaming", !.source = "tools"]
                         ELSE Posting(q, "tools")

\* Mutant: the rounds are not counted against the budget of refreshes.
CallToolsUncounted(r, writes) ==
    /\ req[r].at = "planning" /\ req[r].counted + writes <= MaxRefreshes
    /\ LET q == [req[r] EXCEPT !.round = @ + 1, !.refreshed = @ + writes,
                               !.results = @ \cup {req[r].attempt}]
       IN Becomes(r, IF q.round = MaxRounds THEN Planned(q, "final") ELSE q)
    /\ health' = "up"
    /\ UNCHANGED <<flags, faults>>

\* Mutant: the rounds never end by themselves.
CallToolsForever(r, writes) ==
    /\ req[r].at = "planning" /\ req[r].counted + writes <= MaxRefreshes
    /\ Becomes(r, [req[r] EXCEPT !.round = @ + 1, !.counted = @ + writes,
                                 !.refreshed = @ + writes,
                                 !.results = @ \cup {req[r].attempt}])
    /\ health' = "up"
    /\ UNCHANGED <<flags, faults>>

\* The model asks for tools; `writes` of the calls refresh data, as far as the
\* rounds' ToolContext admits.
CallTools(r, writes) ==
    /\ req[r].at = "planning" /\ req[r].counted + writes <= MaxRefreshes
    /\ LET q == [req[r] EXCEPT !.round = @ + 1, !.counted = @ + writes,
                               !.refreshed = @ + writes,
                               !.results = @ \cup {req[r].attempt}]
       IN Becomes(r, IF q.round = MaxRounds THEN Planned(q, "final") ELSE q)
    /\ health' = "up"
    /\ UNCHANGED <<flags, faults>>

PlanAnswers(r) ==
    /\ req[r].at = "planning"
    /\ Becomes(r, Planned(req[r], "answered"))
    /\ health' = "up"
    /\ UNCHANGED <<flags, faults>>

\* Tools rejected, or nothing returned at first: tools are off for the process.
ToolsUnsupported(r) ==
    /\ req[r].at = "planning"
    /\ toolsSupported' = FALSE
    /\ Becomes(r, Planned(req[r], "plain"))
    /\ \/ UNCHANGED health
       \/ req[r].round = 0 /\ health' = "up"
    /\ UNCHANGED <<setup, reuseSupported, faults>>

PlanFails(r) ==
    /\ req[r].at = "planning"
    /\ Becomes(r, Planned(req[r], "error"))
    /\ health' \in {health, "up"}
    /\ UNCHANGED <<flags, faults>>

-----------------------------------------------------------------------------
(* The streamed answer.                                                     *)

Token(r) ==
    /\ req[r].at = "streaming" /\ req[r].tokens < MaxTokens
    /\ Becomes(r, [req[r] EXCEPT !.tokens = @ + 1, !.answer = "streamed"])
    /\ UNCHANGED <<flags, health, faults>>

StreamEnds(r) ==
    /\ req[r].at = "streaming"
    /\ Becomes(r, [req[r] EXCEPT !.at = "finishing", !.prompt = req[r].source])
    /\ health' = "up"
    /\ UNCHANGED <<flags, faults>>

\* Mutant: an interrupted stream falls back whatever it has sent.
StreamFailsOver(r) ==
    /\ req[r].at = "streaming"
    /\ Becomes(r, [req[r] EXCEPT !.at = "answering", !.streams = FALSE])
    /\ UNCHANGED <<flags, health, faults>>

\* Mutant: a stream that failed early begins again, without tools.
StreamFailsAnew(r) ==
    /\ req[r].at = "streaming"
    /\ LET q == req[r] IN
       Becomes(r, IF q.tokens = 0 THEN [q EXCEPT !.at = "head", !.toolRun = FALSE]
                  ELSE Over(IF setup.progress THEN Complete(q) ELSE q, "broken"))
    /\ UNCHANGED <<flags, health, faults>>

\* Before the first token: the non-streaming answer, once.  After it: a terminal
\* error event, which only the progress emitter also records in the trace.
StreamFails(r) ==
    /\ req[r].at = "streaming"
    /\ LET q == req[r] IN
       Becomes(r, IF q.tokens = 0 THEN [q EXCEPT !.at = "answering", !.streams = FALSE, !.source = "none"]
                  ELSE Over(IF setup.progress THEN Complete(q) ELSE q, "broken"))
    /\ UNCHANGED <<flags, health, faults>>

-----------------------------------------------------------------------------
(* The non-streaming answer (_answer_query_context over _call_model).        *)

\* Without a model the answer is put together from the evidence.
Ask(r, up) ==
    /\ req[r].at = "asking" /\ CheckHealth(up)
    /\ LET q == req[r] IN
       Becomes(r, IF ~up THEN [q EXCEPT !.at = "finishing"]
                  ELSE IF setup.tools /\ toolsSupported
                       THEN [q EXCEPT !.at = "planning", !.attempt = @ + 1]
                       ELSE Posting(q, "plain"))
    /\ UNCHANGED <<flags, faults>>

\* Mutant: the results of the abandoned attempt stay.
PostedWithResults(q) ==
    [q EXCEPT !.at = "finishing", !.prompt = q.source, !.source = "none", !.reuse = FALSE]

\* _post_and_parse came back, with a text or with an error for one.  The prompt
\* is recorded; after an abandoned tool attempt its results are dropped.
Posted(q) ==
    [q EXCEPT !.at = "finishing", !.prompt = q.source, !.source = "none", !.reuse = FALSE,
              !.results = IF q.source = "abandoned" THEN {} ELSE @]

Post(r) ==
    /\ req[r].at = "posting"
    /\ Becomes(r, Posted(req[r]))
    /\ health' = "up"
    /\ UNCHANGED <<flags, faults>>

\* A failure with cache_prompt is taken for a rejection and retried plain.
PostFails(r) ==
    /\ req[r].at = "posting"
    /\ reuseSupported' = (reuseSupported /\ ~req[r].reuse)
    /\ Becomes(r, IF req[r].reuse THEN [req[r] EXCEPT !.reuse = FALSE] ELSE Posted(req[r]))
    /\ health' \in {health, "up"}
    /\ UNCHANGED <<setup, toolsSupported, faults>>

-----------------------------------------------------------------------------
(* The end.                                                                 *)

\* Validation, the terminal nodes of the trace, the response.  A stream that
\* fell back still has to send it: one token, then the metadata.
Finish(r) ==
    /\ req[r].at = "finishing"
    /\ LET q == Complete(req[r]) IN
       Becomes(r, IF r \notin Streams THEN [Over(q, "done") EXCEPT !.answer = "fallback"]
                  ELSE IF q.streams THEN Over(q, "done")
                  ELSE [q EXCEPT !.at = "closing", !.answer = "fallback", !.tokens = @ + 1])
    /\ UNCHANGED <<flags, health, faults>>

\* An internal error: /query records it in the trace; a stream breaks off,
\* before or after its terminal nodes.
Breaks(r) ==
    /\ req[r].at \in {"planning", "finishing"} /\ Fault
    /\ \E q \in {req[r], Complete(req[r])} :
          /\ r \notin Streams => q = Complete(req[r])
          /\ r \in Streams /\ req[r].at = "planning" => q = req[r]
          /\ Becomes(r, Over(q, "failed"))
    /\ UNCHANGED <<flags, health>>

\* The metadata event.
Close(r) ==
    /\ req[r].at = "closing"
    /\ Becomes(r, Over(req[r], "done"))
    /\ UNCHANGED <<flags, health, faults>>

\* The client of a stream leaves: its generator is cancelled where it waits.
Leave(r) ==
    /\ r \in Streams /\ req[r].at \in Generating /\ Fault
    /\ Becomes(r, Over(req[r], "gone"))
    /\ UNCHANGED <<flags, health>>

\* The cached health is older than its TTL.
HealthExpires ==
    /\ health # "stale" /\ health' = "stale"
    /\ UNCHANGED <<flags, req, faults>>

Step(r) ==
    \/ \E e, t \in BOOLEAN : Build(r, e, t)
    \/ \E up \in BOOLEAN : Probe(r, up) \/ Wake(r, up) \/ Ask(r, up)
    \/ Deterministic(r) \/ NotDeterministic(r)
    \/ \E writes \in {0, 1} : CallTools(r, writes)
    \/ PlanAnswers(r) \/ ToolsUnsupported(r) \/ PlanFails(r)
    \/ Token(r) \/ StreamEnds(r) \/ StreamFails(r)
    \/ Post(r) \/ PostFails(r) \/ Finish(r) \/ Close(r)

Next ==
    \/ \E r \in Requests :
         Arrive(r) \/ Step(r) \/ BuildFails(r) \/ Breaks(r) \/ Leave(r)
    \/ HealthExpires

Spec == Init /\ [][Next]_vars

-----------------------------------------------------------------------------
Request == [at : Places, eligible : BOOLEAN, toolRun : BOOLEAN,
            available : BOOLEAN, streams : BOOLEAN, attempt : 0..2, round : 0..MaxRounds,
            counted : 0..MaxRefreshes, refreshed : Nat, source : Prompts, reuse : BOOLEAN,
            prompt : Prompts, results : SUBSET {1, 2}, graph : {"none", "open", "complete"},
            answer : Answers \cup {Silent}, tokens : Nat]

TypeOK ==
    /\ setup \in Setups /\ toolsSupported \in BOOLEAN /\ reuseSupported \in BOOLEAN
    /\ health \in {"up", "down", "stale"}
    /\ req \in [Requests -> Request]
    /\ faults \in 0..MaxFaults

-----------------------------------------------------------------------------
Ended(r) == req[r].at \in Ends

\* Once it has sent a token a stream gives that answer only, however the tool
\* rounds, the streamed call and the fallbacks fail (2.2.6.1, _query_stream_events).
Promise == INSTANCE AnswerStream WITH
    answer <- [r \in Streams |-> req[r].answer],
    said <- [r \in Streams |-> req[r].tokens],
    ended <- {r \in Streams : Ended(r)}

KeepsItsPromise == Promise!Spec

\* The evidence trace of an answer has the results of the tools that answer saw,
\* and none of an attempt given up before it: for /query, and for a stream that
\* did not fall back (_discard_trace_tool_results, EvidenceTraceCollector).
EvidenceIsExact ==
    \A r \in Requests :
        LET q == req[r] IN
        q.at = "done" /\ q.prompt # "none" /\ (r \notin Streams \/ q.streams)
            => q.results \subseteq (IF q.prompt = "tools" THEN {q.attempt} ELSE {})

\* A query makes at most its budget of refresh writes; a stream that falls back
\* begins its tool rounds, and their budget, at most once more (ToolContext).
RefreshesBounded ==
    \A r \in Requests :
        req[r].refreshed <= (IF r \in Streams THEN 2 ELSE 1) * MaxRefreshes

\* A request that is over has completed its graph trace, whatever failed, except
\* where nobody does it: a stream refused after it had opened one, left by its
\* client, broken off by an internal error, or interrupted without a progress
\* emitter (_emit_graph_terminal, emitter.error).
TraceIsClosed ==
    \A r \in Requests :
        Ended(r) /\ req[r].graph = "open" =>
            /\ r \in Streams
            /\ \/ req[r].at \in {"refused", "gone", "failed"}
               \/ req[r].at = "broken" /\ ~setup.progress

\* A call to the model answers or fails (its client has a timeout), so each
\* request goes on, whatever the others do.
LiveSpec == Spec /\ \A r \in Requests : WF_vars(Step(r))

\* Every request ends: no failure sends it round in circles (query_stream).
EveryRequestEnds == \A r \in Requests : req[r].at = "building" ~> Ended(r)

=============================================================================
