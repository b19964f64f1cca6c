-------------------------- MODULE QueryStreamProofs --------------------------
(***************************************************************************)
(* Theorems about QueryStream, for any requests, configurations, rounds,   *)
(* refreshes, tokens and faults.                                           *)
(***************************************************************************)
EXTENDS QueryStream, TLAPS

Early == {"idle", "building", "probing", "head", "waking"}

(* Nothing has happened before the first answer is tried.                   *)
Untouched(q) ==
    q.at \in Early =>
        /\ q.attempt = 0 /\ q.refreshed = 0 /\ q.results = {} /\ q.prompt = "none"
        /\ q.answer = Silent /\ q.tokens = 0 /\ ~q.streams /\ q.counted = 0 /\ q.round = 0

(* Which places belong to which kind of request.                            *)
Placed(r, q) ==
    /\ q.streams => r \in Streams
    /\ q.at \in {"probing", "head", "waking", "closing"} => r \in Streams
    /\ q.at = "streaming" => q.streams
    /\ q.at \in {"answering", "asking", "posting"} => ~q.streams

(* The tool rounds are begun once, and once more by a stream's fallback, and *)
(* each time they have the whole budget of refreshes.                      *)
Budget(r) == (IF r \in Streams THEN 2 ELSE 1) * MaxRefreshes
Budgeted(r, q) ==
    /\ q.at = "planning" =>
          /\ q.attempt \in {1, 2}
          /\ q.streams \/ r \notin Streams => q.attempt = 1
          /\ q.refreshed <= (IF q.attempt = 1 THEN 0 ELSE MaxRefreshes) + q.counted
    /\ q.at \in {"answering", "asking", "streaming"} =>
          /\ q.attempt \in {0, 1} /\ q.refreshed <= MaxRefreshes
          /\ r \notin Streams => q.attempt = 0
          /\ q.attempt = 0 => q.refreshed = 0
    /\ q.at \notin Ends \cup {"planning"} => q.round = 0 /\ q.counted = 0
    /\ q.round < MaxRounds
    /\ q.refreshed <= Budget(r)

(* What the evidence trace has of tools.                                    *)
Seen(q, source) == q.results \subseteq (IF source = "tools" THEN {q.attempt} ELSE {})
Evident(r, q) ==
    /\ q.at \in Early \cup {"planning", "streaming", "answering", "asking", "posting"} =>
          q.prompt = "none"
    /\ r \notin Streams \/ q.streams =>
          /\ q.at \in {"answering", "asking"} => q.results = {}
          /\ q.at = "planning" => q.results \subseteq {q.attempt}
          /\ q.at = "streaming" \/ (q.at = "posting" /\ q.source # "abandoned") =>
                Seen(q, q.source)
          /\ q.prompt # "none" => Seen(q, q.prompt)

(* A stream that has said something says nothing else.                      *)
Spoken(r, q) ==
    r \in Streams =>
        /\ q.at \in {"planning", "answering", "asking", "posting"}
              \/ (q.at = "finishing" /\ ~q.streams) => q.answer = Silent
        /\ q.at = "streaming" \/ (q.at = "finishing" /\ q.streams) =>
              /\ q.answer \in {Silent, "streamed"}
              /\ q.tokens = 0 => q.answer = Silent

(* Who leaves a graph trace open.                                           *)
Closed(r, q) ==
    /\ q.at = "closing" => q.graph # "open"
    /\ q.at \in Ends /\ q.graph = "open" =>
          /\ r \in Streams
          /\ q.at \in {"refused", "gone", "failed"} \/ (q.at = "broken" /\ ~setup.progress)

Good(r, q) ==
    /\ q \in Request /\ Untouched(q) /\ Placed(r, q) /\ Budgeted(r, q)
    /\ Evident(r, q) /\ Spoken(r, q) /\ Closed(r, q)

IInv ==
    /\ setup \in Setup /\ setup \in Setups
    /\ toolsSupported \in BOOLEAN /\ reuseSupported \in BOOLEAN
    /\ health \in {"up", "down", "stale"} /\ faults \in 0..MaxFaults
    /\ req \in [Requests -> Request]
    /\ \A r \in Requests : Good(r, req[r])

(* What a step may do to what a stream has said.                            *)
Moves(r, q, n) ==
    r \in Streams =>
        /\ q.at \notin Ends
        /\ \/ n.answer = q.answer /\ n.tokens = q.tokens
           \/ /\ n.at \notin Ends /\ n.answer \in Answers /\ q.answer \in {Silent, n.answer}
              /\ n.tokens = q.tokens + 1

(* The most steps a request can still take: the model's rounds and the      *)
(* tokens of a stream, and after either the fallback with its own rounds.   *)
TokensLeft(q) == IF q.tokens < MaxTokens THEN MaxTokens - q.tokens ELSE 0
StepsLeft(q) ==
    CASE q.at \in Ends -> 0
      [] q.at = "closing" -> 1
      [] q.at = "finishing" -> 2
      [] q.at = "posting" -> IF q.reuse THEN 4 ELSE 3
      [] q.at = "planning" /\ ~q.streams -> 4 + (MaxRounds - q.round)
      [] q.at = "asking" -> 5 + MaxRounds
      [] q.at = "answering" -> 6 + MaxRounds
      [] q.at = "streaming" -> 7 + MaxRounds + TokensLeft(q)
      [] q.at = "planning" /\ q.streams -> 7 + MaxRounds + MaxTokens + (MaxRounds - q.round)
      [] q.at = "waking" -> 8 + 2 * MaxRounds + MaxTokens
      [] q.at = "head" -> 9 + 2 * MaxRounds + MaxTokens
      [] q.at = "probing" -> 10 + 2 * MaxRounds + MaxTokens
      [] q.at = "building" -> 11 + 2 * MaxRounds + MaxTokens
      [] q.at = "idle" -> 12 + 2 * MaxRounds + MaxTokens

(* The request r goes from one good state to another, nearer to its end.    *)
Goes(r, n) ==
    Becomes(r, n) /\ Good(r, n) /\ Moves(r, req[r], n) /\ StepsLeft(n) < StepsLeft(req[r])

-----------------------------------------------------------------------------
LEMMA LeftAt ==
    ASSUME ConstantsAssumption, NEW q \in Request
    PROVE  /\ StepsLeft(q) \in Nat
           /\ (StepsLeft(q) = 0) = (q.at \in Ends)
           /\ q.at = "closing" => StepsLeft(q) = 1
           /\ q.at = "finishing" => StepsLeft(q) = 2
           /\ q.at = "posting" => StepsLeft(q) = (IF q.reuse THEN 4 ELSE 3)
           /\ q.at = "planning" =>
                 StepsLeft(q) = (IF q.streams THEN 7 + MaxRounds + MaxTokens ELSE 4)
                                + (MaxRounds - q.round)
           /\ q.at = "asking" => StepsLeft(q) = 5 + MaxRounds
           /\ q.at = "answering" => StepsLeft(q) = 6 + MaxRounds
           /\ q.at = "streaming" => StepsLeft(q) = 7 + MaxRounds + TokensLeft(q)
           /\ q.at = "waking" => StepsLeft(q) = 8 + 2 * MaxRounds + MaxTokens
           /\ q.at = "head" => StepsLeft(q) = 9 + 2 * MaxRounds + MaxTokens
           /\ q.at = "probing" => StepsLeft(q) = 10 + 2 * MaxRounds + MaxTokens
           /\ q.at = "building" => StepsLeft(q) = 11 + 2 * MaxRounds + MaxTokens
           /\ q.at = "idle" => StepsLeft(q) = 12 + 2 * MaxRounds + MaxTokens
           /\ TokensLeft(q) \in 0..MaxTokens
  <1>1. /\ MaxRounds \in Nat /\ MaxTokens \in Nat /\ q.round \in 0..MaxRounds
        /\ q.tokens \in Nat /\ q.at \in Places /\ q.streams \in BOOLEAN
    BY DEF ConstantsAssumption, Request
  <1>2. TokensLeft(q) \in 0..MaxTokens
    BY <1>1 DEF TokensLeft
  <1>3. CASE q.at = "planning"
    BY <1>1, <1>2, <1>3 DEF StepsLeft, Ends
  <1>4. CASE q.at # "planning"
    BY <1>1, <1>2, <1>4 DEF StepsLeft, Ends, Places, Generating
  <1> QED BY <1>2, <1>3, <1>4

-----------------------------------------------------------------------------
LEMMA NewGood ==
    ASSUME ConstantsAssumption, NEW r \in Requests
    PROVE  Good(r, New)
  <1>1. New \in Request
    BY DEF New, Request, Places, Generating, Ends, Prompts, ConstantsAssumption
  <1>2. Untouched(New) /\ Placed(r, New)
    BY DEF New, Untouched, Placed
  <1>3. Budgeted(r, New)
    BY DEF New, Budgeted, Budget, ConstantsAssumption
  <1>4. Evident(r, New) /\ Spoken(r, New) /\ Closed(r, New)
    BY DEF New, Evident, Spoken, Closed, Ends
  <1> QED BY <1>1, <1>2, <1>3, <1>4 DEF Good

LEMMA ArriveGoes ==
    ASSUME ConstantsAssumption, IInv, NEW r \in Requests, Arrive(r)
    PROVE  \E n \in Request : Goes(r, n)
  <1>1. /\ req[r] \in Request /\ req[r].at = "idle"
        /\ req[r].answer = Silent /\ req[r].tokens = 0
    BY DEF IInv, Good, Untouched, Early, Arrive
  <1>2. CASE r \in Streams /\ setup.tools /\ ~setup.toolFinal
    <2>1. PICK n : n = [New EXCEPT !.at = "refused"]
      OBVIOUS
    <2>2. /\ n.at = "refused" /\ n.graph = "none" /\ ~n.streams
          /\ n.attempt = 0 /\ n.refreshed = 0 /\ n.results = {} /\ n.prompt = "none"
          /\ n.answer = Silent /\ n.tokens = 0 /\ n.counted = 0 /\ n.round = 0
      BY <2>1 DEF New
    <2>3. n \in Request
      BY <2>1, NewGood DEF Good, Request, Places, Ends
    <2>4. Good(r, n)
      BY <1>2, <2>2, <2>3 DEF Good, Untouched, Placed, Budgeted, Budget, Evident, Spoken, Closed,
                         Early, Ends, ConstantsAssumption
    <2>5. Moves(r, req[r], n)
      BY <1>1, <2>2 DEF Moves, Ends
    <2>6. Becomes(r, n)
      BY <1>2, <2>1 DEF Arrive
    <2>7. StepsLeft(n) < StepsLeft(req[r])
      BY <1>1, <2>2, <2>3, LeftAt DEF Ends
    <2> QED BY <2>3, <2>4, <2>5, <2>6, <2>7 DEF Goes
  <1>3. CASE ~(r \in Streams /\ setup.tools /\ ~setup.toolFinal)
    <2>0. PICK g \in {"none", "open"} : g = (IF setup.observer THEN "open" ELSE "none")
      OBVIOUS
    <2>1. PICK n : n = [New EXCEPT !.at = "building", !.graph = g]
      OBVIOUS
    <2>2. /\ n.at = "building" /\ ~n.streams
          /\ n.attempt = 0 /\ n.refreshed = 0 /\ n.results = {} /\ n.prompt = "none"
          /\ n.answer = Silent /\ n.tokens = 0 /\ n.counted = 0 /\ n.round = 0
      BY <2>1 DEF New
    <2>3. n \in Request
      BY <2>1, NewGood DEF Good, Request, Places
    <2>4. Good(r, n)
      BY <2>2, <2>3 DEF Good, Untouched, Placed, Budgeted, Budget, Evident, Spoken, Closed,
                         Early, Ends, ConstantsAssumption
    <2>5. Moves(r, req[r], n)
      BY <1>1, <2>2 DEF Moves, Ends
    <2>6. Becomes(r, n)
      BY <1>3, <2>0, <2>1 DEF Arrive
    <2>7. StepsLeft(n) < StepsLeft(req[r])
      BY <1>1, <2>2, <2>3, LeftAt DEF ConstantsAssumption
    <2> QED BY <2>3, <2>4, <2>5, <2>6, <2>7 DEF Goes
  <1> QED BY <1>2, <1>3

-----------------------------------------------------------------------------
(* What the helpers leave alone.                                            *)
Kept(q, n) ==
    /\ n.attempt = q.attempt /\ n.round = q.round /\ n.counted = q.counted
    /\ n.refreshed = q.refreshed /\ n.prompt = q.prompt /\ n.results = q.results
    /\ n.streams = q.streams
Told(q, n) == n.answer = q.answer /\ n.tokens = q.tokens

LEMMA OverKeeps ==
    ASSUME NEW q \in Request, NEW end \in Ends
    PROVE  /\ Over(q, end) \in Request /\ Over(q, end).at = end
           /\ Kept(q, Over(q, end)) /\ Told(q, Over(q, end)) /\ Over(q, end).graph = q.graph
  <1>1. PICK n : n = Over(q, end)
    OBVIOUS
  <1>2. n \in Request
    BY <1>1 DEF Over, Request, Places, Generating, Ends, Prompts
  <1>3. n.at = end /\ Kept(q, n) /\ Told(q, n) /\ n.graph = q.graph
    BY <1>1 DEF Over, Request, Kept, Told
  <1> QED BY <1>1, <1>2, <1>3

LEMMA CompleteKeeps ==
    ASSUME NEW q \in Request
    PROVE  /\ Complete(q) \in Request /\ Complete(q).at = q.at
           /\ Kept(q, Complete(q)) /\ Told(q, Complete(q)) /\ Complete(q).graph # "open"
  <1>1. CASE q.graph = "open"
    <2>1. PICK n : n = [q EXCEPT !.graph = "complete"]
      OBVIOUS
    <2>2. n \in Request
      BY <2>1 DEF Request
    <2>3. n.at = q.at /\ Kept(q, n) /\ Told(q, n) /\ n.graph = "complete"
      BY <2>1 DEF Request, Kept, Told
    <2> QED BY <1>1, <2>1, <2>2, <2>3 DEF Complete
  <1>2. CASE q.graph # "open"
    BY <1>2 DEF Complete, Kept, Told
  <1> QED BY <1>1, <1>2

(* A request may end wherever its trace may be left as it is.               *)
LEMMA EndGoes ==
    ASSUME ConstantsAssumption, IInv, NEW r \in Requests, NEW q \in Request, q = req[r],
           Good(r, q), q.at \notin Ends, NEW n \in Request, Becomes(r, n),
           n.at \in Ends, Kept(q, n), r \in Streams => Told(q, n),
           n.graph = "open" =>
              /\ r \in Streams
              /\ n.at \in {"refused", "gone", "failed"} \/ (n.at = "broken" /\ ~setup.progress)
    PROVE  Goes(r, n)
  <1>1. Untouched(n) /\ Placed(r, n)
    BY DEF Good, Untouched, Placed, Early, Kept, Ends
  <1>2. Budgeted(r, n)
    BY DEF Good, Budgeted, Budget, Kept, Ends
  <1>3. Evident(r, n)
    BY DEF Good, Evident, Seen, Early, Kept, Ends
  <1>4. Spoken(r, n) /\ Closed(r, n)
    BY DEF Good, Spoken, Closed, Kept, Told, Ends
  <1>5. Moves(r, q, n)
    BY DEF Moves, Told
  <1>6. StepsLeft(n) < StepsLeft(q)
    BY LeftAt
  <1> QED BY <1>1, <1>2, <1>3, <1>4, <1>5, <1>6 DEF Goes, Good

-----------------------------------------------------------------------------
LEMMA BuildFailsGoes ==
    ASSUME ConstantsAssumption, IInv, NEW r \in Requests, BuildFails(r)
    PROVE  \E n \in Request : Goes(r, n)
  <1>1. PICK q \in Request : q = req[r] /\ Good(r, q) /\ q.at = "building"
    BY DEF IInv, Good, BuildFails
  <1>2. PICK n \in Request : n = Over(Complete(q), "failed")
    BY CompleteKeeps, OverKeeps DEF Ends
  <1>3. n.at = "failed" /\ Kept(q, n) /\ Told(q, n) /\ n.graph # "open"
    BY <1>2, CompleteKeeps, OverKeeps DEF Ends, Kept, Told
  <1>4. Becomes(r, n)
    BY <1>1, <1>2 DEF BuildFails
  <1> QED BY <1>1, <1>3, <1>4, EndGoes DEF Ends

LEMMA BuildGoes ==
    ASSUME ConstantsAssumption, IInv, NEW r \in Requests, NEW e \in BOOLEAN, NEW t \in BOOLEAN,
           Build(r, e, t)
    PROVE  \E n \in Request : Goes(r, n)
  <1>1. PICK q \in Request : q = req[r] /\ Good(r, q) /\ q.at = "building"
    BY DEF IInv, Good, Build
  <1>2. PICK run \in BOOLEAN : run = (/\ r \in Streams /\ ~t /\ toolsSupported
                                      /\ setup.tools /\ setup.toolFinal)
    OBVIOUS
  <1>3. PICK at \in {"answering", "head", "probing"} :
           at = (IF r \notin Streams THEN "answering" ELSE IF e THEN "head" ELSE "probing")
    OBVIOUS
  <1>4. PICK n : n = [q EXCEPT !.eligible = e, !.toolRun = run, !.at = at]
    OBVIOUS
  <1>5. n \in Request
    BY <1>4 DEF Request, Places, Generating
  <1>6. n.at = at /\ Kept(q, n) /\ Told(q, n)
    BY <1>4 DEF Request, Kept, Told
  <1>7. Good(r, n)
    BY <1>1, <1>3, <1>5, <1>6 DEF Good, Untouched, Placed, Budgeted, Budget, Evident, Spoken,
                                  Closed, Kept, Told, Early, Ends, ConstantsAssumption
  <1>8. Moves(r, q, n)
    BY <1>1, <1>6 DEF Moves, Told, Ends
  <1>9. Becomes(r, n)
    BY <1>1, <1>2, <1>3, <1>4 DEF Build
  <1>10. StepsLeft(n) < StepsLeft(q)
    BY <1>1, <1>3, <1>5, <1>6, LeftAt DEF ConstantsAssumption
  <1> QED BY <1>1, <1>5, <1>7, <1>8, <1>9, <1>10 DEF Goes

LEMMA ProbeGoes ==
    ASSUME ConstantsAssumption, IInv, NEW r \in Requests, NEW up \in BOOLEAN, Probe(r, up)
    PROVE  \E n \in Request : Goes(r, n)
  <1>1. PICK q \in Request : q = req[r] /\ Good(r, q) /\ q.at = "probing"
    BY DEF IInv, Good, Probe
  <1>2. CASE up \/ setup.progress \/ q.toolRun
    <2>1. PICK n : n = [q EXCEPT !.available = up, !.at = "head"]
      OBVIOUS
    <2>2. n \in Request
      BY <2>1 DEF Request, Places, Generating
    <2>3. n.at = "head" /\ Kept(q, n) /\ Told(q, n)
      BY <2>1 DEF Request, Kept, Told
    <2>4. Good(r, n)
      BY <1>1, <2>2, <2>3 DEF Good, Untouched, Placed, Budgeted, Budget, Evident, Spoken,
                              Closed, Kept, Told, Early, Ends, ConstantsAssumption
    <2>5. Moves(r, q, n) /\ Becomes(r, n)
      BY <1>1, <1>2, <2>1, <2>3 DEF Moves, Told, Ends, Probe
    <2>6. StepsLeft(n) < StepsLeft(q)
      BY <1>1, <2>2, <2>3, LeftAt DEF ConstantsAssumption
    <2> QED BY <1>1, <2>2, <2>4, <2>5, <2>6 DEF Goes
  <1>3. CASE ~(up \/ setup.progress \/ q.toolRun)
    <2>1. PICK n \in Request : n = Over(q, "refused")
      BY OverKeeps DEF Ends
    <2>2. n.at = "refused" /\ Kept(q, n) /\ Told(q, n)
      BY <2>1, OverKeeps DEF Ends
    <2>3. r \in Streams
      BY <1>1 DEF Good, Placed
    <2>4. Becomes(r, n)
      BY <1>1, <1>3, <2>1 DEF Probe
    <2> QED BY <1>1, <2>2, <2>3, <2>4, EndGoes DEF Ends
  <1> QED BY <1>2, <1>3

LEMMA DeterministicGoes ==
    ASSUME ConstantsAssumption, IInv, NEW r \in Requests, Deterministic(r)
    PROVE  \E n \in Request : Goes(r, n)
  <1>1. PICK q \in Request : q = req[r] /\ Good(r, q) /\ q.at \in {"head", "answering"}
    BY DEF IInv, Good, Deterministic
  <1>2. PICK c \in Request : /\ c = Complete(q) /\ c.at = q.at /\ Kept(q, c) /\ Told(q, c)
                             /\ c.graph # "open"
    BY CompleteKeeps
  <1>3. CASE r \notin Streams
    <2>1. PICK o \in Request : /\ o = Over(c, "done") /\ o.at = "done" /\ Kept(c, o)
                               /\ o.graph # "open"
      BY <1>2, OverKeeps DEF Ends
    <2>2. PICK n : n = [o EXCEPT !.answer = "deterministic"]
      OBVIOUS
    <2>3. n \in Request
      BY <2>2 DEF Request, Answers
    <2>4. n.at = "done" /\ Kept(o, n) /\ n.graph # "open"
      BY <2>1, <2>2 DEF Request, Kept
    <2>5. Kept(q, n)
      BY <1>2, <2>1, <2>4 DEF Kept
    <2>6. Becomes(r, n)
      BY <1>1, <1>2, <1>3, <2>1, <2>2 DEF Deterministic
    <2> QED BY <1>1, <1>3, <2>3, <2>4, <2>5, <2>6, EndGoes DEF Ends
  <1>4. CASE r \in Streams
    <2>1. PICK n : n = [c EXCEPT !.at = "closing", !.answer = "deterministic", !.tokens = @ + 1]
      OBVIOUS
    <2>2. c.tokens + 1 \in Nat
      BY DEF Request
    <2>3. n \in Request
      BY <2>1, <2>2 DEF Request, Answers, Places, Generating
    <2>4. /\ n.at = "closing" /\ Kept(c, n) /\ n.graph # "open" /\ n.answer = "deterministic"
          /\ n.tokens = c.tokens + 1
      BY <1>2, <2>1 DEF Request, Kept
    <2>5. Kept(q, n) /\ n.tokens = q.tokens + 1
      BY <1>2, <2>4 DEF Kept, Told
    <2>6. q.answer = Silent
      BY <1>1, <1>4 DEF Good, Untouched, Spoken, Early
    <2>7. Good(r, n)
      BY <1>1, <1>4, <2>3, <2>4, <2>5 DEF Good, Untouched, Placed, Budgeted, Budget, Evident, Seen,
            Spoken, Closed, Kept, Early, Ends, ConstantsAssumption, Request
    <2>8. Moves(r, q, n)
      BY <1>1, <2>4, <2>5, <2>6 DEF Moves, Ends, Answers
    <2>9. Becomes(r, n)
      BY <1>1, <1>2, <1>4, <2>1 DEF Deterministic
    <2>10. StepsLeft(n) < StepsLeft(q)
      BY <1>1, <2>3, <2>4, LeftAt DEF ConstantsAssumption
    <2> QED BY <1>1, <2>3, <2>7, <2>8, <2>9, <2>10 DEF Goes
  <1> QED BY <1>3, <1>4

(* A stream starts on its answer.                                           *)
LEMMA BeginGood ==
    ASSUME ConstantsAssumption, NEW r \in Streams, NEW q \in Request, Good(r, q),
           q.at \in {"head", "waking"}
    PROVE  \E n \in Request : n = BeginStream(q) /\ Good(r, n) /\ Told(q, n)
                              /\ StepsLeft(n) < StepsLeft(q)
  <1>1. /\ q.attempt = 0 /\ q.refreshed = 0 /\ q.results = {} /\ q.prompt = "none"
        /\ q.answer = Silent /\ q.tokens = 0 /\ ~q.streams /\ q.counted = 0 /\ q.round = 0
    BY DEF Good, Untouched, Early
  <1>2. CASE ~q.available
    <2>1. PICK n : n = [q EXCEPT !.at = "answering"]
      OBVIOUS
    <2>2. n \in Request /\ n.at = "answering" /\ Kept(q, n) /\ Told(q, n)
      BY <2>1 DEF Request, Places, Generating, Kept, Told
    <2>3. Good(r, n)
      BY <1>1, <2>2 DEF Good, Untouched, Placed, Budgeted, Budget, Evident, Spoken, Closed, Kept,
                        Told, Early, Ends, ConstantsAssumption
    <2>4. StepsLeft(n) < StepsLeft(q)
      BY <2>2, LeftAt DEF ConstantsAssumption
    <2> QED BY <1>2, <2>1, <2>2, <2>3, <2>4 DEF BeginStream
  <1>3. CASE q.available /\ q.toolRun
    <2>1. PICK n : n = [q EXCEPT !.at = "planning", !.streams = TRUE, !.attempt = @ + 1]
      OBVIOUS
    <2>0. q.attempt + 1 \in 0..2
      BY <1>1
    <2>2. n \in Request
      BY <2>0, <2>1 DEF Request, Places, Generating
    <2>3. /\ n.at = "planning" /\ n.streams /\ n.attempt = 1 /\ Told(q, n)
          /\ n.refreshed = 0 /\ n.results = {} /\ n.prompt = "none" /\ n.counted = 0
          /\ n.round = 0
      BY <1>1, <2>1 DEF Request, Told
    <2>4. Good(r, n)
      BY <1>1, <2>2, <2>3 DEF Good, Untouched, Placed, Budgeted, Budget, Evident, Spoken, Closed,
                        Told, Early, Ends, ConstantsAssumption
    <2>5. StepsLeft(n) < StepsLeft(q)
      BY <2>2, <2>3, LeftAt DEF ConstantsAssumption
    <2> QED BY <1>3, <2>1, <2>2, <2>3, <2>4, <2>5 DEF BeginStream
  <1>4. CASE q.available /\ ~q.toolRun
    <2>1. PICK n : n = [q EXCEPT !.at = "streaming", !.streams = TRUE, !.source = "plain"]
      OBVIOUS
    <2>2. n \in Request
      BY <2>1 DEF Request, Places, Generating, Prompts
    <2>3. /\ n.at = "streaming" /\ n.streams /\ n.attempt = 0 /\ Told(q, n)
          /\ n.refreshed = 0 /\ n.results = {} /\ n.prompt = "none" /\ n.counted = 0
          /\ n.round = 0
      BY <1>1, <2>1 DEF Request, Told
    <2>4. Good(r, n)
      BY <1>1, <2>2, <2>3 DEF Good, Untouched, Placed, Budgeted, Budget, Evident, Seen, Spoken,
                        Closed, Told, Early, Ends, ConstantsAssumption
    <2>5. StepsLeft(n) < StepsLeft(q)
      BY <2>2, <2>3, LeftAt DEF ConstantsAssumption
    <2> QED BY <1>4, <2>1, <2>2, <2>3, <2>4, <2>5 DEF BeginStream
  <1> QED BY <1>2, <1>3, <1>4

LEMMA NotDeterministicGoes ==
    ASSUME ConstantsAssumption, IInv, NEW r \in Requests, NotDeterministic(r)
    PROVE  \E n \in Request : Goes(r, n)
  <1>1. PICK q \in Request : q = req[r] /\ Good(r, q) /\ q.at \in {"head", "answering"}
    BY DEF IInv, Good, NotDeterministic
  <1>2. CASE q.at = "head" /\ ~q.eligible
    <2>1. r \in Streams
      BY <1>1, <1>2 DEF Good, Placed
    <2>2. PICK n \in Request : /\ n = BeginStream(q) /\ Good(r, n) /\ Told(q, n)
                               /\ StepsLeft(n) < StepsLeft(q)
      BY <1>1, <1>2, <2>1, BeginGood
    <2>3. Moves(r, q, n) /\ Becomes(r, n)
      BY <1>1, <1>2, <2>2 DEF Moves, Told, Ends, NotDeterministic
    <2> QED BY <1>1, <2>2, <2>3 DEF Goes
  <1>3. CASE ~(q.at = "head" /\ ~q.eligible)
    <2>0. PICK at \in {"waking", "asking"} : at = (IF q.at = "head" THEN "waking" ELSE "asking")
      OBVIOUS
    <2>1. PICK n : n = [q EXCEPT !.at = at]
      OBVIOUS
    <2>2. n \in Request /\ n.at = at /\ Kept(q, n) /\ Told(q, n)
      BY <2>1 DEF Request, Places, Generating, Kept, Told
    <2>3. Good(r, n)
      BY <1>1, <1>3, <2>0, <2>2 DEF Good, Untouched, Placed, Budgeted, Budget, Evident, Seen,
                        Spoken, Closed, Kept, Told, Early, Ends, ConstantsAssumption
    <2>4. Moves(r, q, n) /\ Becomes(r, n)
      BY <1>1, <1>3, <2>0, <2>1, <2>2 DEF Moves, Told, Ends, NotDeterministic
    <2>5. StepsLeft(n) < StepsLeft(q)
      BY <1>1, <1>3, <2>0, <2>2, LeftAt DEF ConstantsAssumption
    <2> QED BY <1>1, <2>2, <2>3, <2>4, <2>5 DEF Goes
  <1> QED BY <1>2, <1>3

LEMMA WakeGoes ==
    ASSUME ConstantsAssumption, IInv, NEW r \in Requests, NEW up \in BOOLEAN, Wake(r, up)
    PROVE  \E n \in Request : Goes(r, n)
  <1>1. PICK q \in Request : q = req[r] /\ Good(r, q) /\ q.at = "waking"
    BY DEF IInv, Good, Wake
  <1>2. r \in Streams
    BY <1>1 DEF Good, Placed
  <1>3. PICK p : p = [q EXCEPT !.available = up]
    OBVIOUS
  <1>4. p \in Request /\ p.at = "waking" /\ Kept(q, p) /\ Told(q, p)
    BY <1>1, <1>3 DEF Request, Kept, Told
  <1>5. Good(r, p)
    BY <1>1, <1>4 DEF Good, Untouched, Placed, Budgeted, Budget, Evident, Spoken, Closed, Kept,
                      Told, Early, Ends, ConstantsAssumption
  <1>6. PICK n \in Request : /\ n = BeginStream(p) /\ Good(r, n) /\ Told(p, n)
                             /\ StepsLeft(n) < StepsLeft(p)
    BY <1>2, <1>4, <1>5, BeginGood
  <1>7. Moves(r, q, n) /\ Becomes(r, n)
    BY <1>1, <1>3, <1>4, <1>6 DEF Moves, Told, Ends, Wake
  <1>8. StepsLeft(p) = StepsLeft(q)
    BY <1>1, <1>4, LeftAt
  <1> QED BY <1>1, <1>6, <1>7, <1>8 DEF Goes

-----------------------------------------------------------------------------
(* The locals of tool rounds, the last of which may just have been made.    *)
Planning(r, q) ==
    /\ q.at = "planning" /\ Placed(r, q) /\ q.prompt = "none"
    /\ q.attempt \in {1, 2} /\ (q.streams \/ r \notin Streams => q.attempt = 1)
    /\ q.refreshed <= (IF q.attempt = 1 THEN 0 ELSE MaxRefreshes) + q.counted
    /\ r \notin Streams \/ q.streams => q.results \subseteq {q.attempt}
    /\ r \in Streams => q.answer = Silent

(* However they end, the budget they had is used up at most.                *)
LEMMA PlannedGood ==
    ASSUME ConstantsAssumption, IInv, NEW r \in Requests, NEW b \in Request, Planning(r, b),
           NEW outcome \in {"error", "plain", "answered", "final"}
    PROVE  \E n \in Request : /\ n = Planned(b, outcome) /\ Good(r, n) /\ Told(b, n)
                              /\ n.at \notin Ends /\ StepsLeft(n) <= StepsLeft(b)
                              /\ b.round < MaxRounds => StepsLeft(n) < StepsLeft(b)
  <1>1. PICK p : p = [b EXCEPT !.round = 0, !.counted = 0]
    OBVIOUS
  <1>a. 0 \in 0..MaxRounds /\ 0 \in 0..MaxRefreshes
    BY DEF ConstantsAssumption
  <1>2. p \in Request
    BY <1>1, <1>a DEF Request
  <1>3. /\ p.round = 0 /\ p.counted = 0 /\ Told(b, p) /\ p.attempt = b.attempt
        /\ p.refreshed = b.refreshed /\ p.prompt = b.prompt /\ p.results = b.results
        /\ p.streams = b.streams
    BY <1>1 DEF Request, Told
  <1>4. /\ p.refreshed \in Nat /\ b.counted \in 0..MaxRefreshes /\ MaxRefreshes \in Nat
        /\ MaxRounds \in Nat \ {0}
    BY <1>2 DEF Request, ConstantsAssumption
  <1>5. /\ p.attempt \in {1, 2} /\ (p.streams \/ r \notin Streams => p.attempt = 1)
        /\ p.refreshed <= p.attempt * MaxRefreshes /\ p.prompt = "none"
        /\ (r \notin Streams \/ p.streams => p.results \subseteq {p.attempt})
        /\ (r \in Streams => p.answer = Silent) /\ (p.streams => r \in Streams)
    <2>1. b.refreshed <= b.attempt * MaxRefreshes
      BY <1>4 DEF Planning, Request
    <2> QED BY <1>3, <2>1 DEF Planning, Placed, Told
  <1>6. p.refreshed <= Budget(r) /\ (p.streams => p.refreshed <= MaxRefreshes)
    BY <1>4, <1>5 DEF Budget
  <1>7. CASE p.streams
    <2>1. PICK at \in {"answering", "streaming"} :
             at = (IF outcome = "error" THEN "answering" ELSE "streaming")
      OBVIOUS
    <2>2. PICK source \in Prompts :
             source = (IF outcome = "error" THEN p.source
                       ELSE IF outcome = "plain" THEN "abandoned" ELSE "tools")
      BY <1>2 DEF Prompts, Request
    <2>3. PICK results \in SUBSET {1, 2} :
             results = (IF outcome = "plain" THEN {} ELSE p.results)
      BY <1>2 DEF Request
    <2>4. PICK n : n = (CASE outcome = "error" -> [p EXCEPT !.at = "answering", !.streams = FALSE]
                          [] outcome = "plain" -> [p EXCEPT !.at = "streaming",
                                                     !.source = "abandoned", !.results = {}]
                          [] OTHER -> [p EXCEPT !.at = "streaming", !.source = "tools"])
      OBVIOUS
    <2>5. /\ n \in Request /\ n.at = at /\ Told(p, n)
          /\ n.round = 0 /\ n.counted = 0 /\ n.attempt = p.attempt
          /\ n.refreshed = p.refreshed /\ n.prompt = p.prompt
          /\ n.results = results /\ n.source = source /\ n.streams = (outcome # "error")
      <3>1. CASE outcome = "error"
        <4>1. n = [p EXCEPT !.at = "answering", !.streams = FALSE]
          BY <3>1, <2>4
        <4>2. n \in Request
          BY <1>2, <4>1 DEF Request, Places, Generating
        <4> QED BY <1>2, <1>3, <2>1, <2>2, <2>3, <3>1, <4>1, <4>2 DEF Request, Told
      <3>2. CASE outcome = "plain"
        <4>1. n = [p EXCEPT !.at = "streaming", !.source = "abandoned", !.results = {}]
          BY <3>2, <2>4
        <4>2. n \in Request
          BY <1>2, <4>1 DEF Request, Places, Generating, Prompts
        <4> QED BY <1>2, <1>3, <1>7, <2>1, <2>2, <2>3, <3>2, <4>1, <4>2 DEF Request, Told
      <3>3. CASE outcome \in {"answered", "final"}
        <4>1. n = [p EXCEPT !.at = "streaming", !.source = "tools"]
          BY <3>3, <2>4
        <4>2. n \in Request
          BY <1>2, <4>1 DEF Request, Places, Generating, Prompts
        <4> QED BY <1>2, <1>3, <1>7, <2>1, <2>2, <2>3, <3>3, <4>1, <4>2 DEF Request, Told
      <3> QED BY <3>1, <3>2, <3>3
    <2>6. n = Planned(b, outcome)
      BY <1>1, <1>7, <2>4 DEF Planned
    <2>7. Budgeted(r, n)
      BY <1>4, <1>5, <1>6, <1>7, <2>1, <2>5 DEF Budgeted, Ends
    <2>8. Evident(r, n)
      BY <1>5, <1>7, <2>1, <2>2, <2>3, <2>5 DEF Evident, Seen, Early
    <2>9. Untouched(n) /\ Placed(r, n) /\ Spoken(r, n) /\ Closed(r, n)
      BY <1>5, <1>7, <2>1, <2>5 DEF Untouched, Placed, Spoken, Closed, Told, Early, Ends
    <2>10. Good(r, n)
      BY <2>5, <2>7, <2>8, <2>9 DEF Good
    <2>11. /\ StepsLeft(n) <= StepsLeft(b)
           /\ b.round < MaxRounds => StepsLeft(n) < StepsLeft(b)
      <3>1. StepsLeft(b) = 7 + MaxRounds + MaxTokens + (MaxRounds - b.round)
        BY <1>3, <1>7, LeftAt DEF Planning
      <3>2. b.round \in 0..MaxRounds /\ MaxTokens \in Nat
        BY DEF Request, ConstantsAssumption
      <3>3. n.at = "answering" => StepsLeft(n) = 6 + MaxRounds
        BY <2>5, LeftAt
      <3>4. n.at = "streaming" =>
              StepsLeft(n) = 7 + MaxRounds + TokensLeft(n) /\ TokensLeft(n) \in 0..MaxTokens
        BY <2>5, LeftAt
      <3> QED BY <1>4, <2>1, <2>5, <3>1, <3>2, <3>3, <3>4
    <2> QED BY <1>3, <2>1, <2>5, <2>6, <2>10, <2>11 DEF Told, Ends
  <1>8. CASE ~p.streams
    <2>1. PICK at \in {"posting", "finishing"} :
             at = (IF outcome \in {"error", "answered"} THEN "finishing" ELSE "posting")
      OBVIOUS
    <2>2. PICK reuse \in BOOLEAN : reuse = (setup.promptReuse /\ reuseSupported)
      OBVIOUS
    <2>3. PICK n : n = (CASE outcome = "error" -> [p EXCEPT !.at = "finishing", !.streams = FALSE]
                          [] outcome = "answered" -> [p EXCEPT !.at = "finishing",
                                                               !.prompt = "tools"]
                          [] outcome = "plain" -> [p EXCEPT !.at = "posting",
                                              !.source = "abandoned", !.reuse = reuse]
                          [] OTHER -> [p EXCEPT !.at = "posting", !.source = "tools",
                                                !.reuse = reuse])
      OBVIOUS
    <2>4. /\ n \in Request /\ n.at = at /\ Told(p, n)
          /\ n.round = 0 /\ n.counted = 0 /\ n.attempt = p.attempt
          /\ n.refreshed = p.refreshed /\ n.results = p.results /\ ~n.streams
          /\ n.prompt = (IF outcome = "answered" THEN "tools" ELSE "none")
          /\ (at = "posting" => n.source = (IF outcome = "plain" THEN "abandoned" ELSE "tools"))
      <3>1. CASE outcome = "error"
        <4>1. n = [p EXCEPT !.at = "finishing", !.streams = FALSE]
          BY <3>1, <2>3
        <4>2. n \in Request
          BY <1>2, <4>1 DEF Request, Places, Generating
        <4> QED BY <1>2, <1>3, <1>5, <2>1, <3>1, <4>1, <4>2 DEF Request, Told
      <3>2. CASE outcome = "answered"
        <4>1. n = [p EXCEPT !.at = "finishing", !.prompt = "tools"]
          BY <3>2, <2>3
        <4>2. n \in Request
          BY <1>2, <4>1 DEF Request, Places, Generating, Prompts
        <4> QED BY <1>2, <1>3, <1>8, <2>1, <3>2, <4>1, <4>2 DEF Request, Told
      <3>3. CASE outcome = "plain"
        <4>1. n = [p EXCEPT !.at = "posting", !.source = "abandoned", !.reuse = reuse]
          BY <3>3, <2>3
        <4>2. n \in Request
          BY <1>2, <4>1 DEF Request, Places, Generating, Prompts
        <4> QED BY <1>2, <1>3, <1>5, <1>8, <2>1, <3>3, <4>1, <4>2 DEF Request, Told
      <3>4. CASE outcome = "final"
        <4>1. n = [p EXCEPT !.at = "posting", !.source = "tools", !.reuse = reuse]
          BY <3>4, <2>3
        <4>2. n \in Request
          BY <1>2, <4>1 DEF Request, Places, Generating, Prompts
        <4> QED BY <1>2, <1>3, <1>5, <1>8, <2>1, <3>4, <4>1, <4>2 DEF Request, Told
      <3> QED BY <3>1, <3>2, <3>3, <3>4
    <2>5. n = Planned(b, outcome)
      BY <1>1, <1>8, <2>2, <2>3 DEF Planned, Posting
    <2>6. Good(r, n)
      BY <1>4, <1>5, <1>6, <1>8, <2>1, <2>4
         DEF Good, Untouched, Placed, Budgeted, Evident, Seen, Spoken, Closed, Told, Early, Ends
    <2>7. /\ StepsLeft(n) <= StepsLeft(b)
          /\ b.round < MaxRounds => StepsLeft(n) < StepsLeft(b)
      BY <1>3, <1>4, <1>8, <2>1, <2>4, LeftAt DEF Planning, Request, ConstantsAssumption
    <2> QED BY <1>3, <2>1, <2>4, <2>5, <2>6, <2>7 DEF Told, Ends
  <1> QED BY <1>7, <1>8

LEMMA PlanningHere ==
    ASSUME ConstantsAssumption, IInv, NEW r \in Requests, req[r].at = "planning"
    PROVE  req[r] \in Request /\ Good(r, req[r]) /\ Planning(r, req[r])
  BY DEF IInv, Good, Budgeted, Evident, Spoken, Planning

LEMMA CallToolsGoes ==
    ASSUME ConstantsAssumption, IInv, NEW r \in Requests, NEW w \in {0, 1}, CallTools(r, w)
    PROVE  \E n \in Request : Goes(r, n)
  <1>1. PICK q \in Request : q = req[r] /\ Good(r, q) /\ Planning(r, q) /\ q.at = "planning"
                             /\ q.counted + w <= MaxRefreshes
    BY PlanningHere DEF CallTools
  <1>2. /\ q.round + 1 \in 0..MaxRounds /\ q.round + 1 \in Nat /\ q.counted + w \in 0..MaxRefreshes
        /\ q.refreshed + w \in Nat /\ q.results \cup {q.attempt} \in SUBSET {1, 2}
        /\ q.counted \in Nat /\ q.refreshed \in Nat
    BY <1>1 DEF Good, Budgeted, Request, Planning, ConstantsAssumption
  <1>3. PICK p : p = [q EXCEPT !.round = @ + 1, !.counted = @ + w, !.refreshed = @ + w,
                               !.results = @ \cup {q.attempt}]
    OBVIOUS
  <1>4. p \in Request
    BY <1>2, <1>3 DEF Request
  <1>5. /\ p.at = q.at /\ p.streams = q.streams /\ p.prompt = q.prompt /\ p.attempt = q.attempt
        /\ p.round = q.round + 1 /\ p.counted = q.counted + w /\ p.refreshed = q.refreshed + w
        /\ p.results = q.results \cup {q.attempt} /\ Told(q, p)
    BY <1>3 DEF Request, Told
  <1>6. Planning(r, p)
    BY <1>1, <1>2, <1>5 DEF Planning, Placed, Told, ConstantsAssumption
  <1>7. StepsLeft(p) < StepsLeft(q) /\ StepsLeft(p) \in Nat /\ StepsLeft(q) \in Nat
    BY <1>1, <1>2, <1>4, <1>5, LeftAt DEF Request, ConstantsAssumption
  <1>8. CASE p.round = MaxRounds
    <2>1. PICK n \in Request : /\ n = Planned(p, "final") /\ Good(r, n) /\ Told(p, n)
                               /\ n.at \notin Ends /\ StepsLeft(n) <= StepsLeft(p)
      BY <1>4, <1>6, PlannedGood
    <2>2. Moves(r, q, n) /\ Becomes(r, n)
      BY <1>1, <1>3, <1>5, <1>8, <2>1 DEF Moves, Told, Ends, CallTools
    <2>3. StepsLeft(n) < StepsLeft(q)
      BY <1>7, <2>1, LeftAt
    <2> QED BY <1>1, <2>1, <2>2, <2>3 DEF Goes
  <1>9. CASE p.round # MaxRounds
    <2>1. p.round < MaxRounds
      BY <1>2, <1>5, <1>9 DEF ConstantsAssumption
    <2>2. p.refreshed <= Budget(r)
      <3>1. p.counted <= MaxRefreshes /\ MaxRefreshes \in Nat /\ p.counted \in Nat
            /\ p.refreshed \in Nat
        BY <1>2, <1>5 DEF ConstantsAssumption
      <3> QED BY <1>6, <3>1 DEF Planning, Budget
    <2>3. Good(r, p)
      BY <1>4, <1>5, <1>6, <2>1, <2>2, <1>1 DEF Good, Untouched, Placed, Budgeted, Evident, Spoken,
                        Closed, Planning, Told, Early, Ends
    <2>4. Moves(r, q, p) /\ Becomes(r, p)
      BY <1>1, <1>3, <1>5, <1>9 DEF Moves, Told, Ends, CallTools
    <2> QED BY <1>1, <1>4, <1>7, <2>3, <2>4 DEF Goes
  <1> QED BY <1>8, <1>9

LEMMA PlanEndsGoes ==
    ASSUME ConstantsAssumption, IInv, NEW r \in Requests,
           PlanAnswers(r) \/ ToolsUnsupported(r) \/ PlanFails(r)
    PROVE  \E n \in Request : Goes(r, n)
  <1>1. PICK q \in Request : q = req[r] /\ Good(r, q) /\ Planning(r, q) /\ q.at = "planning"
    BY PlanningHere DEF PlanAnswers, ToolsUnsupported, PlanFails
  <1>2. PICK outcome \in {"error", "plain", "answered"} : Becomes(r, Planned(q, outcome))
    BY <1>1 DEF PlanAnswers, ToolsUnsupported, PlanFails
  <1>3. PICK n \in Request : /\ n = Planned(q, outcome) /\ Good(r, n) /\ Told(q, n)
                             /\ n.at \notin Ends
                             /\ q.round < MaxRounds => StepsLeft(n) < StepsLeft(q)
    BY <1>1, PlannedGood
  <1>4. Moves(r, q, n)
    BY <1>1, <1>3 DEF Moves, Told, Ends
  <1>5. q.round < MaxRounds
    BY <1>1 DEF Good, Budgeted
  <1> QED BY <1>1, <1>2, <1>3, <1>4, <1>5 DEF Goes

-----------------------------------------------------------------------------
LEMMA TokenGoes ==
    ASSUME ConstantsAssumption, IInv, NEW r \in Requests, Token(r)
    PROVE  \E n \in Request : Goes(r, n)
  <1>1. PICK q \in Request : q = req[r] /\ Good(r, q) /\ q.at = "streaming"
    BY DEF IInv, Good, Token
  <1>2. PICK n : n = [q EXCEPT !.tokens = @ + 1, !.answer = "streamed"]
    OBVIOUS
  <1>3. q.tokens + 1 \in Nat /\ q.tokens \in Nat
    BY DEF Request
  <1>4. n \in Request
    BY <1>2, <1>3 DEF Request, Answers
  <1>5. /\ n.at = q.at /\ Kept(q, n) /\ n.source = q.source
        /\ n.tokens = q.tokens + 1 /\ n.answer = "streamed"
    BY <1>2 DEF Request, Kept
  <1>6. Good(r, n)
    BY <1>1, <1>3, <1>4, <1>5 DEF Good, Untouched, Placed, Budgeted, Budget, Evident, Seen, Spoken,
                      Closed, Kept, Early, Ends
  <1>7. Moves(r, q, n)
    BY <1>1, <1>5 DEF Moves, Good, Spoken, Ends, Answers
  <1>8. Becomes(r, n)
    BY <1>1, <1>2 DEF Token
  <1>9. q.tokens < MaxTokens
    BY <1>1 DEF Token
  <1>10. TokensLeft(n) < TokensLeft(q)
    BY <1>3, <1>5, <1>9 DEF TokensLeft, ConstantsAssumption
  <1>11. StepsLeft(n) < StepsLeft(q)
    BY <1>1, <1>4, <1>5, <1>10, LeftAt DEF ConstantsAssumption
  <1> QED BY <1>1, <1>4, <1>6, <1>7, <1>8, <1>11 DEF Goes

LEMMA StreamEndsGoes ==
    ASSUME ConstantsAssumption, IInv, NEW r \in Requests, StreamEnds(r)
    PROVE  \E n \in Request : Goes(r, n)
  <1>1. PICK q \in Request : q = req[r] /\ Good(r, q) /\ q.at = "streaming"
    BY DEF IInv, Good, StreamEnds
  <1>2. PICK source \in Prompts : source = q.source
    BY DEF Request
  <1>3. PICK n : n = [q EXCEPT !.at = "finishing", !.prompt = source]
    OBVIOUS
  <1>4. n \in Request
    BY <1>2, <1>3 DEF Request, Places, Generating
  <1>5. /\ n.at = "finishing" /\ Told(q, n) /\ n.attempt = q.attempt /\ n.round = q.round
        /\ n.counted = q.counted /\ n.refreshed = q.refreshed /\ n.streams = q.streams
        /\ n.results = q.results /\ n.prompt = q.source
    BY <1>2, <1>3 DEF Request, Told
  <1>6. Good(r, n)
    BY <1>1, <1>4, <1>5 DEF Good, Untouched, Placed, Budgeted, Budget, Evident, Seen, Spoken,
                      Closed, Told, Early, Ends
  <1>7. Moves(r, q, n) /\ Becomes(r, n)
    BY <1>1, <1>2, <1>3, <1>5 DEF Moves, Told, Ends, StreamEnds
  <1>8. StepsLeft(n) < StepsLeft(q)
    BY <1>1, <1>4, <1>5, LeftAt DEF ConstantsAssumption
  <1> QED BY <1>1, <1>4, <1>6, <1>7, <1>8 DEF Goes

LEMMA StreamFailsGoes ==
    ASSUME ConstantsAssumption, IInv, NEW r \in Requests, StreamFails(r)
    PROVE  \E n \in Request : Goes(r, n)
  <1>1. PICK q \in Request : q = req[r] /\ Good(r, q) /\ q.at = "streaming"
    BY DEF IInv, Good, StreamFails
  <1>2. r \in Streams
    BY <1>1 DEF Good, Placed
  <1>3. CASE q.tokens = 0
    <2>1. PICK n : n = [q EXCEPT !.at = "answering", !.streams = FALSE, !.source = "none"]
      OBVIOUS
    <2>2. n \in Request
      BY <2>1 DEF Request, Places, Generating, Prompts
    <2>3. /\ n.at = "answering" /\ Told(q, n) /\ n.attempt = q.attempt /\ n.round = q.round
          /\ n.counted = q.counted /\ n.refreshed = q.refreshed /\ ~n.streams
          /\ n.prompt = q.prompt
      BY <2>1 DEF Request, Told
    <2>4. Good(r, n)
      BY <1>1, <1>2, <1>3, <2>2, <2>3 DEF Good, Untouched, Placed, Budgeted, Budget, Evident, Spoken,
                      Closed, Told, Early, Ends
    <2>5. Moves(r, q, n) /\ Becomes(r, n)
      BY <1>1, <1>3, <2>1, <2>3 DEF Moves, Told, Ends, StreamFails
    <2>6. StepsLeft(n) < StepsLeft(q)
      BY <1>1, <2>2, <2>3, LeftAt DEF ConstantsAssumption
    <2> QED BY <1>1, <2>2, <2>4, <2>5, <2>6 DEF Goes
  <1>4. CASE q.tokens # 0
    <2>1. PICK c \in Request : /\ c = (IF setup.progress THEN Complete(q) ELSE q)
                               /\ Kept(q, c) /\ Told(q, c) /\ (setup.progress => c.graph # "open")
      BY CompleteKeeps DEF Kept, Told
    <2>2. PICK n \in Request : n = Over(c, "broken") /\ n.at = "broken" /\ Kept(c, n)
                               /\ Told(c, n) /\ n.graph = c.graph
      BY OverKeeps DEF Ends
    <2>3. Kept(q, n) /\ Told(q, n)
      BY <2>1, <2>2 DEF Kept, Told
    <2>4. Becomes(r, n)
      BY <1>1, <1>4, <2>1, <2>2 DEF StreamFails
    <2> QED BY <1>1, <1>2, <2>1, <2>2, <2>3, <2>4, EndGoes DEF Ends
  <1> QED BY <1>3, <1>4

-----------------------------------------------------------------------------
LEMMA AskGoes ==
    ASSUME ConstantsAssumption, IInv, NEW r \in Requests, NEW up \in BOOLEAN, Ask(r, up)
    PROVE  \E n \in Request : Goes(r, n)
  <1>1. PICK q \in Request : q = req[r] /\ Good(r, q) /\ q.at = "asking"
    BY DEF IInv, Good, Ask
  <1>2. CASE ~up
    <2>1. PICK n : n = [q EXCEPT !.at = "finishing"]
      OBVIOUS
    <2>2. n \in Request /\ n.at = "finishing" /\ Kept(q, n) /\ Told(q, n)
      BY <2>1 DEF Request, Places, Generating, Kept, Told
    <2>3. Good(r, n)
      BY <1>1, <2>2 DEF Good, Untouched, Placed, Budgeted, Budget, Evident, Spoken, Closed, Kept,
                        Told, Early, Ends
    <2>4. Moves(r, q, n) /\ Becomes(r, n)
      BY <1>1, <1>2, <2>1, <2>2 DEF Moves, Told, Ends, Ask
    <2>5. StepsLeft(n) < StepsLeft(q)
      BY <1>1, <2>2, LeftAt DEF ConstantsAssumption
    <2> QED BY <1>1, <2>2, <2>3, <2>4, <2>5 DEF Goes
  <1>3. CASE up /\ setup.tools /\ toolsSupported
    <2>1. PICK n : n = [q EXCEPT !.at = "planning", !.attempt = @ + 1]
      OBVIOUS
    <2>2. q.attempt + 1 \in 0..2 /\ q.attempt \in {0, 1} /\ MaxRefreshes \in Nat
      BY <1>1 DEF Good, Budgeted, ConstantsAssumption
    <2>3. n \in Request
      BY <2>1, <2>2 DEF Request, Places, Generating
    <2>4. /\ n.at = "planning" /\ Told(q, n) /\ n.attempt = q.attempt + 1 /\ n.round = q.round
          /\ n.counted = q.counted /\ n.refreshed = q.refreshed /\ n.streams = q.streams
          /\ n.prompt = q.prompt /\ n.results = q.results
      BY <2>1 DEF Request, Told
    <2>5. Budgeted(r, n)
      BY <1>1, <2>2, <2>4 DEF Good, Placed, Budgeted, Budget, Ends, Request
    <2>6. Good(r, n)
      BY <1>1, <2>3, <2>4, <2>5 DEF Good, Untouched, Placed, Evident, Spoken, Closed, Told, Early,
                        Ends
    <2>7. Moves(r, q, n) /\ Becomes(r, n)
      BY <1>1, <1>3, <2>1, <2>4 DEF Moves, Told, Ends, Ask
    <2>8. ~q.streams /\ q.round = 0
      BY <1>1 DEF Good, Placed, Budgeted, Ends
    <2>9. StepsLeft(n) < StepsLeft(q)
      BY <1>1, <2>3, <2>4, <2>8, LeftAt DEF ConstantsAssumption
    <2> QED BY <1>1, <2>3, <2>6, <2>7, <2>9 DEF Goes
  <1>4. CASE up /\ ~(setup.tools /\ toolsSupported)
    <2>1. PICK reuse \in BOOLEAN : reuse = (setup.promptReuse /\ reuseSupported)
      OBVIOUS
    <2>2. PICK n : n = [q EXCEPT !.at = "posting", !.source = "plain", !.reuse = reuse]
      OBVIOUS
    <2>3. n \in Request
      BY <2>2 DEF Request, Places, Generating, Prompts
    <2>4. n.at = "posting" /\ Kept(q, n) /\ Told(q, n) /\ n.source = "plain"
      BY <2>2 DEF Request, Kept, Told
    <2>5. Good(r, n)
      BY <1>1, <2>3, <2>4 DEF Good, Untouched, Placed, Budgeted, Budget, Evident, Seen, Spoken,
                        Closed, Kept, Told, Early, Ends
    <2>6. Moves(r, q, n) /\ Becomes(r, n)
      BY <1>1, <1>4, <2>1, <2>2, <2>4 DEF Moves, Told, Ends, Ask, Posting
    <2>7. StepsLeft(n) < StepsLeft(q)
      BY <1>1, <2>3, <2>4, LeftAt DEF ConstantsAssumption
    <2> QED BY <1>1, <2>3, <2>5, <2>6, <2>7 DEF Goes
  <1> QED BY <1>2, <1>3, <1>4

LEMMA PostedGood ==
    ASSUME ConstantsAssumption, IInv, NEW r \in Requests, NEW q \in Request, Good(r, q),
           q.at = "posting"
    PROVE  \E n \in Request : n = Posted(q) /\ Good(r, n) /\ Told(q, n) /\ n.at \notin Ends
                              /\ StepsLeft(n) < StepsLeft(q)
  <1>1. PICK source \in Prompts : source = q.source
    BY DEF Request
  <1>2. PICK results \in SUBSET {1, 2} :
           results = (IF q.source = "abandoned" THEN {} ELSE q.results)
    BY DEF Request
  <1>3. PICK n : n = [q EXCEPT !.at = "finishing", !.prompt = source, !.source = "none",
                               !.reuse = FALSE, !.results = results]
    OBVIOUS
  <1>4. n \in Request
    BY <1>3 DEF Request, Places, Generating, Prompts
  <1>5. /\ n.at = "finishing" /\ Told(q, n) /\ n.attempt = q.attempt /\ n.round = q.round
        /\ n.counted = q.counted /\ n.refreshed = q.refreshed /\ n.streams = q.streams
        /\ n.prompt = source /\ n.results = results
    BY <1>3 DEF Request, Told
  <1>6. Good(r, n)
    BY <1>1, <1>2, <1>4, <1>5 DEF Good, Untouched, Placed, Budgeted, Budget, Evident, Seen,
                      Spoken, Closed, Told, Early, Ends
  <1>7. n = Posted(q)
    BY <1>1, <1>2, <1>3 DEF Posted
  <1>8. StepsLeft(n) < StepsLeft(q)
    BY <1>4, <1>5, LeftAt
  <1> QED BY <1>4, <1>5, <1>6, <1>7, <1>8 DEF Ends

LEMMA PostGoes ==
    ASSUME ConstantsAssumption, IInv, NEW r \in Requests, Post(r) \/ PostFails(r)
    PROVE  \E n \in Request : Goes(r, n)
  <1>1. PICK q \in Request : q = req[r] /\ Good(r, q) /\ q.at = "posting"
    BY DEF IInv, Good, Post, PostFails
  <1>2. CASE Becomes(r, Posted(q))
    <2>1. PICK n \in Request : n = Posted(q) /\ Good(r, n) /\ Told(q, n) /\ n.at \notin Ends
                               /\ StepsLeft(n) < StepsLeft(q)
      BY <1>1, PostedGood
    <2>2. Moves(r, q, n)
      BY <1>1, <2>1 DEF Moves, Told, Ends
    <2> QED BY <1>1, <1>2, <2>1, <2>2 DEF Goes
  <1>3. CASE q.reuse /\ Becomes(r, [q EXCEPT !.reuse = FALSE])
    <2>1. PICK n : n = [q EXCEPT !.reuse = FALSE]
      OBVIOUS
    <2>2. /\ n \in Request /\ n.at = q.at /\ Kept(q, n) /\ Told(q, n) /\ n.source = q.source
          /\ ~n.reuse
      BY <2>1 DEF Request, Kept, Told
    <2>3. Good(r, n)
      BY <1>1, <2>2 DEF Good, Untouched, Placed, Budgeted, Budget, Evident, Seen, Spoken, Closed,
                        Kept, Told, Early, Ends
    <2>4. Moves(r, q, n)
      BY <1>1, <2>2 DEF Moves, Told, Ends
    <2>5. StepsLeft(n) < StepsLeft(q)
      BY <1>1, <1>3, <2>2, LeftAt
    <2> QED BY <1>1, <1>3, <2>1, <2>2, <2>3, <2>4, <2>5 DEF Goes
  <1> QED BY <1>1, <1>2, <1>3 DEF Post, PostFails

-----------------------------------------------------------------------------
LEMMA FinishGoes ==
    ASSUME ConstantsAssumption, IInv, NEW r \in Requests, Finish(r)
    PROVE  \E n \in Request : Goes(r, n)
  <1>1. PICK q \in Request : q = req[r] /\ Good(r, q) /\ q.at = "finishing"
    BY DEF IInv, Good, Finish
  <1>2. PICK c \in Request : /\ c = Complete(q) /\ c.at = q.at /\ Kept(q, c) /\ Told(q, c)
                             /\ c.graph # "open"
    BY CompleteKeeps
  <1>3. PICK o \in Request : /\ o = Over(c, "done") /\ o.at = "done" /\ Kept(c, o) /\ Told(c, o)
                             /\ o.graph # "open"
    BY <1>2, OverKeeps DEF Ends
  <1>4. CASE r \notin Streams
    <2>1. PICK n : n = [o EXCEPT !.answer = "fallback"]
      OBVIOUS
    <2>2. n \in Request
      BY <2>1 DEF Request, Answers
    <2>3. n.at = "done" /\ Kept(o, n) /\ n.graph # "open"
      BY <1>3, <2>1 DEF Request, Kept
    <2>4. Kept(q, n)
      BY <1>2, <1>3, <2>3 DEF Kept
    <2>5. Becomes(r, n)
      BY <1>1, <1>2, <1>3, <1>4, <2>1 DEF Finish
    <2> QED BY <1>1, <1>4, <2>2, <2>3, <2>4, <2>5, EndGoes DEF Ends
  <1>5. CASE r \in Streams /\ q.streams
    <2>1. Kept(q, o) /\ Told(q, o)
      BY <1>2, <1>3 DEF Kept, Told
    <2>2. Becomes(r, o)
      BY <1>1, <1>2, <1>3, <1>5 DEF Finish, Kept
    <2> QED BY <1>1, <1>3, <2>1, <2>2, EndGoes DEF Ends
  <1>6. CASE r \in Streams /\ ~q.streams
    <2>1. PICK n : n = [c EXCEPT !.at = "closing", !.answer = "fallback", !.tokens = @ + 1]
      OBVIOUS
    <2>2. c.tokens + 1 \in Nat
      BY DEF Request
    <2>3. n \in Request
      BY <2>1, <2>2 DEF Request, Answers, Places, Generating
    <2>4. /\ n.at = "closing" /\ Kept(c, n) /\ n.graph # "open" /\ n.answer = "fallback"
          /\ n.tokens = c.tokens + 1
      BY <1>2, <2>1 DEF Request, Kept
    <2>5. Kept(q, n) /\ n.tokens = q.tokens + 1
      BY <1>2, <2>4 DEF Kept, Told
    <2>6. q.answer = Silent
      BY <1>1, <1>6 DEF Good, Spoken
    <2>7. Good(r, n)
      BY <1>1, <1>6, <2>3, <2>4, <2>5 DEF Good, Untouched, Placed, Budgeted, Budget, Evident, Seen,
            Spoken, Closed, Kept, Early, Ends
    <2>8. Moves(r, q, n)
      BY <1>1, <2>4, <2>5, <2>6 DEF Moves, Ends, Answers
    <2>9. Becomes(r, n)
      BY <1>1, <1>2, <1>6, <2>1 DEF Finish, Kept
    <2>10. StepsLeft(n) < StepsLeft(q)
      BY <1>1, <2>3, <2>4, LeftAt
    <2> QED BY <1>1, <2>3, <2>7, <2>8, <2>9, <2>10 DEF Goes
  <1> QED BY <1>4, <1>5, <1>6

LEMMA BreaksGoes ==
    ASSUME ConstantsAssumption, IInv, NEW r \in Requests, Breaks(r)
    PROVE  \E n \in Request : Goes(r, n)
  <1>1. PICK q \in Request : q = req[r] /\ Good(r, q) /\ q.at \in {"planning", "finishing"}
    BY DEF IInv, Good, Breaks
  <1>2. PICK c \in {q, Complete(q)} : /\ r \notin Streams => c = Complete(q)
                                      /\ Becomes(r, Over(c, "failed"))
    BY <1>1 DEF Breaks
  <1>3. c \in Request /\ Kept(q, c) /\ Told(q, c) /\ (r \notin Streams => c.graph # "open")
    BY <1>2, CompleteKeeps DEF Kept, Told
  <1>4. PICK n \in Request : /\ n = Over(c, "failed") /\ n.at = "failed" /\ Kept(c, n)
                             /\ Told(c, n) /\ n.graph = c.graph
    BY <1>3, OverKeeps DEF Ends
  <1>5. Kept(q, n) /\ Told(q, n)
    BY <1>3, <1>4 DEF Kept, Told
  <1> QED BY <1>1, <1>2, <1>3, <1>4, <1>5, EndGoes DEF Ends

LEMMA CloseGoes ==
    ASSUME ConstantsAssumption, IInv, NEW r \in Requests, Close(r) \/ Leave(r)
    PROVE  \E n \in Request : Goes(r, n)
  <1>1. PICK q \in Request : q = req[r] /\ Good(r, q) /\ q.at \in Generating
    BY DEF IInv, Good, Close, Leave, Generating
  <1>2. PICK end \in {"done", "gone"} :
           /\ Becomes(r, Over(q, end)) /\ (end = "done" => q.at = "closing")
           /\ (end = "gone" => r \in Streams)
    BY <1>1 DEF Close, Leave
  <1>3. PICK n \in Request : /\ n = Over(q, end) /\ n.at = end /\ Kept(q, n) /\ Told(q, n)
                             /\ n.graph = q.graph
    BY OverKeeps DEF Ends
  <1>4. end = "done" => n.graph # "open"
    BY <1>1, <1>2, <1>3 DEF Good, Closed
  <1> QED BY <1>1, <1>2, <1>3, <1>4, EndGoes DEF Ends, Generating

-----------------------------------------------------------------------------
LEMMA InitGood ==
    ASSUME ConstantsAssumption, Init
    PROVE  IInv
  <1>1. \A r \in Requests : req[r] = New /\ Good(r, req[r])
    BY NewGood DEF Init
  <1>2. req \in [Requests -> Request]
    BY <1>1 DEF Init, Good
  <1>3. setup \in Setup /\ setup \in Setups /\ 0 \in 0..MaxFaults
    BY DEF Init, ConstantsAssumption
  <1> QED BY <1>1, <1>2, <1>3 DEF Init, IInv

(* One request goes on, or the cached health expires.                       *)
LEMMA OneGoes ==
    ASSUME ConstantsAssumption, IInv, Next
    PROVE  \/ \E r \in Requests : \E n \in Request : Goes(r, n)
           \/ UNCHANGED req
  <1>1. CASE HealthExpires
    BY <1>1 DEF HealthExpires
  <1>2. ASSUME NEW r \in Requests, Arrive(r) \/ Step(r) \/ BuildFails(r) \/ Breaks(r) \/ Leave(r)
        PROVE  \E n \in Request : Goes(r, n)
    <2>1. CASE Arrive(r)
      BY <2>1, ArriveGoes
    <2>2. CASE BuildFails(r)
      BY <2>2, BuildFailsGoes
    <2>3. CASE Breaks(r)
      BY <2>3, BreaksGoes
    <2>4. CASE Leave(r)
      BY <2>4, CloseGoes
    <2>5. CASE Step(r)
      <3>1. ASSUME NEW e \in BOOLEAN, NEW t \in BOOLEAN, Build(r, e, t)
            PROVE  \E n \in Request : Goes(r, n)
        BY <3>1, BuildGoes
      <3>2. ASSUME NEW up \in BOOLEAN, Probe(r, up) \/ Wake(r, up) \/ Ask(r, up)
            PROVE  \E n \in Request : Goes(r, n)
        BY <3>2, ProbeGoes, WakeGoes, AskGoes
      <3>3. CASE Deterministic(r) \/ NotDeterministic(r)
        BY <3>3, DeterministicGoes, NotDeterministicGoes
      <3>4. ASSUME NEW w \in {0, 1}, CallTools(r, w)
            PROVE  \E n \in Request : Goes(r, n)
        BY <3>4, CallToolsGoes
      <3>5. CASE PlanAnswers(r) \/ ToolsUnsupported(r) \/ PlanFails(r)
        BY <3>5, PlanEndsGoes
      <3>6. CASE Token(r) \/ StreamEnds(r) \/ StreamFails(r)
        BY <3>6, TokenGoes, StreamEndsGoes, StreamFailsGoes
      <3>7. CASE Post(r) \/ PostFails(r) \/ Finish(r) \/ Close(r)
        BY <3>7, PostGoes, FinishGoes, CloseGoes
      <3> QED BY <2>5, <3>1, <3>2, <3>3, <3>4, <3>5, <3>6, <3>7 DEF Step
    <2> QED BY <1>2, <2>1, <2>2, <2>3, <2>4, <2>5
  <1> QED BY <1>1, <1>2 DEF Next

(* What the requests share stays what it is.                                *)
LEMMA SharedKept ==
    ASSUME ConstantsAssumption, IInv, Next
    PROVE  /\ setup' = setup /\ toolsSupported' \in BOOLEAN /\ reuseSupported' \in BOOLEAN
           /\ health' \in {"up", "down", "stale"} /\ faults' \in 0..MaxFaults
  <1> USE DEF IInv, flags
  <1>1. CASE HealthExpires
    BY <1>1 DEF HealthExpires
  <1>2. ASSUME NEW r \in Requests, Arrive(r) \/ BuildFails(r) \/ Breaks(r) \/ Leave(r)
        PROVE  /\ setup' = setup /\ toolsSupported' \in BOOLEAN /\ reuseSupported' \in BOOLEAN
               /\ health' \in {"up", "down", "stale"} /\ faults' \in 0..MaxFaults
    BY <1>2 DEF Arrive, BuildFails, Breaks, Leave, Fault, ConstantsAssumption
  <1>3. ASSUME NEW r \in Requests, Step(r)
        PROVE  /\ setup' = setup /\ toolsSupported' \in BOOLEAN /\ reuseSupported' \in BOOLEAN
               /\ health' \in {"up", "down", "stale"} /\ faults' \in 0..MaxFaults
    BY <1>3 DEF Step, Build, Probe, Wake, Ask, CheckHealth, Deterministic, NotDeterministic,
                CallTools, PlanAnswers, ToolsUnsupported, PlanFails, Token, StreamEnds, StreamFails,
                Post, PostFails, Finish, Close
  <1> QED BY <1>1, <1>2, <1>3 DEF Next

LEMMA NextGood ==
    ASSUME ConstantsAssumption, IInv, Next
    PROVE  IInv'
  <1>1. CASE UNCHANGED req
    BY <1>1, SharedKept DEF IInv, Good, Untouched, Placed, Budgeted, Evident, Spoken, Closed, Budget,
                            Seen
  <1>2. ASSUME NEW r \in Requests, NEW n \in Request, Goes(r, n)
        PROVE  IInv'
    <2>1. \A s \in Requests : req'[s] = (IF s = r THEN n ELSE req[s])
      BY <1>2 DEF Goes, Becomes, IInv
    <2>2. req' \in [Requests -> Request]
      BY <1>2 DEF Goes, Becomes, IInv
    <2>3. ASSUME NEW s \in Requests, NEW m \in Request, Good(s, m)
          PROVE  Good(s, m)'
      BY <2>3, SharedKept DEF Good, Closed
    <2>4. ASSUME NEW s \in Requests
          PROVE  Good(s, req[s])'
      <3>1. PICK m \in Request : m = req'[s] /\ Good(s, m)
        BY <1>2, <2>1 DEF Goes, IInv, Good
      <3>2. Good(s, m)'
        BY <3>1, <2>3
      <3> QED BY <3>1, <3>2
    <2> QED BY <2>2, <2>4, SharedKept DEF IInv
  <1> QED BY <1>1, <1>2, OneGoes

LEMMA Invariance ==
    ASSUME ConstantsAssumption
    PROVE  Spec => []IInv
  <1>1. Init => IInv
    BY InitGood
  <1>2. IInv /\ [Next]_vars => IInv'
    <2>1. CASE UNCHANGED vars
      BY <2>1 DEF IInv, vars, flags, Good, Untouched, Placed, Budgeted, Evident, Spoken, Closed,
                  Budget, Seen
    <2> QED BY <2>1, NextGood
  <1> QED BY <1>1, <1>2, PTL DEF Spec

(* Every variable stays in its type.                                        *)
THEOREM TypeCorrect == Spec => []TypeOK
  <1>1. IInv => TypeOK
    BY DEF IInv, TypeOK
  <1> QED BY <1>1, Invariance, ConstantsAssumption, PTL

(* The evidence trace of an answer holds what that answer saw of tools, for *)
(* any rounds and any order of failures and fallbacks.                      *)
THEOREM EvidenceExact == Spec => []EvidenceIsExact
  <1>1. IInv => EvidenceIsExact
    BY DEF IInv, EvidenceIsExact, Good, Evident, Seen
  <1> QED BY <1>1, Invariance, ConstantsAssumption, PTL

(* No request makes more refreshes than its budget, or a stream than twice  *)
(* its budget, for any budget and any number of rounds.                     *)
THEOREM RefreshBudget == Spec => []RefreshesBounded
  <1>1. IInv => RefreshesBounded
    BY DEF IInv, RefreshesBounded, Good, Budgeted, Budget
  <1> QED BY <1>1, Invariance, ConstantsAssumption, PTL

(* A request that is over leaves its graph trace open only in the cases the *)
(* property names.                                                          *)
THEOREM TracesClosed == Spec => []TraceIsClosed
  <1>1. IInv => TraceIsClosed
    BY DEF IInv, TraceIsClosed, Good, Closed, Ended
  <1> QED BY <1>1, Invariance, ConstantsAssumption, PTL

(* Every step of a request brings it nearer to its end, whatever fails, for *)
(* any rounds, tokens and faults: no retry and no fallback sends it round in *)
(* circles (the safety half of EveryRequestEnds).                           *)
THEOREM RequestsRunOut ==
    Spec => [][\A r \in Requests :
                  req'[r] # req[r] => StepsLeft(req'[r]) < StepsLeft(req[r])]_vars
  <1>1. ASSUME IInv, Next, NEW r \in Requests, req'[r] # req[r]
        PROVE  StepsLeft(req'[r]) < StepsLeft(req[r])
    <2>1. PICK s \in Requests, n \in Request : Goes(s, n)
      BY <1>1, OneGoes, ConstantsAssumption
    <2>2. s = r /\ req'[r] = n
      BY <1>1, <2>1 DEF Goes, Becomes, IInv
    <2> QED BY <2>1, <2>2 DEF Goes
  <1>2. IInv /\ [Next]_vars => [\A r \in Requests :
             req'[r] # req[r] => StepsLeft(req'[r]) < StepsLeft(req[r])]_vars
    BY <1>1
  <1> QED BY <1>2, Invariance, ConstantsAssumption, PTL DEF Spec

-----------------------------------------------------------------------------
(* A step of the request path is a step of what a stream promises.          *)
LEMMA StepKeepsPromise ==
    ASSUME ConstantsAssumption, IInv, Next
    PROVE  Promise!Next \/ UNCHANGED <<[r \in Streams |-> req[r].answer],
                                       [r \in Streams |-> req[r].tokens],
                                       {r \in Streams : Ended(r)}>>
  <1>1. CASE UNCHANGED req
    BY <1>1 DEF Ended
  <1>2. ASSUME NEW r \in Requests, NEW n \in Request, Goes(r, n)
        PROVE  Promise!Next \/ UNCHANGED <<[s \in Streams |-> req[s].answer],
                                           [s \in Streams |-> req[s].tokens],
                                           {s \in Streams : Ended(s)}>>
    <2>1. \A s \in Requests : req'[s] = (IF s = r THEN n ELSE req[s])
      BY <1>2 DEF Goes, Becomes, IInv
    <2>2. Streams \subseteq Requests
      BY DEF ConstantsAssumption
    <2>3. CASE r \notin Streams
      BY <2>1, <2>2, <2>3 DEF Ended
    <2>4. CASE r \in Streams /\ Told(req[r], n) /\ n.at \notin Ends
      BY <1>2, <2>1, <2>2, <2>4 DEF Ended, Told, Goes, Moves
    <2>5. CASE r \in Streams /\ Told(req[r], n) /\ n.at \in Ends
      <3>1. Promise!End(r)
        BY <2>1, <2>2, <2>5 DEF Promise!End, Ended, Told
      <3> QED BY <2>5, <3>1 DEF Promise!Next
    <2>6. CASE r \in Streams /\ ~Told(req[r], n)
      <3>1. /\ req[r].at \notin Ends /\ n.at \notin Ends /\ n.answer \in Answers
            /\ req[r].answer \in {Silent, n.answer} /\ n.tokens = req[r].tokens + 1
        BY <1>2, <2>6 DEF Goes, Moves, Told
      <3>2. Promise!Say(r, n.answer)
        BY <2>1, <2>2, <2>6, <3>1 DEF Promise!Say, Ended
      <3> QED BY <2>6, <3>1, <3>2 DEF Promise!Next
    <2> QED BY <2>3, <2>4, <2>5, <2>6
  <1> QED BY <1>1, <1>2, OneGoes

(* Once it has sent a token a stream gives that answer only: the request    *)
(* path implements AnswerStream, for any rounds, tokens, faults and        *)
(* configurations.                                                          *)
THEOREM PromiseKept == Spec => KeepsItsPromise
  <1>1. Init => Promise!Init
    BY ConstantsAssumption DEF Init, Promise!Init, New, Ended, Ends
  <1>2. IInv /\ [Next]_vars => [Promise!Next]_<<[r \in Streams |-> req[r].answer],
                                                [r \in Streams |-> req[r].tokens],
                                                {r \in Streams : Ended(r)}>>
    <2>1. CASE UNCHANGED vars
      BY <2>1 DEF vars, Ended
    <2> QED BY <2>1, StepKeepsPromise, ConstantsAssumption
  <1> QED BY <1>1, <1>2, Invariance, ConstantsAssumption, PTL DEF Spec, KeepsItsPromise, Promise!Spec
=============================================================================
