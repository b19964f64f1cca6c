------------------------------ MODULE Bootstrap ------------------------------
(***************************************************************************)
(* The resumable bootstrap of src/scheduler/__init__.py (run_bootstrap)    *)
(* over its two tables: scheduler_runs, the run headers, and bootstrap_    *)
(* partitions, the manifest of each run with a checkpoint for every        *)
(* partition.  One invocation walks its sources in order and, in each, the *)
(* partitions not completed yet, in key order; it may be resumed, by hand, *)
(* as often as it was cut short.                                           *)
(*                                                                         *)
(* Sources and partitions are numbered in the order they are taken.        *)
(***************************************************************************)
EXTENDS Naturals, FiniteSets

CONSTANTS
    Runs,       \* run ids, in order of their start
    Sources,    \* bootstrap-capable sources
    Partitions, \* the partitions of each source's manifest
    Retried,    \* sources whose partial partitions are retried (federal_reserve)
    Cap,        \* partitions of one source taken in one invocation
    History,    \* max_run_summaries: closed runs kept
    Answerable, \* partitions whose provider answers if asked often enough
    None,
    MaxFaults   \* bound: interruptions, deaths and failed writes explored

ASSUME ConstantsAssumption ==
    /\ Runs \subseteq Nat
    /\ Sources \subseteq Nat
    /\ Partitions \in [Sources -> SUBSET Nat]
    /\ Retried \subseteq Sources
    /\ Cap \in Nat \ {0} /\ History \in Nat \ {0}
    /\ None \notin Nat
    /\ MaxFaults \in Nat

Work == UNION {{s} \X Partitions[s] : s \in Sources}

ASSUME AnswerableAssumption == Answerable \subseteq Work

RunStatuses == {"absent", "running", "success", "partial", "error", "skipped", "pruned"}
(* Mutant: a run without an end cannot be resumed.                         *)
ResumableClosed == {"partial", "error"}
Resumable == {"running", "partial", "error"}
Checkpoints == {"absent", "pending", "running", "completed", "partial", "error"}
Results == {"success", "partial", "error", "skipped"}

VARIABLES
    requested,  \* requested_sources_json of each run
    status,     \* scheduler_runs.status, "absent" before the row, "pruned" after
    checkpoint, \* [run][partition]: bootstrap_partitions.status
    pc, job,    \* the invocation in progress, and its locals
    torn,       \* runs an invocation left by an exception, or without its correction
    faults

tables == <<requested, status, checkpoint>>
vars == <<tables, pc, job, torn, faults>>

Places == {"idle", "source", "loop", "running", "persist", "correct"}
Job == [run: Runs, names: SUBSET Sources, results: SUBSET Results, aborted: BOOLEAN,
        source: Sources \cup {None}, prior: SUBSET Work, at: Nat, taken: Nat,
        result: Results]

TypeOK ==
    /\ requested \in [Runs -> SUBSET Sources]
    /\ status \in [Runs -> RunStatuses]
    /\ checkpoint \in [Runs -> [Work -> Checkpoints]]
    /\ pc \in Places
    /\ pc # "idle" => job \in Job
    /\ pc \in {"loop", "running"} => job.source \in job.names
    /\ torn \subseteq Runs
    /\ faults \in 0..MaxFaults

Init ==
    /\ requested = [r \in Runs |-> {}]
    /\ status = [r \in Runs |-> "absent"]
    /\ checkpoint = [r \in Runs |-> [w \in Work |-> "absent"]]
    /\ pc = "idle"
    /\ job = None
    /\ torn = {}
    /\ faults = 0

-----------------------------------------------------------------------------
First(n, S) == n \in S /\ \A m \in S : n <= m
Spend == faults < MaxFaults /\ faults' = faults + 1
Goto(place, j) == pc' = place /\ job' = j

NewJob(r, names) ==
    [run |-> r, names |-> names, results |-> {}, aborted |-> FALSE, source |-> None,
     prior |-> {}, at |-> 0, taken |-> 0, result |-> "success"]

(* A bootstrap of every source, or of the one named: the run header and the *)
(* whole manifest in one transaction (start_scheduler_run).                *)
Start(r, names) ==
    /\ pc = "idle"
    /\ First(r, {q \in Runs : status[q] = "absent"})
    /\ names = Sources \/ \E s \in Sources : names = {s}
    /\ requested' = [requested EXCEPT ![r] = names]
    /\ status' = [status EXCEPT ![r] = "running"]
    /\ checkpoint' = [checkpoint EXCEPT ![r] =
           [w \in Work |-> IF w[1] \in names THEN "pending" ELSE "absent"]]
    /\ Goto("source", NewJob(r, names))
    /\ UNCHANGED <<torn, faults>>

(* Mutant: a run that ended in part counts as closed.                       *)
ClosedInPart(st) == {r \in Runs : st[r] \in {"success", "skipped", "partial"}}
Closed(st) == {r \in Runs : st[r] \in {"success", "skipped"}}
Old(st) == {r \in Closed(st) : Cardinality({q \in Closed(st) : q > r}) >= History}

(* Every run ends by writing its status and pruning the history: the older   *)
(* of the closed runs go, and their partitions with them.                  *)
EndWith(st) ==
    /\ status' = [r \in Runs |-> IF r \in Old(st) THEN "pruned" ELSE st[r]]
    /\ requested' = [r \in Runs |-> IF r \in Old(st) THEN {} ELSE requested[r]]
    /\ checkpoint' = [r \in Runs |->
           IF r \in Old(st) THEN [w \in Work |-> "absent"] ELSE checkpoint[r]]

(* A run of another mode: it has no manifest and nothing to resume.         *)
OtherMode(r) ==
    /\ pc = "idle"
    /\ First(r, {q \in Runs : status[q] = "absent"})
    /\ EndWith([status EXCEPT ![r] = "success"])
    /\ UNCHANGED <<pc, job, torn, faults>>

(* get_resumable_bootstrap_run: the newest unfinished run, or the newest    *)
(* with the source asked for, of which only that one is taken up.          *)
Candidates(wanted) == {r \in Runs : status[r] \in Resumable /\ wanted \subseteq requested[r]}

Resume(r, wanted) ==
    /\ pc = "idle"
    /\ wanted = {} \/ \E s \in Sources : wanted = {s}
    /\ r \in Candidates(wanted)
    /\ \A q \in Candidates(wanted) : q <= r
    /\ Goto("source", NewJob(r, IF wanted = {} THEN requested[r] ELSE wanted))
    /\ UNCHANGED <<tables, torn, faults>>

Leave(s, result) ==
    Goto("source", [job EXCEPT !.names = @ \ {s}, !.results = @ \cup {result}])

(* The next source is skipped: it is disabled, or has no key.               *)
SkipSource(s) ==
    /\ pc = "source"
    /\ First(s, job.names)
    /\ Leave(s, "skipped")
    /\ UNCHANGED <<tables, torn, faults>>

(* Mutant: the completed partitions of the run are not looked up.          *)
EnterSourceAnew(s) ==
    /\ pc = "source"
    /\ First(s, job.names)
    /\ Goto("loop", [job EXCEPT !.source = s, !.at = 0, !.taken = 0,
                                !.result = "success", !.prior = {}])
    /\ UNCHANGED <<tables, torn, faults>>

EnterSource(s) ==
    /\ pc = "source"
    /\ First(s, job.names)
    /\ Goto("loop", [job EXCEPT !.source = s, !.at = 0, !.taken = 0,
                                !.result = "success",
                                !.prior = {w \in Work : w[1] = s /\
                                             checkpoint[job.run][w] = "completed"}])
    /\ UNCHANGED <<tables, torn, faults>>

Mine(w) == w[1] = job.source /\ checkpoint[job.run][w] # "absent"
Rest == {w \in Work \ job.prior : Mine(w) /\ w[2] > job.at}
Upcoming(w) == w \in Rest /\ \A v \in Rest : w[2] <= v[2]

(* The loop reaches the invocation's cap, or the budget refuses the item.   *)
StopEarly ==
    /\ pc = "loop"
    /\ Rest # {}
    /\ Leave(job.source, "partial")
    /\ UNCHANGED <<tables, torn, faults>>

Take(w) ==
    /\ pc = "loop"
    /\ Upcoming(w)
    /\ job.taken < Cap
    /\ checkpoint' = [checkpoint EXCEPT ![job.run][w] = "running"]
    /\ Goto("running", [job EXCEPT !.at = w[2], !.taken = @ + 1])
    /\ UNCHANGED <<requested, status, torn, faults>>

Attempted == <<job.source, job.at>>

Completes ==
    /\ pc = "running"
    /\ checkpoint' = [checkpoint EXCEPT ![job.run][Attempted] = "completed"]
    /\ Goto("loop", job)
    /\ UNCHANGED <<requested, status, torn, faults>>

(* The adapter reports that some of its items failed.                       *)
CompletesInPart ==
    /\ pc = "running"
    /\ checkpoint' = [checkpoint EXCEPT ![job.run][Attempted] =
           IF job.source \in Retried THEN "partial" ELSE "completed"]
    /\ Goto("loop", [job EXCEPT !.result = "partial"])
    /\ UNCHANGED <<requested, status, torn, faults>>

(* Mutant: the partition is checkpointed with the status of its source.     *)
FailsAsSource(result) ==
    /\ pc = "running"
    /\ result \in {"partial", "error", "skipped"}
    /\ checkpoint' = [checkpoint EXCEPT ![job.run][Attempted] = result]
    /\ Leave(job.source, result)
    /\ UNCHANGED <<requested, status, torn, faults>>

(* The partition fails, for itself or for its whole provider: the source is *)
(* left, as 'partial' if any of its items were accepted, now or before.    *)
Fails(result) ==
    /\ pc = "running"
    /\ result \in {"partial", "error", "skipped"}
    /\ checkpoint' = [checkpoint EXCEPT ![job.run][Attempted] = "error"]
    /\ Leave(job.source, result)
    /\ UNCHANGED <<requested, status, torn, faults>>

LeaveSource ==
    /\ pc = "loop"
    /\ Rest = {}
    /\ Leave(job.source,
             IF job.result = "success" /\ \E w \in Work : Mine(w) /\
                    checkpoint[job.run][w] # "completed"
             THEN "partial" ELSE job.result)
    /\ UNCHANGED <<tables, torn, faults>>

LeaveSources ==
    /\ pc = "source"
    /\ job.names = {}
    /\ Goto("persist", job)
    /\ UNCHANGED <<tables, torn, faults>>

(* _persist_run_status judges by the results there are.                     *)
StatusOf(results) ==
    IF "partial" \in results THEN "partial"
    ELSE IF "error" \in results
         THEN IF "success" \in results THEN "partial" ELSE "error"
    ELSE IF "skipped" \in results
         THEN IF "success" \in results THEN "partial" ELSE "skipped"
    ELSE "success"

Judged == [status EXCEPT ![job.run] = StatusOf(job.results)]
Persisted == IF job.aborted THEN Goto("idle", None) ELSE Goto("correct", job)

Persist ==
    /\ pc = "persist"
    /\ EndWith(Judged)
    /\ torn' = IF job.aborted THEN torn \cup {job.run} ELSE torn
    /\ Persisted
    /\ UNCHANGED faults

(* The status write, or only the pruning after it, fails and is logged.     *)
PersistFails ==
    /\ pc = "persist"
    /\ Spend
    /\ status' \in {status, Judged}
    /\ torn' = IF job.aborted THEN torn \cup {job.run} ELSE torn
    /\ Persisted
    /\ UNCHANGED <<requested, checkpoint>>

RowsOf(r, s) == {w \in Work : w[1] = s /\ checkpoint[r][w] # "absent"}
CompleteSource(r, s) ==
    RowsOf(r, s) # {} /\ \A w \in RowsOf(r, s) : checkpoint[r][w] = "completed"
FailedSource(r, s) == \E w \in RowsOf(r, s) : checkpoint[r][w] = "error"

(* Mutant: the run is complete once this invocation's results say so.       *)
CorrectByResults ==
    /\ pc = "correct"
    /\ IF status[job.run] = "pruned" \/ job.results = {"success"}
       THEN UNCHANGED status
       ELSE status' = [status EXCEPT ![job.run] = "partial"]
    /\ Goto("idle", None)
    /\ UNCHANGED <<requested, checkpoint, torn, faults>>

(* The checkpoints of all the run's sources overrule that status while one  *)
(* of them is not complete; the UPDATE of a pruned run finds no row.        *)
Correct ==
    LET r == job.run IN
    /\ pc = "correct"
    /\ IF status[r] = "pruned" \/ \A s \in requested[r] : CompleteSource(r, s)
       THEN UNCHANGED status
       ELSE status' = [status EXCEPT ![r] =
                IF \E s \in requested[r] : CompleteSource(r, s) \/ ~FailedSource(r, s)
                THEN "partial" ELSE "error"]
    /\ Goto("idle", None)
    /\ UNCHANGED <<requested, checkpoint, torn, faults>>

(* Control-C, or a table write that raises: `finally` still persists.       *)
Interrupt ==
    /\ pc \in {"source", "loop", "running"}
    /\ Spend
    /\ Goto("persist", [job EXCEPT !.aborted = TRUE])
    /\ UNCHANGED <<tables, torn>>

(* The process dies, or the correction cannot be written.                   *)
Crash ==
    /\ pc # "idle"
    /\ Spend
    /\ torn' = IF pc = "correct" THEN torn \cup {job.run} ELSE torn
    /\ Goto("idle", None)
    /\ UNCHANGED tables

Invoke ==
    \/ \E r \in Runs : OtherMode(r)
    \/ \E r \in Runs, names \in SUBSET Sources : Start(r, names)
    \/ \E r \in Runs, wanted \in SUBSET Sources : Resume(r, wanted)

Walk ==
    \/ \E s \in Sources : SkipSource(s) \/ EnterSource(s)
    \/ StopEarly \/ LeaveSource \/ LeaveSources
    \/ \E w \in Work : Take(w)

Outcome == Completes \/ CompletesInPart \/ \E result \in Results : Fails(result)

Next ==
    \/ Invoke \/ Walk \/ Outcome
    \/ Persist \/ PersistFails \/ Correct
    \/ Interrupt \/ Crash

Spec == Init /\ [][Next]_vars

-----------------------------------------------------------------------------
Unfinished(r) == \E w \in Work : checkpoint[r][w] \notin {"absent", "completed"}

(***************************************************************************)
(* A run with a partition left to do can be resumed, whatever the source-   *)
(* scoped invocations it went through, unless its last invocation was left  *)
(* by an exception or before its correction.  (the checkpoints overrule     *)
(* _persist_run_status at the end of run_bootstrap)                        *)
(***************************************************************************)
UnfinishedIsResumable ==
    \A r \in Runs \ torn :
        Unfinished(r) /\ ~(pc = "correct" /\ job.run = r) => status[r] \in Resumable

(***************************************************************************)
(* The pruning at the end of a run takes no other run's unfinished work,    *)
(* whose invocations all ended in order.  (prune_scheduler_history keeps    *)
(* bootstrap runs that ended 'partial' or 'error')                         *)
(***************************************************************************)
Pruning(r) == status[r] # "pruned" /\ status'[r] = "pruned"

PruningSparesOthers ==
    [][\A r \in Runs \ torn :
          Pruning(r) /\ Unfinished(r) => pc = "persist" /\ job.run = r]_vars

(***************************************************************************)
(* The manifest of a run never changes and its partitions are done once and *)
(* for good, through crashes, resumptions and source-scoped invocations,    *)
(* until the run is pruned as a whole.                                     *)
(***************************************************************************)
Promise == INSTANCE ResumableWork WITH
    manifest <- [r \in Runs |-> {w \in Work : checkpoint[r][w] # "absent"}],
    done <- [r \in Runs |-> {w \in Work : checkpoint[r][w] = "completed"}],
    forgotten <- {r \in Runs : status[r] = "pruned"}

KeepsItsPromise == Promise!Spec

(* The operator resumes while there is something to resume; an invocation   *)
(* goes on; a source is available, its budget admits a partition and its   *)
(* provider answers, if asked often enough.                                *)
Fairness ==
    /\ WF_vars(Walk \/ Outcome \/ Persist \/ Correct)
    /\ SF_vars(\E r \in Runs : Resume(r, {}))
    /\ \A s \in Sources : SF_vars(EnterSource(s))
    /\ \A w \in Work : SF_vars(Take(w))
    /\ \A w \in Answerable : SF_vars(Completes /\ Attempted = w)

LiveSpec == Spec /\ Fairness

(***************************************************************************)
(* "One partition cannot abort bootstrap" (src/scheduler/__init__.py:1937): *)
(* a partition whose provider answers is completed if its run is resumed    *)
(* often enough, unless a newer run is resumed in its place or the pruning  *)
(* takes it.                                                               *)
(***************************************************************************)
Superseded(r) == status[r] = "pruned" \/ \E q \in Runs : q > r /\ requested[q] # {}

AnswerableCompletes ==
    \A r \in Runs, w \in Answerable :
        checkpoint[r][w] = "pending" ~>
            checkpoint[r][w] = "completed" \/ r \in torn \/ Superseded(r)

=============================================================================
