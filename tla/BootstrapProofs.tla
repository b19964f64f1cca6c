--------------------------- MODULE BootstrapProofs ---------------------------
(***************************************************************************)
(* Theorems about Bootstrap, for any sources, manifests, cap and number of *)
(* runs and faults.                                                        *)
(***************************************************************************)
EXTENDS Bootstrap, TLAPS

(* A run has rows for the partitions of the sources asked of it, and no     *)
(* others; before its start and after its pruning it has none.             *)
RowsAsRequested ==
    \A r \in Runs :
        /\ \A w \in Work : checkpoint[r][w] # "absent" <=> w[1] \in requested[r]
        /\ status[r] \in {"absent", "pruned"} => requested[r] = {}

(* The run an invocation works on is a started one, still resumable until   *)
(* its status is persisted.                                                *)
AtWork ==
    /\ pc # "idle" => status[job.run] # "absent"
    /\ pc \in {"source", "loop", "running", "persist"} => status[job.run] \in Resumable

(* No completed partition lies ahead of the loop.                           *)
NoneAhead ==
    pc \in {"loop", "running"} =>
        \A w \in Work : w[1] = job.source /\ checkpoint[job.run][w] = "completed"
            => w \in job.prior \/ w[2] <= job.at

AttemptRuns ==
    pc = "running" => Attempted \in Work /\ checkpoint[job.run][Attempted] = "running"

IInv == TypeOK /\ RowsAsRequested /\ AtWork /\ NoneAhead /\ AttemptRuns
               /\ UnfinishedIsResumable

-----------------------------------------------------------------------------
LEMMA WorkPairs ==
    ASSUME ConstantsAssumption, NEW w \in Work
    PROVE  w[1] \in Sources /\ w[2] \in Nat /\ w = <<w[1], w[2]>>
  <1>1. PICK s \in Sources : w \in {s} \X Partitions[s]
    BY DEF Work
  <1>2. Partitions[s] \subseteq Nat
    BY DEF ConstantsAssumption
  <1> QED BY <1>1, <1>2

LEMMA LeaveTypes ==
    ASSUME job \in Job, NEW s, NEW result \in Results, Leave(s, result)
    PROVE  /\ pc' = "source" /\ job' \in Job /\ job'.run = job.run
  BY DEF Leave, Goto, Job

LEMMA TakeTypes ==
    ASSUME job \in Job, NEW n \in Nat,
           job' = [job EXCEPT !.at = n, !.taken = @ + 1]
    PROVE  job' \in Job /\ job'.source = job.source /\ job'.names = job.names
           /\ job'.run = job.run /\ job'.at = n /\ job'.prior = job.prior
  <1>1. job.taken + 1 \in Nat
    BY DEF Job
  <1> QED BY <1>1 DEF Job

LEMMA AbortTypes ==
    ASSUME job \in Job, job' = [job EXCEPT !.aborted = TRUE]
    PROVE  job' \in Job /\ job'.run = job.run
  BY DEF Job

LEMMA SpendTypes ==
    ASSUME ConstantsAssumption, faults \in 0..MaxFaults, Spend
    PROVE  faults' \in 0..MaxFaults
  BY DEF ConstantsAssumption, Spend

(* What a checkpoint of the run in hand does to the tables.                 *)
LEMMA MarkTypes ==
    ASSUME TypeOK, pc # "idle", NEW w \in Work, NEW c \in Checkpoints,
           checkpoint' = [checkpoint EXCEPT ![job.run][w] = c]
    PROVE  /\ checkpoint' \in [Runs -> [Work -> Checkpoints]]
           /\ job.run \in Runs
           /\ checkpoint'[job.run][w] = c
           /\ \A r \in Runs, v \in Work :
                  (r # job.run \/ v # w) => checkpoint'[r][v] = checkpoint[r][v]
  BY DEF TypeOK, Job

(* What the end of a run does to the tables, whichever runs it prunes.      *)
Ended(st) ==
    \A r \in Runs :
        \/ /\ st[r] \in {"success", "skipped"} /\ status'[r] = "pruned"
           /\ requested'[r] = {}
           /\ \A w \in Work : checkpoint'[r][w] = "absent"
        \/ /\ status'[r] = st[r] /\ requested'[r] = requested[r]
           /\ checkpoint'[r] = checkpoint[r]

LEMMA EndTables ==
    ASSUME TypeOK, NEW st \in [Runs -> RunStatuses], EndWith(st)
    PROVE  /\ requested' \in [Runs -> SUBSET Sources]
           /\ status' \in [Runs -> RunStatuses]
           /\ checkpoint' \in [Runs -> [Work -> Checkpoints]]
           /\ Ended(st)
  <1>1. Old(st) \subseteq {r \in Runs : st[r] \in {"success", "skipped"}}
    BY DEF Old, Closed
  <1>2. "pruned" \in RunStatuses /\ "absent" \in Checkpoints
    BY DEF RunStatuses, Checkpoints
  <1> QED BY <1>1, <1>2 DEF EndWith, TypeOK, Ended

LEMMA JudgedTypes ==
    ASSUME TypeOK, pc = "persist"
    PROVE  /\ Judged \in [Runs -> RunStatuses]
           /\ job.run \in Runs
           /\ Judged[job.run] \in {"success", "partial", "error", "skipped"}
           /\ \A r \in Runs : r # job.run => Judged[r] = status[r]
  <1>1. StatusOf(job.results) \in {"success", "partial", "error", "skipped"}
    BY DEF StatusOf
  <1> QED BY <1>1 DEF TypeOK, Judged, RunStatuses, Job

LEMMA TypeStep ==
    ASSUME ConstantsAssumption, TypeOK, AttemptRuns, [Next]_vars
    PROVE  TypeOK'
  <1> USE DEF TypeOK
  <1>0. CASE UNCHANGED vars
    BY <1>0 DEF vars, tables
  <1>1. ASSUME NEW r \in Runs, NEW names \in SUBSET Sources, Start(r, names)
        PROVE  TypeOK'
    <2>1. NewJob(r, names) \in Job
      BY DEF NewJob, Job, Results
    <2> QED BY <1>1, <2>1 DEF Start, Goto, Places, RunStatuses, Checkpoints
  <1>2. ASSUME NEW r \in Runs, NEW wanted \in SUBSET Sources, Resume(r, wanted)
        PROVE  TypeOK'
    <2>1. NewJob(r, IF wanted = {} THEN requested[r] ELSE wanted) \in Job
      BY DEF NewJob, Job, Results
    <2> QED BY <1>2, <2>1 DEF Resume, Goto, Places, tables
  <1>3. ASSUME NEW s \in Sources, SkipSource(s)
        PROVE  TypeOK'
    BY <1>3, LeaveTypes DEF SkipSource, tables, Results, Places
  <1>4. ASSUME NEW s \in Sources, EnterSource(s)
        PROVE  TypeOK'
    BY <1>4 DEF EnterSource, First, Goto, tables, Job, Results, Places
  <1>5. CASE StopEarly
    BY <1>5, LeaveTypes DEF StopEarly, tables, Results, Places
  <1>6. CASE LeaveSource
    <2>1. job.result \in Results /\ "partial" \in Results
      BY <1>6 DEF LeaveSource, Job, Results
    <2> QED BY <1>6, <2>1, LeaveTypes DEF LeaveSource, tables, Places
  <1>7. CASE LeaveSources
    BY <1>7 DEF LeaveSources, Goto, tables, Places
  <1>8. ASSUME NEW w \in Work, Take(w)
        PROVE  TypeOK'
    <2>1. checkpoint' \in [Runs -> [Work -> Checkpoints]]
      BY <1>8, MarkTypes DEF Take, Checkpoints
    <2>2. w[2] \in Nat
      BY WorkPairs
    <2>3. job' \in Job /\ job'.source = job.source /\ job'.names = job.names
      BY <1>8, <2>2, TakeTypes DEF Take, Goto
    <2> QED BY <1>8, <2>1, <2>3 DEF Take, Goto, Places
  <1>9. CASE Completes
    <2>1. checkpoint' \in [Runs -> [Work -> Checkpoints]]
      BY <1>9, MarkTypes DEF Completes, Checkpoints, AttemptRuns
    <2> QED BY <1>9, <2>1 DEF Completes, Goto, Places
  <1>10. CASE CompletesInPart
    <2>1. checkpoint' \in [Runs -> [Work -> Checkpoints]]
      BY <1>10, MarkTypes DEF CompletesInPart, Checkpoints, AttemptRuns
    <2>2. job' \in Job /\ job'.source = job.source /\ job'.names = job.names
      BY <1>10 DEF CompletesInPart, Goto, Job, Results
    <2> QED BY <1>10, <2>1, <2>2 DEF CompletesInPart, Goto, Places
  <1>11. ASSUME NEW result \in Results, Fails(result)
         PROVE  TypeOK'
    <2>1. checkpoint' \in [Runs -> [Work -> Checkpoints]]
      BY <1>11, MarkTypes DEF Fails, Checkpoints, AttemptRuns
    <2> QED BY <1>11, <2>1, LeaveTypes DEF Fails, Places
  <1>12. CASE Persist
    <2>1. pc = "persist" /\ EndWith(Judged)
      BY <1>12 DEF Persist
    <2>2. /\ job.run \in Runs /\ requested' \in [Runs -> SUBSET Sources]
          /\ status' \in [Runs -> RunStatuses]
          /\ checkpoint' \in [Runs -> [Work -> Checkpoints]]
      BY <2>1, JudgedTypes, EndTables
    <2> QED BY <1>12, <2>2 DEF Persist, Persisted, Goto, Places
  <1>13. CASE PersistFails
    <2>1. job.run \in Runs /\ status' \in [Runs -> RunStatuses]
      BY <1>13, JudgedTypes DEF PersistFails
    <2> QED BY <1>13, <2>1, SpendTypes DEF PersistFails, Persisted, Goto, Places
  <1>14. CASE Correct
    BY <1>14 DEF Correct, Goto, Places, RunStatuses, Job
  <1>15. CASE Interrupt
    <2>1. job' \in Job
      BY <1>15, AbortTypes DEF Interrupt, Goto
    <2> QED BY <1>15, <2>1, SpendTypes DEF Interrupt, Goto, Places, tables
  <1>16. CASE Crash
    <2>1. job.run \in Runs
      BY <1>16 DEF Crash, Job
    <2> QED BY <1>16, <2>1, SpendTypes DEF Crash, Goto, Places, tables
  <1>17. ASSUME NEW r \in Runs, OtherMode(r)
         PROVE  TypeOK'
    <2>1. [status EXCEPT ![r] = "success"] \in [Runs -> RunStatuses]
      BY DEF RunStatuses
    <2> QED BY <1>17, <2>1, EndTables DEF OtherMode
  <1> QED
    BY <1>0, <1>1, <1>2, <1>3, <1>4, <1>5, <1>6, <1>7, <1>8, <1>9, <1>10, <1>11,
       <1>12, <1>13, <1>14, <1>15, <1>16, <1>17
       DEF Next, Invoke, Walk, Outcome

-----------------------------------------------------------------------------
(* Steps that only move the invocation to the next source of the same run.  *)
LEMMA MovesOn ==
    ASSUME ConstantsAssumption, IInv, TypeOK', UNCHANGED <<tables, torn>>,
           pc \in {"source", "loop", "running"}, pc' \in {"source", "persist"},
           job'.run = job.run
    PROVE  IInv'
  BY DEF IInv, RowsAsRequested, AtWork, NoneAhead, AttemptRuns, UnfinishedIsResumable,
         Unfinished, tables

(* Steps that checkpoint a partition of the run in hand.                    *)
LEMMA Marks ==
    ASSUME ConstantsAssumption, IInv, TypeOK', NEW w \in Work, NEW c \in Checkpoints,
           pc \in {"loop", "running"}, pc' \in {"source", "loop", "running"},
           job'.run = job.run, checkpoint[job.run][w] # "absent", c # "absent",
           checkpoint' = [checkpoint EXCEPT ![job.run][w] = c],
           UNCHANGED <<requested, status, torn>>
    PROVE  RowsAsRequested' /\ AtWork' /\ UnfinishedIsResumable'
  <1>1. /\ checkpoint' \in [Runs -> [Work -> Checkpoints]]
        /\ job.run \in Runs
        /\ checkpoint'[job.run][w] = c
        /\ \A r \in Runs, v \in Work :
               (r # job.run \/ v # w) => checkpoint'[r][v] = checkpoint[r][v]
    BY MarkTypes DEF IInv
  <1>2. RowsAsRequested'
    BY <1>1 DEF IInv, RowsAsRequested
  <1>3. AtWork'
    BY DEF IInv, AtWork
  <1>4. UnfinishedIsResumable'
    BY <1>1 DEF IInv, AtWork, UnfinishedIsResumable, Unfinished
  <1> QED BY <1>2, <1>3, <1>4

(* The end of a run leaves a run its rows, or takes them all.               *)
LEMMA EndKeepsRows ==
    ASSUME RowsAsRequested, NEW st, Ended(st),
           \A r \in Runs : st[r] \in {"absent", "pruned"} => status[r] = st[r]
    PROVE  RowsAsRequested'
  <1> SUFFICES ASSUME NEW r \in Runs
               PROVE  /\ \A w \in Work : checkpoint'[r][w] # "absent" <=> w[1] \in requested'[r]
                      /\ status'[r] \in {"absent", "pruned"} => requested'[r] = {}
    BY DEF RowsAsRequested
  <1>1. CASE requested'[r] = {} /\ \A w \in Work : checkpoint'[r][w] = "absent"
    BY <1>1
  <1>2. CASE status'[r] = st[r] /\ requested'[r] = requested[r] /\ checkpoint'[r] = checkpoint[r]
    BY <1>2 DEF RowsAsRequested
  <1> QED BY <1>1, <1>2 DEF Ended

LEMMA InvStep ==
    ASSUME ConstantsAssumption, IInv, [Next]_vars
    PROVE  IInv'
  <1>t. TypeOK'
    BY TypeStep DEF IInv
  <1>0. CASE UNCHANGED vars
    BY <1>0 DEF vars, tables, IInv, TypeOK, RowsAsRequested, AtWork, NoneAhead, AttemptRuns,
                Attempted, UnfinishedIsResumable, Unfinished
  <1>1. ASSUME NEW r \in Runs, NEW names \in SUBSET Sources, Start(r, names)
        PROVE  IInv'
    <2>1. /\ status[r] = "absent" /\ pc = "idle" /\ pc' = "source" /\ job'.run = r
          /\ torn' = torn
          /\ requested' = [requested EXCEPT ![r] = names]
          /\ status' = [status EXCEPT ![r] = "running"]
          /\ checkpoint' = [checkpoint EXCEPT ![r] =
                [w \in Work |-> IF w[1] \in names THEN "pending" ELSE "absent"]]
      BY <1>1 DEF Start, First, Goto, NewJob
    <2>2. RowsAsRequested'
      BY <2>1 DEF IInv, TypeOK, RowsAsRequested
    <2>3. AtWork'
      BY <2>1 DEF IInv, TypeOK, AtWork, Resumable
    <2>4. NoneAhead' /\ AttemptRuns'
      BY <2>1 DEF NoneAhead, AttemptRuns
    <2>5. UnfinishedIsResumable'
      BY <2>1 DEF IInv, TypeOK, UnfinishedIsResumable, Unfinished, Resumable
    <2> QED BY <1>t, <2>2, <2>3, <2>4, <2>5 DEF IInv
  <1>2. ASSUME NEW r \in Runs, NEW wanted \in SUBSET Sources, Resume(r, wanted)
        PROVE  IInv'
    BY <1>2, <1>t DEF Resume, Candidates, Goto, NewJob, IInv, RowsAsRequested, AtWork,
                      NoneAhead, AttemptRuns, UnfinishedIsResumable, Unfinished,
                      Resumable, tables
  <1>3. ASSUME NEW s \in Sources, SkipSource(s)
        PROVE  IInv'
    <2>1. pc = "source" /\ UNCHANGED <<tables, torn>> /\ pc' = "source"
          /\ job'.run = job.run
      BY <1>3, LeaveTypes DEF SkipSource, IInv, TypeOK, Results
    <2> QED BY <1>t, <2>1, MovesOn
  <1>4. ASSUME NEW s \in Sources, EnterSource(s)
        PROVE  IInv'
    <2>1. /\ pc = "source" /\ pc' = "loop" /\ UNCHANGED <<tables, torn>>
          /\ job \in Job
      BY <1>4 DEF EnterSource, Goto, IInv, TypeOK
    <2>2. /\ job'.run = job.run /\ job'.source = s
          /\ job'.prior = {w \in Work : w[1] = s /\ checkpoint[job.run][w] = "completed"}
      BY <1>4, <2>1 DEF EnterSource, Goto, Job
    <2>3. NoneAhead'
      BY <2>1, <2>2 DEF NoneAhead, tables
    <2>4. RowsAsRequested' /\ AtWork'
      BY <2>1, <2>2 DEF IInv, RowsAsRequested, AtWork, tables
    <2>5. UnfinishedIsResumable'
      BY <2>1 DEF IInv, UnfinishedIsResumable, Unfinished, tables
    <2> QED BY <1>t, <2>1, <2>3, <2>4, <2>5 DEF IInv, AttemptRuns
  <1>5. CASE StopEarly
    <2>1. pc = "loop" /\ UNCHANGED <<tables, torn>> /\ pc' = "source" /\ job'.run = job.run
      BY <1>5, LeaveTypes DEF StopEarly, IInv, TypeOK, Results
    <2> QED BY <1>t, <2>1, MovesOn
  <1>6. CASE LeaveSource
    <2>1. job \in Job /\ job.result \in Results /\ "partial" \in Results
      BY <1>6 DEF LeaveSource, IInv, TypeOK, Job, Results
    <2>2. pc = "loop" /\ UNCHANGED <<tables, torn>> /\ pc' = "source" /\ job'.run = job.run
      BY <1>6, <2>1, LeaveTypes DEF LeaveSource
    <2> QED BY <1>t, <2>2, MovesOn
  <1>7. CASE LeaveSources
    BY <1>7, <1>t, MovesOn DEF LeaveSources, Goto
  <1>8. ASSUME NEW w \in Work, Take(w)
        PROVE  IInv'
    <2>1. /\ pc = "loop" /\ pc' = "running" /\ job \in Job
          /\ w[1] = job.source /\ checkpoint[job.run][w] # "absent"
          /\ checkpoint' = [checkpoint EXCEPT ![job.run][w] = "running"]
          /\ job' = [job EXCEPT !.at = w[2], !.taken = @ + 1]
          /\ UNCHANGED <<requested, status, torn>>
          /\ \A v \in Rest : w[2] <= v[2]
      BY <1>8 DEF Take, Upcoming, Rest, Mine, Goto, IInv, TypeOK
    <2>2. w[2] \in Nat /\ w = <<w[1], w[2]>>
      BY WorkPairs
    <2>3. /\ job'.run = job.run /\ job'.source = job.source /\ job'.at = w[2]
          /\ job'.prior = job.prior
      BY <2>1, <2>2, TakeTypes
    <2>4. RowsAsRequested' /\ AtWork' /\ UnfinishedIsResumable'
      BY <1>t, <2>1, <2>3, Marks DEF Checkpoints
    <2>5. /\ checkpoint'[job.run][w] = "running"
          /\ \A v \in Work : v # w => checkpoint'[job.run][v] = checkpoint[job.run][v]
      BY <2>1, MarkTypes DEF IInv, Checkpoints
    <2>6. AttemptRuns'
      BY <2>1, <2>2, <2>3, <2>5 DEF AttemptRuns, Attempted
    <2>7. NoneAhead'
      <3>1. ASSUME NEW v \in Work, v[1] = job.source, checkpoint'[job.run][v] = "completed"
            PROVE  v \in job.prior \/ v[2] <= w[2]
        <4>1. checkpoint[job.run][v] = "completed"
          BY <2>5, <3>1
        <4>2. v \in job.prior \/ v[2] <= job.at
          BY <2>1, <3>1, <4>1 DEF IInv, NoneAhead
        <4>3. w[2] > job.at
          BY <1>8 DEF Take, Upcoming, Rest
        <4>4. v[2] \in Nat /\ job.at \in Nat
          BY <2>1, WorkPairs DEF Job
        <4> QED BY <2>2, <4>2, <4>3, <4>4
      <3> QED BY <2>1, <2>3, <3>1 DEF NoneAhead
    <2> QED BY <1>t, <2>4, <2>6, <2>7 DEF IInv
  <1>9. CASE Completes \/ CompletesInPart
    <2>1. PICK c \in {"completed", "partial"} :
              checkpoint' = [checkpoint EXCEPT ![job.run][Attempted] = c]
      BY <1>9 DEF Completes, CompletesInPart
    <2>2. /\ pc = "running" /\ pc' = "loop" /\ UNCHANGED <<requested, status, torn>>
          /\ job \in Job
      BY <1>9 DEF Completes, CompletesInPart, Goto, IInv, TypeOK
    <2>3. /\ job'.run = job.run /\ job'.source = job.source /\ job'.at = job.at
          /\ job'.prior = job.prior
      BY <1>9, <2>2 DEF Completes, CompletesInPart, Goto, Job
    <2>4. Attempted \in Work /\ checkpoint[job.run][Attempted] = "running"
      BY <2>2 DEF IInv, AttemptRuns
    <2>5. RowsAsRequested' /\ AtWork' /\ UnfinishedIsResumable'
      BY <1>t, <2>1, <2>2, <2>3, <2>4, Marks DEF Checkpoints
    <2>6. \A v \in Work : v # Attempted => checkpoint'[job.run][v] = checkpoint[job.run][v]
      BY <2>1, <2>2, <2>4, MarkTypes DEF IInv, Checkpoints
    <2>7. Attempted[2] = job.at /\ job.at <= job.at
      BY <2>2 DEF Attempted, Job
    <2>8. NoneAhead'
      BY <2>2, <2>3, <2>6, <2>7 DEF IInv, NoneAhead
    <2> QED BY <1>t, <2>2, <2>5, <2>8 DEF IInv, AttemptRuns
  <1>10. ASSUME NEW result \in Results, Fails(result)
         PROVE  IInv'
    <2>1. /\ pc = "running" /\ UNCHANGED <<requested, status, torn>>
          /\ checkpoint' = [checkpoint EXCEPT ![job.run][Attempted] = "error"]
          /\ Leave(job.source, result) /\ job \in Job
      BY <1>10 DEF Fails, IInv, TypeOK
    <2>2. pc' = "source" /\ job'.run = job.run
      BY <2>1, LeaveTypes
    <2>3. Attempted \in Work /\ checkpoint[job.run][Attempted] = "running"
      BY <2>1 DEF IInv, AttemptRuns
    <2>4. RowsAsRequested' /\ AtWork' /\ UnfinishedIsResumable'
      BY <1>t, <2>1, <2>2, <2>3, Marks DEF Checkpoints
    <2> QED BY <1>t, <2>2, <2>4 DEF IInv, NoneAhead, AttemptRuns
  <1>11. CASE Persist
    <2>1. /\ pc = "persist" /\ pc' \in {"idle", "correct"}
          /\ EndWith(Judged)
          /\ pc' = "idle" => torn' = torn \cup {job.run}
          /\ pc' = "correct" => torn' = torn /\ job' = job
      BY <1>11 DEF Persist, Persisted, Goto
    <2>2. /\ Judged \in [Runs -> RunStatuses] /\ job.run \in Runs
          /\ Judged[job.run] \in {"success", "partial", "error", "skipped"}
          /\ \A r \in Runs : r # job.run => Judged[r] = status[r]
      BY <2>1, JudgedTypes DEF IInv
    <2>e. Ended(Judged)
      BY <2>1, <2>2, EndTables DEF IInv
    <2>3. RowsAsRequested'
      BY <2>2, <2>e, EndKeepsRows DEF IInv
    <2>5. AtWork'
      BY <2>1, <2>2, <2>e DEF AtWork, Ended
    <2>4. UnfinishedIsResumable'
      <3>1. ASSUME NEW r \in Runs \ torn', Unfinished(r)',
                   ~(pc' = "correct" /\ job'.run = r)
            PROVE  status'[r] \in Resumable
        <4>1. r # job.run /\ r \notin torn
          BY <2>1, <3>1
        <4>2. checkpoint'[r] = checkpoint[r] /\ status'[r] = status[r]
          BY <2>2, <2>e, <3>1, <4>1 DEF Unfinished, Ended
        <4> QED BY <2>1, <3>1, <4>1, <4>2 DEF IInv, UnfinishedIsResumable, Unfinished
      <3> QED BY <3>1 DEF UnfinishedIsResumable
    <2> QED BY <1>t, <2>1, <2>3, <2>4, <2>5 DEF IInv, NoneAhead, AttemptRuns
  <1>12. CASE PersistFails
    <2>1. /\ pc = "persist" /\ pc' \in {"idle", "correct"}
          /\ UNCHANGED <<requested, checkpoint>> /\ status' \in {status, Judged}
          /\ pc' = "idle" => torn' = torn \cup {job.run}
          /\ pc' = "correct" => torn' = torn /\ job' = job
      BY <1>12 DEF PersistFails, Persisted, Goto
    <2>2. /\ job.run \in Runs /\ Judged[job.run] \notin {"absent", "pruned"}
          /\ \A r \in Runs : r # job.run => Judged[r] = status[r]
      BY <2>1, JudgedTypes DEF IInv
    <2>3. RowsAsRequested' /\ AtWork' /\ UnfinishedIsResumable'
      BY <2>1, <2>2 DEF IInv, RowsAsRequested, AtWork, UnfinishedIsResumable, Unfinished
    <2> QED BY <1>t, <2>1, <2>3 DEF IInv, NoneAhead, AttemptRuns
  <1>13. CASE Correct
    <2> DEFINE r == job.run
    <2>1. /\ pc = "correct" /\ pc' = "idle" /\ r \in Runs /\ status[r] # "absent"
          /\ UNCHANGED <<requested, checkpoint, torn>>
      BY <1>13 DEF Correct, Goto, IInv, TypeOK, AtWork, Job
    <2>2. CASE status[r] = "pruned" \/ \A s \in requested[r] : CompleteSource(r, s)
      <3>1. status' = status
        BY <1>13, <2>2 DEF Correct
      <3>2. ~Unfinished(r)
        <4>1. ASSUME NEW w \in Work, checkpoint[r][w] # "absent"
              PROVE  checkpoint[r][w] = "completed"
          <5>1. w[1] \in requested[r]
            BY <2>1, <4>1 DEF IInv, RowsAsRequested
          <5>2. w \in RowsOf(r, w[1])
            BY <4>1 DEF RowsOf
          <5>3. status[r] # "pruned"
            BY <2>1, <5>1 DEF IInv, RowsAsRequested
          <5> QED BY <2>2, <5>1, <5>2, <5>3 DEF CompleteSource
        <4> QED BY <4>1 DEF Unfinished
      <3> QED BY <1>t, <2>1, <3>1, <3>2 DEF IInv, RowsAsRequested, AtWork, NoneAhead,
                AttemptRuns, UnfinishedIsResumable, Unfinished
    <2>3. CASE ~(status[r] = "pruned" \/ \A s \in requested[r] : CompleteSource(r, s))
      <3>1. PICK corrected \in {"partial", "error"} :
                status' = [status EXCEPT ![r] = corrected]
        BY <1>13, <2>3 DEF Correct
      <3> QED BY <1>t, <2>1, <3>1 DEF IInv, TypeOK, RowsAsRequested, AtWork, NoneAhead,
                AttemptRuns, UnfinishedIsResumable, Unfinished, Resumable
    <2> QED BY <2>2, <2>3
  <1>14. CASE Interrupt
    <2>1. job \in Job /\ job' = [job EXCEPT !.aborted = TRUE] /\ pc' = "persist"
          /\ pc \in {"source", "loop", "running"} /\ UNCHANGED <<tables, torn>>
      BY <1>14 DEF Interrupt, Goto, IInv, TypeOK
    <2>2. job'.run = job.run
      BY <2>1, AbortTypes
    <2> QED BY <1>t, <2>1, <2>2, MovesOn
  <1>15. CASE Crash
    <2>1. /\ pc # "idle" /\ pc' = "idle" /\ UNCHANGED tables /\ torn \subseteq torn'
          /\ pc = "correct" => job.run \in torn'
          /\ pc \in Places
      BY <1>15 DEF Crash, Goto, IInv, TypeOK
    <2> QED BY <1>t, <2>1 DEF IInv, RowsAsRequested, AtWork, NoneAhead, AttemptRuns,
              UnfinishedIsResumable, Unfinished, tables, Places
  <1>16. ASSUME NEW r \in Runs, OtherMode(r)
         PROVE  IInv'
    <2> DEFINE st == [status EXCEPT ![r] = "success"]
    <2>1. /\ pc = "idle" /\ pc' = "idle" /\ status[r] = "absent" /\ torn' = torn
          /\ EndWith(st)
      BY <1>16 DEF OtherMode, First
    <2>2. /\ st \in [Runs -> RunStatuses] /\ st[r] = "success"
          /\ \A q \in Runs : q # r => st[q] = status[q]
      BY DEF IInv, TypeOK, RunStatuses
    <2> HIDE DEF st
    <2>e. Ended(st)
      BY <2>1, <2>2, EndTables DEF IInv
    <2>3. RowsAsRequested'
      BY <2>2, <2>e, EndKeepsRows DEF IInv
    <2>4. UnfinishedIsResumable'
      <3>1. ASSUME NEW q \in Runs \ torn, Unfinished(q)'
            PROVE  status'[q] \in Resumable
        <4>1. checkpoint'[q] = checkpoint[q] /\ status'[q] = st[q]
          BY <2>e, <3>1 DEF Unfinished, Ended
        <4>2. q # r
          BY <2>1, <3>1, <4>1 DEF IInv, RowsAsRequested, Unfinished
        <4> QED BY <2>1, <2>2, <3>1, <4>1, <4>2 DEF IInv, UnfinishedIsResumable, Unfinished
      <3> QED BY <2>1, <3>1 DEF UnfinishedIsResumable
    <2> QED BY <1>t, <2>1, <2>3, <2>4 DEF IInv, AtWork, NoneAhead, AttemptRuns
  <1> QED
    BY <1>0, <1>1, <1>2, <1>3, <1>4, <1>5, <1>6, <1>7, <1>8, <1>9, <1>10, <1>11,
       <1>12, <1>13, <1>14, <1>15, <1>16
       DEF Next, Invoke, Walk, Outcome

LEMMA InvInit ==
    ASSUME ConstantsAssumption, Init
    PROVE  IInv
  <1>1. TypeOK
    BY DEF Init, TypeOK, RunStatuses, Checkpoints, Places, ConstantsAssumption
  <1>2. RowsAsRequested
    BY DEF Init, RowsAsRequested
  <1>3. UnfinishedIsResumable
    BY DEF Init, UnfinishedIsResumable, Unfinished
  <1> QED BY <1>1, <1>2, <1>3 DEF Init, IInv, AtWork, NoneAhead, AttemptRuns

LEMMA Inductive == Spec => []IInv
  <1>1. Init => IInv
    BY ConstantsAssumption, InvInit
  <1>2. IInv /\ [Next]_vars => IInv'
    BY ConstantsAssumption, InvStep
  <1> QED BY <1>1, <1>2, PTL DEF Spec

(* Every reachable state is well typed, and a checkpoint always carries one *)
(* of its statuses.                                                        *)
THEOREM TypeCorrect == Spec => []TypeOK
  <1>1. IInv => TypeOK
    BY DEF IInv
  <1> QED BY <1>1, Inductive, PTL

(* run_bootstrap: a run with work left stays resumable, whatever sources    *)
(* were left out of, skipped in or failed in its invocations.              *)
THEOREM Resumability == Spec => []UnfinishedIsResumable
  <1>1. IInv => UnfinishedIsResumable
    BY DEF IInv
  <1> QED BY <1>1, Inductive, PTL

(* prune_scheduler_history: the pruning at the end of a run never takes the *)
(* unfinished work of another one.                                         *)
THEOREM PruningSpares == Spec => PruningSparesOthers
  <1>1. ASSUME IInv, Next, NEW r \in Runs \ torn, Pruning(r), Unfinished(r)
        PROVE  pc = "persist" /\ job.run = r
    <2> USE <1>1
    <2>1. CASE Persist
      <3>1. pc = "persist" /\ EndWith(Judged)
        BY <2>1 DEF Persist
      <3>2. Judged \in [Runs -> RunStatuses] /\ (r # job.run => Judged[r] = status[r])
        BY <3>1, JudgedTypes DEF IInv
      <3>e. Ended(Judged)
        BY <3>1, <3>2, EndTables DEF IInv
      <3>4. r = job.run \/ Judged[r] # "pruned"
        BY <3>2 DEF Pruning
      <3>6. Judged[r] # "pruned"
        BY <3>1, <3>4, JudgedTypes DEF IInv
      <3>3. Judged[r] \in {"success", "skipped"}
        BY <3>e, <3>6 DEF Ended, Pruning
      <3> QED BY <3>1, <3>2, <3>3 DEF IInv, UnfinishedIsResumable, Resumable
    <2>2. ASSUME NEW q \in Runs, OtherMode(q)
          PROVE  FALSE
      <3> DEFINE st == [status EXCEPT ![q] = "success"]
      <3>1. pc = "idle" /\ status[q] = "absent" /\ EndWith(st)
        BY <2>2 DEF OtherMode, First
      <3>2. st \in [Runs -> RunStatuses] /\ (r # q => st[r] = status[r])
        BY DEF IInv, TypeOK, RunStatuses
      <3>5. st[r] # "pruned"
        BY <3>2 DEF Pruning, IInv, TypeOK
      <3> HIDE DEF st
      <3>e. Ended(st)
        BY <3>1, <3>2, EndTables DEF IInv
      <3>3. st[r] \in {"success", "skipped"}
        BY <3>e, <3>5 DEF Ended, Pruning
      <3>4. r # q
        BY <3>1 DEF IInv, RowsAsRequested, Unfinished
      <3> QED BY <3>1, <3>2, <3>3, <3>4 DEF IInv, UnfinishedIsResumable, Resumable
    <2>3. CASE Correct \/ PersistFails
      <3>1. StatusOf(job.results) # "pruned"
        BY DEF StatusOf
      <3> QED BY <2>3, <3>1 DEF IInv, TypeOK, Correct, PersistFails, Judged, Pruning, Job
    <2>4. CASE Outcome \/ Walk \/ Interrupt \/ Crash
      BY <2>4 DEF Outcome, Completes, CompletesInPart, Fails, Walk, SkipSource, EnterSource,
                  StopEarly, LeaveSource, LeaveSources, Take, Interrupt, Crash, tables, Pruning
    <2>5. ASSUME NEW q \in Runs,
                 \/ \E names \in SUBSET Sources : Start(q, names)
                 \/ \E wanted \in SUBSET Sources : Resume(q, wanted)
          PROVE  FALSE
      BY <2>5 DEF Start, Resume, tables, Pruning, IInv, TypeOK
    <2> QED BY <2>1, <2>2, <2>3, <2>4, <2>5 DEF Next, Invoke
  <1>2. IInv /\ [Next]_vars =>
            [\A r \in Runs \ torn :
                Pruning(r) /\ Unfinished(r) => pc = "persist" /\ job.run = r]_vars
    BY <1>1
  <1> QED BY <1>2, Inductive, PTL DEF Spec, PruningSparesOthers

-----------------------------------------------------------------------------
(* The refinement: what the tables say of each run.                         *)
Rows(r) == {w \in Work : checkpoint[r][w] # "absent"}
Done(r) == {w \in Work : checkpoint[r][w] = "completed"}
Gone == {r \in Runs : status[r] = "pruned"}

LEMMA Unmarked ==
    ASSUME checkpoint' = checkpoint
    PROVE  UNCHANGED <<[r \in Runs |-> Rows(r)], [r \in Runs |-> Done(r)]>>
  BY DEF Rows, Done

(* A checkpoint on a partition that was not completed does it, or nothing.  *)
LEMMA MarkDone ==
    ASSUME TypeOK, pc # "idle", NEW w \in Work, NEW c \in Checkpoints, c # "absent",
           checkpoint[job.run][w] \notin {"absent", "completed"},
           checkpoint' = [checkpoint EXCEPT ![job.run][w] = c]
    PROVE  /\ [r \in Runs |-> Rows(r)]' = [r \in Runs |-> Rows(r)]
           /\ c # "completed" => [r \in Runs |-> Done(r)]' = [r \in Runs |-> Done(r)]
           /\ c = "completed" =>
                 /\ w \in Rows(job.run) \ Done(job.run)
                 /\ [r \in Runs |-> Done(r)]' =
                       [[r \in Runs |-> Done(r)] EXCEPT ![job.run] = @ \cup {w}]
  <1>1. /\ job.run \in Runs
        /\ checkpoint'[job.run][w] = c
        /\ \A r \in Runs, v \in Work :
               (r # job.run \/ v # w) => checkpoint'[r][v] = checkpoint[r][v]
    BY MarkTypes
  <1>2. \A r \in Runs : Rows(r)' = Rows(r)
    BY <1>1 DEF Rows
  <1>3. \A r \in Runs : r # job.run => Done(r)' = Done(r)
    BY <1>1 DEF Done
  <1>4. ASSUME NEW r \in Runs, r = job.run
        PROVE  /\ c # "completed" => Done(r)' = Done(r)
               /\ c = "completed" => Done(r)' = Done(r) \cup {w}
    BY <1>1, <1>4 DEF Done
  <1>6. w \in Rows(job.run) \ Done(job.run)
    BY DEF Rows, Done
  <1>7. c = "completed" => \A r \in Runs : Done(r)' =
            [[q \in Runs |-> Done(q)] EXCEPT ![job.run] = @ \cup {w}][r]
    BY <1>1, <1>3, <1>4
  <1> QED BY <1>1, <1>2, <1>3, <1>4, <1>6, <1>7

LEMMA PromisedStart ==
    ASSUME ConstantsAssumption, Init
    PROVE  Promise!Init
  BY DEF Init, Promise!Init

LEMMA PromisedEnd ==
    ASSUME IInv, NEW st \in [Runs -> RunStatuses], EndWith(st),
           \A r \in Runs : status[r] = "pruned" <=> st[r] = "pruned"
    PROVE  \E gone \in SUBSET Runs : Promise!Forget(gone)
  <1> DEFINE dropped == {r \in Runs : status[r] # "pruned" /\ status'[r] = "pruned"}
  <1>e. Ended(st)
    BY EndTables DEF IInv
  <1>1. \A r \in Runs : \/ r \in dropped /\ \A w \in Work : checkpoint'[r][w] = "absent"
                        \/ r \notin dropped /\ checkpoint'[r] = checkpoint[r]
    <2>1. ASSUME NEW r \in Runs, status[r] = "pruned"
          PROVE  checkpoint'[r] = checkpoint[r]
      BY <1>e, <2>1 DEF Ended
    <2>2. ASSUME NEW r \in Runs, status[r] # "pruned", status'[r] # "pruned"
          PROVE  checkpoint'[r] = checkpoint[r]
      BY <1>e, <2>2 DEF Ended
    <2>3. ASSUME NEW r \in Runs, status[r] # "pruned", status'[r] = "pruned"
          PROVE  \A w \in Work : checkpoint'[r][w] = "absent"
      BY <1>e, <2>3 DEF Ended
    <2> QED BY <2>1, <2>2, <2>3
  <1>2. \A r \in Runs : /\ Rows(r)' = IF r \in dropped THEN {} ELSE Rows(r)
                        /\ Done(r)' = IF r \in dropped THEN {} ELSE Done(r)
    BY <1>1 DEF Rows, Done
  <1>3. \A r \in Runs : status[r] = "pruned" => status'[r] = "pruned"
    BY <1>e DEF Ended
  <1>4. {r \in Runs : status[r] = "pruned"}' = {r \in Runs : status[r] = "pruned"} \cup dropped
    BY <1>3
  <1>5. PICK gone \in SUBSET Runs : gone = dropped
    OBVIOUS
  <1> HIDE DEF dropped
  <1>6. Promise!Forget(gone)
    BY <1>2, <1>4, <1>5 DEF Promise!Forget, Rows, Done
  <1> QED BY <1>6

LEMMA PromisedStep ==
    ASSUME ConstantsAssumption, IInv, [Next]_vars
    PROVE  [Promise!Next]_<<[r \in Runs |-> Rows(r)], [r \in Runs |-> Done(r)], Gone>>
  <1> DEFINE Manifest == [r \in Runs |-> Rows(r)]
             AllDone == [r \in Runs |-> Done(r)]
  <1>0. CASE checkpoint' = checkpoint /\ Gone' = Gone
    BY <1>0, Unmarked
  <1>1. ASSUME NEW r \in Runs, NEW names \in SUBSET Sources, Start(r, names)
        PROVE  Promise!Begin(r)
    <2> DEFINE work == {w \in Work : w[1] \in names}
    <2>1. /\ status[r] = "absent"
          /\ checkpoint' = [checkpoint EXCEPT ![r] =
                [w \in Work |-> IF w[1] \in names THEN "pending" ELSE "absent"]]
      BY <1>1 DEF Start, First
    <2>2. \A w \in Work : checkpoint[r][w] = "absent"
      BY <2>1 DEF IInv, RowsAsRequested
    <2>3. /\ \A q \in Runs : q # r => checkpoint'[q] = checkpoint[q]
          /\ checkpoint'[r] = [w \in Work |-> IF w[1] \in names THEN "pending" ELSE "absent"]
      <3> HIDE DEF work
      <3>1. checkpoint \in [Runs -> [Work -> Checkpoints]]
        BY DEF IInv, TypeOK
      <3> QED BY <2>1, <3>1
    <2>4. Manifest[r] = {}
      BY <2>2 DEF Rows
    <2>8. Rows(r)' = work /\ Done(r)' = {} /\ Done(r) = {}
      BY <2>2, <2>3 DEF Rows, Done
    <2>9. \A q \in Runs : q # r => Rows(q)' = Rows(q) /\ Done(q)' = Done(q)
      BY <2>3 DEF Rows, Done
    <2>5. Manifest' = [Manifest EXCEPT ![r] = work]
      BY <2>8, <2>9
    <2>6. AllDone' = AllDone
      BY <2>8, <2>9
    <2>7. r \notin Gone /\ Gone' = Gone
      BY <1>1 DEF Start, First, Gone, IInv, TypeOK
    <2> QED BY <2>4, <2>5, <2>6, <2>7 DEF Promise!Begin, Rows, Done, Gone
  <1>2. ASSUME NEW w \in Work, Take(w)
        PROVE  UNCHANGED <<Manifest, AllDone, Gone>>
    <2>1. /\ pc = "loop" /\ checkpoint' = [checkpoint EXCEPT ![job.run][w] = "running"]
          /\ w \notin job.prior /\ w[1] = job.source /\ w[2] > job.at
          /\ checkpoint[job.run][w] # "absent" /\ job \in Job
      BY <1>2 DEF Take, Upcoming, Rest, Mine, IInv, TypeOK
    <2>2. w[2] \in Nat /\ job.at \in Nat
      BY <2>1, WorkPairs DEF Job
    <2>3. checkpoint[job.run][w] # "completed"
      BY <2>1, <2>2 DEF IInv, NoneAhead
    <2> QED BY <1>2, <2>1, <2>3, MarkDone DEF IInv, Checkpoints, Take, Gone
  <1>3. ASSUME pc = "running", status' = status, NEW c \in {"completed", "partial", "error"},
               checkpoint' = [checkpoint EXCEPT ![job.run][Attempted] = c]
        PROVE  [Promise!Next]_<<Manifest, AllDone, Gone>>
    <2>1. Attempted \in Work /\ checkpoint[job.run][Attempted] = "running"
      BY <1>3 DEF IInv, AttemptRuns
    <2>2. CASE c # "completed"
      BY <1>3, <2>1, <2>2, MarkDone DEF IInv, Checkpoints, Gone
    <2>3. CASE c = "completed"
      <3> DEFINE r == job.run
      <3>1. r \in Runs
        BY <1>3 DEF IInv, TypeOK, Job
      <3>2. /\ Manifest' = Manifest /\ Attempted \in Rows(r) \ Done(r)
            /\ AllDone' = [AllDone EXCEPT ![r] = @ \cup {Attempted}]
        BY <1>3, <2>1, <2>3, MarkDone DEF IInv, Checkpoints
      <3>3. PICK q \in Runs : q = r
        BY <3>1
      <3>4. Promise!Finish(q)
        BY <1>3, <3>2, <3>3 DEF Promise!Finish, Rows, Done
      <3> QED BY <3>4 DEF Promise!Next
    <2> QED BY <2>2, <2>3
  <1>4. CASE Outcome
    <2>1. /\ pc = "running" /\ status' = status
          /\ \E c \in {"completed", "partial", "error"} :
                checkpoint' = [checkpoint EXCEPT ![job.run][Attempted] = c]
      BY <1>4 DEF Outcome, Completes, CompletesInPart, Fails
    <2> QED BY <1>3, <2>1
  <1>5. ASSUME NEW r \in Runs, OtherMode(r)
        PROVE  [Promise!Next]_<<Manifest, AllDone, Gone>>
    <2> DEFINE st == [status EXCEPT ![r] = "success"]
    <2>1. st \in [Runs -> RunStatuses] /\ EndWith(st) /\ status[r] = "absent"
      BY <1>5 DEF OtherMode, First, IInv, TypeOK, RunStatuses
    <2>2. \A q \in Runs : status[q] = "pruned" <=> st[q] = "pruned"
      BY <2>1 DEF IInv, TypeOK
    <2> HIDE DEF st
    <2>3. \E gone \in SUBSET Runs : Promise!Forget(gone)
      BY <2>1, <2>2, PromisedEnd
    <2> QED BY <2>3 DEF Promise!Next
  <1>6. CASE Persist
    <2>1. /\ Judged \in [Runs -> RunStatuses] /\ EndWith(Judged) /\ job.run \in Runs
          /\ Judged[job.run] # "pruned" /\ status[job.run] # "pruned"
          /\ \A r \in Runs : r # job.run => Judged[r] = status[r]
      BY <1>6, JudgedTypes DEF Persist, IInv, AtWork, Resumable
    <2>2. \A r \in Runs : status[r] = "pruned" <=> Judged[r] = "pruned"
      BY <2>1
    <2>3. \E gone \in SUBSET Runs : Promise!Forget(gone)
      BY <2>1, <2>2, PromisedEnd
    <2> QED BY <2>3 DEF Promise!Next
  <1>7. CASE PersistFails
    <2>1. /\ job.run \in Runs /\ Judged[job.run] # "pruned" /\ status[job.run] # "pruned"
          /\ \A r \in Runs : r # job.run => Judged[r] = status[r]
      BY <1>7, JudgedTypes DEF PersistFails, IInv, AtWork, Resumable
    <2> QED BY <1>0, <1>7, <2>1 DEF PersistFails, Gone
  <1>8. CASE Correct
    BY <1>0, <1>8 DEF Correct, Gone, IInv, TypeOK, Job
  <1>9. CASE Walk
    BY <1>0, <1>2, <1>9
       DEF Walk, SkipSource, EnterSource, StopEarly, LeaveSource, LeaveSources, tables, Gone
  <1>10. CASE Interrupt \/ Crash \/ UNCHANGED vars
    BY <1>0, <1>10 DEF Interrupt, Crash, tables, vars, Gone
  <1>11. ASSUME NEW r \in Runs, NEW wanted \in SUBSET Sources, Resume(r, wanted)
         PROVE  UNCHANGED <<Manifest, AllDone, Gone>>
    BY <1>11, Unmarked DEF Resume, tables, Gone
  <1> QED
    BY <1>1, <1>4, <1>5, <1>6, <1>7, <1>8, <1>9, <1>10, <1>11 DEF Next, Invoke, Promise!Next

(* run_bootstrap keeps the promise of ResumableWork: whatever interrupts,   *)
(* resumes or restricts a run, its manifest is never changed and none of    *)
(* its completed partitions is taken back.                                 *)
THEOREM PromiseKept == Spec => KeepsItsPromise
  <1>1. Init => Promise!Init
    BY ConstantsAssumption, PromisedStart
  <1>2. IInv /\ [Next]_vars =>
            [Promise!Next]_<<[r \in Runs |-> {w \in Work : checkpoint[r][w] # "absent"}],
                            [r \in Runs |-> {w \in Work : checkpoint[r][w] = "completed"}],
                            {r \in Runs : status[r] = "pruned"}>>
    BY ConstantsAssumption, PromisedStep DEF Rows, Done, Gone
  <1> QED BY <1>1, <1>2, Inductive, PTL DEF Spec, KeepsItsPromise, Promise!Spec

=============================================================================
