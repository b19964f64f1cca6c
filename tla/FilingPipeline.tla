--------------------------- MODULE FilingPipeline ---------------------------
(***************************************************************************)
(* The SEC pipeline of src/sec.  Discovery (daily_index.py) downloads one  *)
(* EDGAR master index per weekday, in date order from a durable cursor,    *)
(* and registers its filings and its checkpoint in one transaction.        *)
(* Processing (filing_processor.py) takes a batch of registered filings,   *)
(* newest first, and marks each one parsed when everything it promises is  *)
(* stored; a filing whose sections could not be indexed waits as           *)
(* 'index_pending' for the next batch or for `repair`.                     *)
(*                                                                         *)
(* Dates are day numbers.  One process at a time runs the pipeline.        *)
(***************************************************************************)
EXTENDS Integers, FiniteSets

CONSTANTS
    Weekdays,    \* dates a pass may ask for
    Holidays,    \* weekdays whose index EDGAR never publishes
    LastDay,     \* bound: the clock stops here
    Filings,     \* accessions of covered securities and configured forms
    FiledOn,     \* the date whose index lists the filing
    Kind,        \* "broad"; deep filings: "indexed" by section, or "legacy"
    Oversized,   \* filings whose every section exceeds max_section_chars
    Unsplit,     \* filings whose text has no section at all
    Unparseable, \* filings no attempt can download and extract
    Overlap,     \* daily_index_overlap_days
    Lookback,    \* daily_index_bootstrap_days
    BatchLimit,  \* processing_batch_limit
    Steady,      \* EDGAR publishes, and lifts a block, only between passes
    None,
    MaxFaults    \* bound: failed requests and transactions, and deaths

Kinds == {"broad", "indexed", "legacy"}

ASSUME ConstantsAssumption ==
    /\ Weekdays \subseteq Nat
    /\ Holidays \subseteq Weekdays
    /\ LastDay \in Nat
    /\ FiledOn \in [Filings -> Weekdays \ Holidays]
    /\ Kind \in [Filings -> Kinds]
    /\ Oversized \subseteq Filings /\ Unsplit \subseteq Filings
    /\ Unparseable \subseteq Filings
    /\ Overlap \in Nat /\ Lookback \in Nat \ {0} /\ BatchLimit \in Nat \ {0}
    /\ Steady \in BOOLEAN
    /\ None \notin Filings
    /\ MaxFaults \in Nat

(* What processing stores of a filing before it may mark it parsed, and    *)
(* the order in which it does.                                             *)
Pieces(f) == CASE Kind[f] = "broad"   -> {"narrative", "events", "sections"}
               [] Kind[f] = "indexed" -> {"facts", "sections"}
               [] OTHER               -> {"document", "facts"}
AllPieces == {"document", "narrative", "facts", "events", "sections"}
Before(p, q) == \/ p \in {"document", "narrative"} /\ q \in {"facts", "events", "sections"}
                \/ p \in {"facts", "events"} /\ q = "sections"

VARIABLES
    today, listed, blocked, \* the clock; EDGAR: dates published, access refused
    index,     \* sec_daily_indexes.status by date, "none" without a row
    bulkFresh, \* cache_meta says the bulk submissions were loaded
    filing,    \* filings.status, "none" without a row
    stored,    \* pieces of each filing that are in the stores
    pc, job,   \* the pass in progress, and its locals
    missed,    \* dates a pass asked for in vain
    leapt,     \* dates an explicit request jumped over
    faults

edgar == <<today, listed, blocked>>
tables == <<index, bulkFresh, filing, stored>>
ghosts == <<missed, leapt>>
vars == <<edgar, tables, pc, job, ghosts, faults>>

Places == {"idle", "bulk", "bulk_mark", "plan", "dates", "absent", "choose", "batch", "filing"}
IndexStatuses == {"none", "processed", "absent"}
FilingStatuses == {"none", "unprocessed", "index_pending", "parsed"}
Job == [deep: BOOLEAN, todo: SUBSET Weekdays,
        forbidden: SUBSET Weekdays, succeeded: SUBSET Weekdays,
        batch: SUBSET Filings, at: Filings \cup {None},
        left: SUBSET AllPieces, repair: BOOLEAN]
Fresh(deep, todo) ==
    [deep |-> deep, todo |-> todo, forbidden |-> {}, succeeded |-> {},
     batch |-> {}, at |-> None, left |-> {}, repair |-> FALSE]
NoJob == Fresh(FALSE, {})

TypeOK ==
    /\ today \in 0..LastDay
    /\ listed \subseteq Weekdays \ Holidays
    /\ blocked \in BOOLEAN
    /\ index \in [Weekdays -> IndexStatuses]
    /\ bulkFresh \in BOOLEAN
    /\ filing \in [Filings -> FilingStatuses]
    /\ stored \in [Filings -> SUBSET AllPieces]
    /\ pc \in Places
    /\ job \in Job
    /\ pc = "filing" => job.at \in Filings
    /\ missed \subseteq Weekdays /\ leapt \subseteq Weekdays
    /\ faults \in 0..MaxFaults

Init ==
    /\ today = 0 /\ listed = {} /\ blocked = FALSE
    /\ index = [d \in Weekdays |-> "none"]
    /\ bulkFresh = FALSE
    /\ filing = [f \in Filings |-> "none"]
    /\ stored = [f \in Filings |-> {}]
    /\ pc = "idle" /\ job = NoJob
    /\ missed = {} /\ leapt = {}
    /\ faults = 0

Spend == faults < MaxFaults /\ faults' = faults + 1
Goto(place, j) == pc' = place /\ job' = j

-----------------------------------------------------------------------------
(* EDGAR and the calendar.                                                 *)
Quiet == Steady => pc = "idle"

Tick ==
    /\ today < LastDay
    /\ today' = today + 1
    /\ UNCHANGED <<listed, blocked, tables, pc, job, ghosts, faults>>

(* Indexes appear in date order, on their own day or later.                *)
Publish(d) ==
    /\ Quiet
    /\ d <= today
    /\ d \notin listed
    /\ \A e \in Weekdays \ Holidays : e < d => e \in listed
    /\ listed' = listed \cup {d}
    /\ UNCHANGED <<today, blocked, tables, pc, job, ghosts, faults>>

(* A block answers 403 for every key.                                      *)
Block ==
    /\ Quiet
    /\ ~blocked
    /\ Spend
    /\ blocked' = TRUE
    /\ UNCHANGED <<today, listed, tables, pc, job, ghosts>>

Unblock ==
    /\ Quiet
    /\ blocked
    /\ blocked' = FALSE
    /\ UNCHANGED <<today, listed, tables, pc, job, ghosts, faults>>

-----------------------------------------------------------------------------
(* Discovery.                                                              *)
Processed == {d \in Weekdays : index[d] = "processed"}

(* Mutant: the pass looks back from today, not from the cursor.            *)
InReachOfToday(d) ==
    IF Processed = {} THEN today < d + Lookback ELSE today <= d + Overlap

(* The cursor is the newest processed date; a pass starts Overlap days     *)
(* before it or, when there is none, covers the last Lookback days.        *)
InReach(d) ==
    IF Processed = {} THEN today < d + Lookback ELSE \A c \in Processed : c <= d + Overlap

(* run_discovery or, deep, run_full_pipeline.  The initial bulk load is    *)
(* tried while there is no cursor.                                         *)
StartDiscovery(deep, allowBootstrap) ==
    /\ pc = "idle"
    /\ Goto(IF allowBootstrap /\ Processed = {} /\ ~bulkFresh THEN "bulk" ELSE "plan",
            Fresh(deep, {}))
    /\ UNCHANGED <<edgar, tables, ghosts, faults>>

(* Rows of filings already known are left alone.                           *)
InsertFilings(F) ==
    filing' = [f \in Filings |->
        IF f \in F /\ filing[f] = "none" THEN "unprocessed" ELSE filing[f]]

BulkRegister ==
    /\ pc = "bulk"
    /\ ~blocked
    /\ InsertFilings({f \in Filings : FiledOn[f] < today})
    /\ Goto("bulk_mark", job)
    /\ UNCHANGED <<edgar, index, bulkFresh, stored, ghosts, faults>>

BulkMark ==
    /\ pc = "bulk_mark"
    /\ bulkFresh' = TRUE
    /\ Goto("plan", job)
    /\ UNCHANGED <<edgar, index, filing, stored, ghosts, faults>>

BulkFails ==
    /\ pc \in {"bulk", "bulk_mark"}
    /\ \/ blocked /\ pc = "bulk" /\ UNCHANGED faults
       \/ Spend
    /\ Goto("plan", job)
    /\ UNCHANGED <<edgar, tables, ghosts>>

Plan ==
    /\ pc = "plan"
    /\ Goto("dates", [job EXCEPT !.todo = {d \in Weekdays : d <= today /\ InReach(d)}])
    /\ UNCHANGED <<edgar, tables, ghosts, faults>>

(* discover_dates on one date, a partition of the scheduler's bootstrap.   *)
DiscoverDate(d) ==
    /\ pc = "idle"
    /\ d <= today
    /\ Goto("dates", Fresh(FALSE, {d}))
    /\ leapt' = leapt \cup {x \in Weekdays :
           \E e \in Processed : (e < x /\ x < d) \/ (d < x /\ x < e)}
    /\ UNCHANGED <<edgar, tables, missed, faults>>

(* Dates are asked for in ascending order.                                 *)
Asking(d) == /\ pc = "dates"
             /\ d \in job.todo
             /\ \A e \in job.todo : d <= e
Done(d) == [job EXCEPT !.todo = @ \ {d}]

SkipDate(d) ==
    /\ Asking(d)
    /\ index[d] # "none"
    /\ Goto("dates", Done(d))
    /\ UNCHANGED <<edgar, tables, ghosts, faults>>

(* Mutant: the checkpoint commits without its rows.                        *)
CheckpointIndex(d) ==
    /\ index' = [index EXCEPT ![d] = "processed"]
    /\ UNCHANGED filing

(* register_sec_daily_index: the filings and the checkpoint are one        *)
(* transaction.                                                            *)
RegisterIndex(d) ==
    /\ InsertFilings({f \in Filings : FiledOn[f] = d})
    /\ index' = [index EXCEPT ![d] = "processed"]

ProcessIndex(d) ==
    /\ Asking(d)
    /\ index[d] = "none"
    /\ ~blocked /\ d \in listed
    /\ RegisterIndex(d)
    /\ Goto("dates", [Done(d) EXCEPT !.succeeded = @ \cup {d}])
    /\ UNCHANGED <<edgar, bulkFresh, stored, ghosts, faults>>

(* The key is missing, or EDGAR blocks us: the same answer.                *)
Forbidden(d) ==
    /\ Asking(d)
    /\ index[d] = "none"
    /\ blocked \/ d \notin listed
    /\ Goto("dates", [Done(d) EXCEPT !.forbidden = @ \cup {d}])
    /\ missed' = missed \cup {d}
    /\ UNCHANGED <<edgar, tables, leapt, faults>>

(* Any other failure, the transaction's included.                          *)
DateFails(d) ==
    /\ Asking(d)
    /\ index[d] = "none"
    /\ Spend
    /\ Goto("dates", Done(d))
    /\ missed' = missed \cup {d}
    /\ UNCHANGED <<edgar, tables, leapt>>

(* Mutant: a forbidden date is a holiday if any other one was there.       *)
AbsentIfAny(forbidden, succeeded) == {d \in forbidden : succeeded # {}}

(* A forbidden date is a holiday if a later one was there.                 *)
Absent(forbidden, succeeded) == {d \in forbidden : \E e \in succeeded : d < e}

DatesDone ==
    /\ pc = "dates"
    /\ job.todo = {}
    /\ Goto("absent", [job EXCEPT !.todo = Absent(job.forbidden, job.succeeded)])
    /\ UNCHANGED <<edgar, tables, ghosts, faults>>

(* mark_sec_daily_index_absent, a transaction each.                        *)
MarkAbsent(d) ==
    /\ pc = "absent"
    /\ d \in job.todo
    /\ \A e \in job.todo : d <= e
    /\ index' = [index EXCEPT ![d] = IF @ = "none" THEN "absent" ELSE @]
    /\ Goto("absent", Done(d))
    /\ UNCHANGED <<edgar, bulkFresh, filing, stored, ghosts, faults>>

DiscoveryDone ==
    /\ pc = "absent"
    /\ job.todo = {}
    /\ IF job.deep THEN Goto("choose", job) ELSE Goto("idle", NoJob)
    /\ UNCHANGED <<edgar, tables, ghosts, faults>>

-----------------------------------------------------------------------------
(* Processing.                                                             *)
(* Mutant: a filing that waits for its index is nobody's work.             *)
SelectableOnce == {"unprocessed"}

Selectable == {"unprocessed", "index_pending"}

Queue == {f \in Filings : filing[f] \in Selectable}

(* get_unprocessed_filings: the newest BatchLimit of the queue.            *)
Batch(B) ==
    /\ B \subseteq Queue
    /\ \A f \in B, g \in Queue \ B : FiledOn[g] <= FiledOn[f]
    /\ Cardinality(B) = BatchLimit \/ (B = Queue /\ Cardinality(B) < BatchLimit)

ChooseBatch ==
    /\ pc = "choose"
    /\ \E B \in SUBSET Queue :
         /\ Batch(B)
         /\ Goto("batch", [job EXCEPT !.batch = B])
    /\ UNCHANGED <<edgar, tables, ghosts, faults>>

Take(f) ==
    /\ pc = "batch"
    /\ f \in job.batch
    /\ \A g \in job.batch : FiledOn[g] <= FiledOn[f]
    /\ Goto("filing", [job EXCEPT !.batch = @ \ {f}, !.at = f, !.left = Pieces(f),
                                  !.repair = FALSE])
    /\ UNCHANGED <<edgar, tables, ghosts, faults>>

BatchDone ==
    /\ pc = "batch"
    /\ job.batch = {}
    /\ Goto("idle", NoJob)
    /\ UNCHANGED <<edgar, tables, ghosts, faults>>

(* Store.repair_filing_index, which indexes the stored artifact again.     *)
Repair(f) ==
    /\ pc = "idle"
    /\ filing[f] = "index_pending"
    /\ Goto("filing", [NoJob EXCEPT !.at = f, !.left = {"sections"}, !.repair = TRUE])
    /\ UNCHANGED <<edgar, tables, ghosts, faults>>

(* The attempt on one filing ends, for better or worse, and the next one   *)
(* begins.                                                                 *)
Leave == Goto(IF job.repair THEN "idle" ELSE "batch",
              IF job.repair THEN NoJob ELSE [job EXCEPT !.at = None, !.left = {}])

(* Processing finds no section it may index; repair has no size limit.     *)
NothingToIndex ==
    /\ Kind[job.at] = "indexed"
    /\ job.at \in Unsplit \/ (job.at \in Oversized /\ ~job.repair)

(* Mutant: the state the schema's comment names.                           *)
FailedFiling(f) == [filing EXCEPT ![f] = "failed"]

Pending(f) == [filing EXCEPT ![f] = "index_pending"]

(* The text is there and facts were extracted, but it cannot be indexed:   *)
(* mark_filing_index_pending, before any fact is saved.                    *)
HeldBack ==
    /\ pc = "filing"
    /\ job.repair \/ job.left = Pieces(job.at)
    /\ job.repair \/ job.at \notin Unparseable
    /\ NothingToIndex
    /\ filing' = Pending(job.at)
    /\ Leave
    /\ UNCHANGED <<edgar, index, bulkFresh, stored, ghosts, faults>>

StorePiece(p) ==
    /\ pc = "filing"
    /\ p \in job.left
    /\ \A q \in job.left : ~Before(q, p)
    /\ ~NothingToIndex
    /\ job.repair \/ job.at \notin Unparseable
    /\ stored' = [stored EXCEPT ![job.at] = @ \cup {p}]
    /\ Goto("filing", [job EXCEPT !.left = @ \ {p}])
    /\ UNCHANGED <<edgar, index, bulkFresh, filing, ghosts, faults>>

(* Mutant: a failure to index is swallowed.                                *)
SectionsFailQuietly ==
    /\ pc = "filing"
    /\ job.left = {"sections"}
    /\ ~NothingToIndex
    /\ Goto("filing", [job EXCEPT !.left = {}])
    /\ UNCHANGED <<edgar, tables, ghosts, faults>>

(* Indexing stops half way: the families replaced so far, or the one being *)
(* replaced, leave the filing without a complete set.                      *)
Tear ==
    \E torn \in SUBSET {"sections"} :
        stored' = [stored EXCEPT ![job.at] = @ \ torn]

(* Deep filings wait as 'index_pending'; a broad one, or one for which that*)
(* cannot be recorded either, keeps its status.                            *)
SectionsFail ==
    /\ pc = "filing"
    /\ job.left = {"sections"}
    /\ ~NothingToIndex
    /\ Tear
    /\ \/ Kind[job.at] = "broad" /\ UNCHANGED <<filing, faults>>
       \/ Kind[job.at] # "broad" /\ filing' = Pending(job.at) /\ UNCHANGED faults
       \/ Spend /\ UNCHANGED filing
    /\ Leave
    /\ UNCHANGED <<edgar, index, bulkFresh, ghosts>>

(* No text, no facts, no security, or a store that raises: the status is   *)
(* left as it was, and the filing is selected again.                       *)
FilingFails ==
    /\ pc = "filing"
    /\ ~job.repair
    /\ job.left \notin {{}, {"sections"}}
    /\ Leave
    /\ UNCHANGED <<edgar, tables, ghosts, faults>>

MarkParsed ==
    /\ pc = "filing"
    /\ job.left = {}
    /\ filing' = [filing EXCEPT ![job.at] = "parsed"]
    /\ Leave
    /\ UNCHANGED <<edgar, index, bulkFresh, stored, ghosts, faults>>

MarkFails ==
    /\ pc = "filing"
    /\ job.left = {}
    /\ Spend
    /\ Leave
    /\ UNCHANGED <<edgar, tables, ghosts>>

-----------------------------------------------------------------------------
(* The process dies, or an exception ends the pass.                        *)
Crash ==
    /\ pc # "idle"
    /\ Spend
    /\ \/ pc = "filing" /\ job.left = {"sections"} /\ Tear
       \/ UNCHANGED stored
    /\ Goto("idle", NoJob)
    /\ UNCHANGED <<edgar, index, bulkFresh, filing, ghosts>>

Discover == \/ BulkRegister \/ BulkMark \/ BulkFails \/ Plan
            \/ \E d \in Weekdays : \/ SkipDate(d) \/ ProcessIndex(d) \/ Forbidden(d)
                                   \/ DateFails(d) \/ MarkAbsent(d)
            \/ DatesDone \/ DiscoveryDone

Process == \/ ChooseBatch \/ BatchDone
           \/ \E f \in Filings : Take(f)
           \/ HeldBack \/ SectionsFail \/ FilingFails \/ MarkParsed \/ MarkFails
           \/ \E p \in AllPieces : StorePiece(p)

Next ==
    \/ Tick \/ Block \/ Unblock
    \/ \E d \in Weekdays \ Holidays : Publish(d)
    \/ \E deep, allowBootstrap \in BOOLEAN : StartDiscovery(deep, allowBootstrap)
    \/ \E d \in Weekdays : DiscoverDate(d)
    \/ \E f \in Filings : Repair(f)
    \/ Discover \/ Process \/ Crash

Spec == Init /\ [][Next]_vars

(***************************************************************************)
(* The scheduler keeps running the full pipeline, a pass goes on, and the  *)
(* providers, the model and Chroma serve a filing that can be served if    *)
(* they are asked again and again.                                         *)
(***************************************************************************)
Servable == Filings \ (Oversized \cup Unsplit \cup Unparseable)

Serve(f, p) == job.at = f /\ StorePiece(p)

LiveSpec ==
    /\ Spec
    /\ SF_vars(StartDiscovery(TRUE, FALSE))
    /\ WF_vars(Discover \/ Process)
    /\ \A f \in Servable : \A p \in Pieces(f) : SF_vars(Serve(f, p))

-----------------------------------------------------------------------------
(* A date that daily passes can no longer reach, because the cursor is more*)
(* than Overlap days past it, was asked for at least once: however passes  *)
(* were interrupted, missed or delayed, none is skipped unseen, except by  *)
(* an explicit request that jumps ahead.  (discover, discover_dates)       *)
NoDateSkipped ==
    \A d \in Weekdays :
        (\E e \in Processed : e < d) /\ (\E c \in Processed : d + Overlap < c)
            => index[d] # "none" \/ d \in missed \/ d \in leapt

(* A date is marked absent, and never asked for again, only if EDGAR does  *)
(* not publish it: not in a block, nor before a late publication.          *)
AbsentIsUnpublished == \A d \in listed : index[d] # "absent"

(* An index is processed only with all its covered filings registered.     *)
ProcessedIsRegistered ==
    \A f \in Filings : index[FiledOn[f]] = "processed" => filing[f] # "none"

(* A filing is marked parsed, and leaves the queue, only when all that its *)
(* kind promises is stored, however its attempts failed and whoever made   *)
(* the last one; filings with oversized sections are the exception, for    *)
(* which repair does not save the facts.                                   *)
ParsedIsComplete ==
    \A f \in Filings \ Oversized : filing[f] = "parsed" => Pieces(f) \subseteq stored[f]

(* A registered filing that can be served is parsed in the end, if fewer   *)
(* filings that cannot be than a batch holds are in the queue.             *)
FilingsParsed ==
    \A f \in Servable : filing[f] = "unprocessed" ~> filing[f] = "parsed"
=============================================================================
