------------------------ MODULE FilingPipelineProofs ------------------------
(***************************************************************************)
(* Theorems about FilingPipeline, for any calendar, any set of filings of  *)
(* any kind, and any overlap, batch and number of faults.                  *)
(***************************************************************************)
EXTENDS FilingPipeline, TLAPS

(* EDGAR leaves out holidays only.                                         *)
ListedInOrder ==
    \A e \in listed, d \in Weekdays \ Holidays : d < e => d \in listed

Settled(d) == index[d] # "none" \/ d \in missed \/ d \in leapt

(* What a pass still has to ask for covers every date out of reach that the *)
(* next checkpoint would put between two processed ones: those after it are *)
(* settled, those before it are settled or on the list, and the list has no *)
(* gap.                                                                    *)
PassCovers ==
    pc = "dates" =>
        /\ \A t \in job.todo, c \in Processed, x \in Weekdays :
               t < x /\ x + Overlap < c => Settled(x)
        /\ \A t \in job.todo, e \in Processed, x \in Weekdays :
               e < x /\ x + Overlap < t => Settled(x) \/ x \in job.todo
        /\ \A t, u \in job.todo, x \in Weekdays : t < x /\ x < u => x \in job.todo

(* A date is given up only if it is a holiday.  In a pass, what was         *)
(* obtained was there, and what was refused was not or all was refused.    *)
HolidaysOnly ==
    /\ \A d \in Weekdays : index[d] = "absent" => d \in Holidays
    /\ pc = "absent" => job.todo \subseteq Holidays
    /\ pc \in {"bulk", "bulk_mark", "plan", "dates"} =>
        /\ job.succeeded \subseteq listed
        /\ job.succeeded # {} => ~blocked
        /\ \A d \in job.forbidden : blocked \/ d \notin listed

(* The filings a batch holds are still in the queue, and the attempt on one *)
(* has stored all that is not left to do; one that waits for its index has  *)
(* everything but its sections.                                            *)
Divisible(f) == f \notin Oversized /\ ~(Kind[f] = "indexed" /\ f \in Unsplit)

AttemptOK ==
    /\ \A f \in Filings : filing[f] = "index_pending" => Kind[f] = "indexed"
    /\ \A f \in Filings : filing[f] = "index_pending" /\ Divisible(f) => "facts" \in stored[f]
    /\ pc \in {"batch", "filing"} => job.batch \subseteq Queue
    /\ pc = "filing" =>
        /\ job.at \in Queue \ job.batch
        /\ job.left \subseteq Pieces(job.at)
        /\ job.repair => filing[job.at] = "index_pending"
        /\ Divisible(job.at) => Pieces(job.at) \ job.left \subseteq stored[job.at]
        /\ Kind[job.at] = "indexed" /\ job.at \in Unsplit => job.left # {}

-----------------------------------------------------------------------------
LEMMA FreshTypes ==
    ASSUME NEW deep \in BOOLEAN, NEW todo \in SUBSET Weekdays
    PROVE  Fresh(deep, todo) \in Job
  BY DEF Fresh, Job

LEMMA InitTypes == ASSUME ConstantsAssumption, Init PROVE TypeOK
  <1>1. job \in Job
    BY FreshTypes DEF Init, NoJob
  <1>2. today \in 0..LastDay /\ faults \in 0..MaxFaults
    BY DEF ConstantsAssumption, Init
  <1> QED
    BY <1>1, <1>2 DEF Init, TypeOK, IndexStatuses, FilingStatuses, Places

LEMMA SpendTypes ==
    ASSUME ConstantsAssumption, faults \in 0..MaxFaults, Spend
    PROVE  faults' \in 0..MaxFaults
  BY DEF ConstantsAssumption, Spend

LEMMA DoneTypes ==
    ASSUME job \in Job, NEW d \in Weekdays
    PROVE  /\ Done(d) \in Job
           /\ [Done(d) EXCEPT !.succeeded = @ \cup {d}] \in Job
           /\ [Done(d) EXCEPT !.forbidden = @ \cup {d}] \in Job
  BY DEF Done, Job

LEMMA LeaveTypes ==
    ASSUME job \in Job, Leave
    PROVE  pc' \in {"idle", "batch"} /\ job' \in Job
  BY FreshTypes DEF Leave, Goto, NoJob, Job

(* Only the sections of the filing in hand can be torn.                     *)
LEMMA TearTypes ==
    ASSUME TypeOK, pc = "filing", Tear
    PROVE  /\ stored' \in [Filings -> SUBSET AllPieces]
           /\ \A f \in Filings : stored[f] \ {"sections"} \subseteq stored'[f]
           /\ \A f \in Filings \ {job.at} : stored'[f] = stored[f]
  <1>1. PICK torn \in SUBSET {"sections"} : stored' = [stored EXCEPT ![job.at] = @ \ torn]
    BY DEF Tear
  <1>2. \A f \in Filings :
            stored'[f] = IF f = job.at THEN stored[f] \ torn ELSE stored[f]
    BY <1>1 DEF TypeOK
  <1>3. stored' \in [Filings -> SUBSET AllPieces]
    BY <1>1 DEF TypeOK
  <1> QED BY <1>1, <1>2, <1>3

LEMMA InsertTypes ==
    ASSUME TypeOK, NEW F, InsertFilings(F)
    PROVE  /\ filing' \in [Filings -> FilingStatuses]
           /\ \A f \in Filings : filing[f] # "none" => filing'[f] = filing[f]
           /\ \A f \in F \cap Filings : filing'[f] # "none"
           /\ \A f \in Filings : filing'[f] # filing[f] => filing'[f] = "unprocessed"
  BY DEF TypeOK, InsertFilings, FilingStatuses

LEMMA TypeStep ==
    ASSUME ConstantsAssumption, TypeOK, [Next]_vars
    PROVE  TypeOK'
  <1> USE DEF TypeOK, edgar, tables, ghosts, Goto
  <1>1. CASE Tick
    BY <1>1 DEF ConstantsAssumption, Tick
  <1>2. CASE Block \/ Unblock
    BY <1>2, SpendTypes DEF Block, Unblock
  <1>3. ASSUME NEW d \in Weekdays \ Holidays, Publish(d) PROVE TypeOK'
    BY <1>3 DEF Publish
  <1>4. ASSUME NEW deep \in BOOLEAN, NEW allow \in BOOLEAN, StartDiscovery(deep, allow)
        PROVE  TypeOK'
    BY <1>4, FreshTypes DEF StartDiscovery, Places
  <1>5. ASSUME NEW d \in Weekdays, DiscoverDate(d) PROVE TypeOK'
    BY <1>5, FreshTypes DEF DiscoverDate, Places
  <1>6. ASSUME NEW f \in Filings, Repair(f) PROVE TypeOK'
    <2>1. job' \in Job /\ job'.at = f
      BY <1>6 DEF Repair, NoJob, Fresh, Job, AllPieces
    <2> QED BY <1>6, <2>1 DEF Repair, Places
  <1>7. CASE BulkRegister
    BY <1>7, InsertTypes DEF BulkRegister, Places
  <1>8. CASE BulkMark \/ BulkFails
    BY <1>8, SpendTypes DEF BulkMark, BulkFails, Places
  <1>9. CASE Plan
    BY <1>9 DEF Plan, Places, Job
  <1>10. ASSUME NEW d \in Weekdays, SkipDate(d) \/ DateFails(d) \/ Forbidden(d)
         PROVE  TypeOK'
    <2>1. CASE SkipDate(d)
      BY <2>1, DoneTypes DEF SkipDate, Places
    <2>2. CASE DateFails(d)
      BY <2>2, DoneTypes, SpendTypes DEF DateFails, Places
    <2>3. CASE Forbidden(d)
      BY <2>3, DoneTypes DEF Forbidden, Places
    <2> QED BY <1>10, <2>1, <2>2, <2>3
  <1>11. ASSUME NEW d \in Weekdays, ProcessIndex(d) PROVE TypeOK'
    BY <1>11, DoneTypes, InsertTypes DEF ProcessIndex, RegisterIndex, IndexStatuses, Places
  <1>12. ASSUME NEW d \in Weekdays, MarkAbsent(d) PROVE TypeOK'
    BY <1>12, DoneTypes DEF MarkAbsent, IndexStatuses, Places
  <1>13. CASE DatesDone
    BY <1>13 DEF DatesDone, Absent, Job, Places
  <1>14. CASE DiscoveryDone
    BY <1>14, FreshTypes DEF DiscoveryDone, NoJob, Places
  <1>15. CASE ChooseBatch
    BY <1>15 DEF ChooseBatch, Queue, Job, Places
  <1>16. CASE BatchDone
    BY <1>16, FreshTypes DEF BatchDone, NoJob, Places
  <1>17. ASSUME NEW f \in Filings, Take(f) PROVE TypeOK'
    <2>1. Pieces(f) \subseteq AllPieces
      BY DEF Pieces, AllPieces
    <2>2. job' \in Job /\ job'.at = f
      BY <1>17, <2>1 DEF Take, Job
    <2> QED BY <1>17, <2>2 DEF Take, Places
  <1>18. CASE HeldBack \/ SectionsFail \/ FilingFails \/ MarkParsed \/ MarkFails
    <2>1. job' \in Job /\ pc' \in {"idle", "batch"}
      BY <1>18, LeaveTypes DEF HeldBack, SectionsFail, FilingFails, MarkParsed, MarkFails
    <2>2. job.at \in Filings
      BY <1>18 DEF HeldBack, SectionsFail, FilingFails, MarkParsed, MarkFails
    <2>3. filing' \in [Filings -> FilingStatuses]
      BY <1>18, <2>2
      DEF HeldBack, SectionsFail, FilingFails, MarkParsed, MarkFails, Pending, FilingStatuses
    <2>4. stored' \in [Filings -> SUBSET AllPieces]
      BY <1>18, <2>2, TearTypes DEF HeldBack, SectionsFail, FilingFails, MarkParsed, MarkFails
    <2>5. faults' \in 0..MaxFaults
      BY <1>18, SpendTypes DEF HeldBack, SectionsFail, FilingFails, MarkParsed, MarkFails
    <2> QED
      BY <1>18, <2>1, <2>3, <2>4, <2>5
      DEF HeldBack, SectionsFail, FilingFails, MarkParsed, MarkFails, Places
  <1>19. ASSUME NEW p \in AllPieces, StorePiece(p) PROVE TypeOK'
    <2>1. job' \in Job /\ job'.at = job.at
      BY <1>19 DEF StorePiece, Job
    <2> QED BY <1>19, <2>1 DEF StorePiece, Places
  <1>20. CASE Crash
    <2>1. stored' \in [Filings -> SUBSET AllPieces]
      BY <1>20, TearTypes DEF Crash
    <2> QED BY <1>20, <2>1, FreshTypes, SpendTypes DEF Crash, NoJob, Places
  <1>21. CASE UNCHANGED vars
    BY <1>21 DEF vars
  <1> QED
    BY <1>1, <1>2, <1>3, <1>4, <1>5, <1>6, <1>7, <1>8, <1>9, <1>10, <1>11, <1>12, <1>13,
       <1>14, <1>15, <1>16, <1>17, <1>18, <1>19, <1>20, <1>21
    DEF Next, Discover, Process

(* The tables, the clock and the pass in progress stay within their domains.*)
THEOREM TypeCorrect == ASSUME ConstantsAssumption PROVE Spec => []TypeOK
  BY InitTypes, TypeStep, PTL DEF Spec

-----------------------------------------------------------------------------
(* A step that does not touch the list of dates, nor the checkpoints.       *)
LEMMA DatesCalm ==
    ASSUME PassCovers, NoDateSkipped, Processed' = Processed,
           \A x \in Weekdays : Settled(x) => Settled(x)',
           pc' = "dates" => pc = "dates" /\ job' = job
    PROVE  PassCovers' /\ NoDateSkipped'
  <1>1. PassCovers'
    BY DEF PassCovers
  <1>2. NoDateSkipped'
    BY DEF NoDateSkipped, Settled
  <1> QED BY <1>1, <1>2

(* A date is asked for: it is the first of the list, and settled after.     *)
LEMMA DatesAsked ==
    ASSUME ConstantsAssumption, TypeOK, PassCovers, NoDateSkipped,
           NEW d \in Weekdays, Asking(d),
           job'.todo = job.todo \ {d}, Settled(d)',
           Processed' \subseteq Processed \cup {d},
           \A x \in Weekdays : Settled(x) => Settled(x)'
    PROVE  PassCovers' /\ NoDateSkipped'
  <1>1. /\ job.todo \subseteq Weekdays /\ Processed \subseteq Weekdays
        /\ Weekdays \subseteq Nat /\ Overlap \in Nat
    BY DEF ConstantsAssumption, TypeOK, Job, Processed
  <1>2. /\ d \in job.todo
        /\ \A t \in job.todo : d <= t
        /\ \A t \in job.todo, c \in Processed, x \in Weekdays :
               t < x /\ x + Overlap < c => Settled(x)
        /\ \A t \in job.todo, e \in Processed, x \in Weekdays :
               e < x /\ x + Overlap < t => Settled(x) \/ x \in job.todo
        /\ \A t, u \in job.todo, x \in Weekdays : t < x /\ x < u => x \in job.todo
    BY DEF Asking, PassCovers
  <1>3. \A x \in Weekdays :
          (\E e \in Processed : e < x) /\ (\E c \in Processed : x + Overlap < c) => Settled(x)
    BY DEF NoDateSkipped, Settled
  <1>4. ASSUME NEW t \in job'.todo, NEW c \in Processed', NEW x \in Weekdays,
               t < x, x + Overlap < c
        PROVE  Settled(x)'
    <2>1. CASE c \in Processed
      BY <1>1, <1>2, <1>4, <2>1
    <2>2. CASE c = d
      <3>1. d <= t /\ t \in Nat /\ d \in Nat /\ x \in Nat
        BY <1>1, <1>2
      <3> QED BY <1>4, <2>2, <3>1
    <2> QED BY <2>1, <2>2
  <1>5. ASSUME NEW t \in job'.todo, NEW e \in Processed', NEW x \in Weekdays,
               e < x, x + Overlap < t
        PROVE  Settled(x)' \/ x \in job'.todo
    <2>1. CASE e \in Processed
      BY <1>1, <1>2, <1>5, <2>1
    <2>2. CASE e = d
      <3>1. t \in job.todo
        BY <1>5
      <3>2. t \in Nat /\ d \in Nat /\ x \in Nat
        BY <1>1, <3>1
      <3>3. x < t
        BY <1>1, <1>5, <3>2
      <3> QED BY <1>2, <1>5, <2>2, <3>1, <3>2, <3>3
    <2> QED BY <2>1, <2>2
  <1>6. ASSUME NEW t \in job'.todo, NEW u \in job'.todo, NEW x \in Weekdays, t < x, x < u
        PROVE  x \in job'.todo
    <2>1. t \in Nat /\ d \in Nat /\ x \in Nat /\ d <= t
      BY <1>1, <1>2
    <2> QED BY <1>2, <1>6, <2>1
  <1>7. ASSUME NEW x \in Weekdays, NEW e \in Processed', NEW c \in Processed',
               e < x, x + Overlap < c
        PROVE  Settled(x)'
    <2>1. d \in Nat /\ x \in Nat /\ e \in Nat /\ c \in Nat
      BY <1>1
    <2>2. CASE e \in Processed /\ c \in Processed
      BY <1>3, <1>7, <2>2
    <2>3. CASE e = d /\ c \in Processed
      BY <1>2, <1>7, <2>3
    <2>4. CASE e \in Processed /\ c = d
      <3>1. Settled(x) \/ x \in job.todo
        BY <1>2, <1>7, <2>4
      <3>2. x \notin job.todo
        BY <1>2, <1>7, <2>1, <2>4
      <3> QED BY <3>1, <3>2
    <2>5. CASE e = d /\ c = d
      BY <1>7, <2>1, <2>5
    <2> QED BY <2>2, <2>3, <2>4, <2>5
  <1>8. PassCovers'
    BY <1>4, <1>5, <1>6 DEF PassCovers
  <1>9. NoDateSkipped'
    BY <1>7 DEF NoDateSkipped, Settled
  <1> QED BY <1>8, <1>9

LEMMA StepDates ==
    ASSUME ConstantsAssumption, TypeOK, PassCovers, NoDateSkipped, Next
    PROVE  PassCovers' /\ NoDateSkipped'
  <1> USE DEF edgar, tables, ghosts, Goto
  <1>1. ASSUME NEW d \in Weekdays, SkipDate(d) PROVE PassCovers' /\ NoDateSkipped'
    <2>1. job'.todo = job.todo \ {d} /\ Asking(d)
      BY <1>1 DEF SkipDate, Done, TypeOK, Job
    <2>2. index' = index /\ missed' = missed /\ leapt' = leapt /\ index[d] # "none"
      BY <1>1 DEF SkipDate
    <2> QED BY <2>1, <2>2, DatesAsked DEF Settled, Processed
  <1>2. ASSUME NEW d \in Weekdays, Forbidden(d) \/ DateFails(d)
        PROVE  PassCovers' /\ NoDateSkipped'
    <2>1. job'.todo = job.todo \ {d} /\ Asking(d)
      BY <1>2 DEF Forbidden, DateFails, Done, TypeOK, Job
    <2>2. index' = index /\ missed' = missed \cup {d} /\ leapt' = leapt
      BY <1>2 DEF Forbidden, DateFails
    <2> QED BY <2>1, <2>2, DatesAsked DEF Settled, Processed
  <1>3. ASSUME NEW d \in Weekdays, ProcessIndex(d) PROVE PassCovers' /\ NoDateSkipped'
    <2>1. job'.todo = job.todo \ {d} /\ Asking(d)
      BY <1>3 DEF ProcessIndex, Done, TypeOK, Job
    <2>2. /\ index' = [index EXCEPT ![d] = "processed"]
          /\ missed' = missed /\ leapt' = leapt
      BY <1>3 DEF ProcessIndex, RegisterIndex
    <2>3. /\ \A x \in Weekdays : x # d => index'[x] = index[x]
          /\ index'[d] = "processed"
      BY <2>2 DEF TypeOK
    <2>4. Settled(d)' /\ \A x \in Weekdays : Settled(x) => Settled(x)'
      BY <2>2, <2>3 DEF Settled
    <2>5. Processed' \subseteq Processed \cup {d}
      BY <2>3 DEF Processed
    <2> QED BY <2>1, <2>4, <2>5, DatesAsked
  <1>4. ASSUME NEW d \in Weekdays, MarkAbsent(d) PROVE PassCovers' /\ NoDateSkipped'
    <2>1. /\ \A x \in Weekdays : \/ index'[x] = index[x]
                                 \/ index[x] = "none" /\ index'[x] = "absent"
          /\ missed' = missed /\ leapt' = leapt /\ pc' = "absent"
      BY <1>4 DEF MarkAbsent, TypeOK
    <2>2. Processed' = Processed /\ \A x \in Weekdays : Settled(x) => Settled(x)'
      BY <2>1 DEF Processed, Settled
    <2> QED BY <2>1, <2>2, DatesCalm
  <1>5. CASE Plan
    <2>1. /\ index' = index /\ missed' = missed /\ leapt' = leapt
          /\ job'.todo = {d \in Weekdays : d <= today /\ InReach(d)}
      BY <1>5 DEF Plan, TypeOK, Job
    <2>2. NoDateSkipped' /\ Processed' = Processed
          /\ \A x \in Weekdays : Settled(x)' <=> Settled(x)
      BY <2>1 DEF NoDateSkipped, Processed, Settled
    <2>3. /\ Weekdays \subseteq Nat /\ Overlap \in Nat /\ Processed \subseteq Weekdays
          /\ today \in Nat /\ Lookback \in Nat
      BY DEF ConstantsAssumption, TypeOK, Processed
    <2>4. ASSUME NEW t \in job'.todo, NEW c \in Processed, NEW x \in Weekdays,
                 t < x, x + Overlap < c
          PROVE  FALSE
      <3>1. c <= t + Overlap /\ t \in Weekdays
        BY <2>1 DEF InReach
      <3> QED BY <2>3, <2>4, <3>1
    <2>5. ASSUME NEW t \in job'.todo, NEW e \in Processed, NEW x \in Weekdays,
                 e < x, x + Overlap < t
          PROVE  Settled(x) \/ x \in job'.todo
      <3>1. t <= today /\ t \in Weekdays
        BY <2>1
      <3>2. t \in Nat /\ x \in Nat
        BY <2>3, <3>1
      <3>5. x <= today
        BY <2>3, <2>5, <3>1, <3>2
      <3>3. CASE InReach(x)
        BY <2>1, <3>3, <3>5
      <3>4. CASE ~InReach(x)
        <4>1. PICK c \in Processed : ~(c <= x + Overlap)
          BY <2>5, <3>4 DEF InReach
        <4>2. x + Overlap < c
          BY <2>3, <4>1
        <4> QED BY <2>5, <4>2 DEF NoDateSkipped, Settled
      <3> QED BY <3>3, <3>4
    <2>6. ASSUME NEW t \in job'.todo, NEW u \in job'.todo, NEW x \in Weekdays, t < x, x < u
          PROVE  x \in job'.todo
      <3>1. /\ t \in Weekdays /\ u \in Weekdays /\ u <= today
            /\ InReach(t)
        BY <2>1
      <3>2. x <= today
        BY <2>3, <2>6, <3>1
      <3>3. ASSUME NEW c \in Processed, c <= t + Overlap PROVE c <= x + Overlap
        BY <2>3, <2>6, <3>1, <3>3
      <3>4. today < t + Lookback => today < x + Lookback
        BY <2>3, <2>6, <3>1
      <3>5. InReach(x)
        BY <3>1, <3>3, <3>4 DEF InReach
      <3> QED BY <2>1, <3>2, <3>5
    <2>7. PassCovers'
      BY <2>2, <2>4, <2>5, <2>6 DEF PassCovers
    <2> QED BY <2>2, <2>7
  <1>6. ASSUME NEW d \in Weekdays, DiscoverDate(d) PROVE PassCovers' /\ NoDateSkipped'
    <2>1. /\ index' = index /\ missed' = missed /\ job'.todo = {d}
          /\ leapt' = leapt \cup {x \in Weekdays :
                 \E e \in Processed : (e < x /\ x < d) \/ (d < x /\ x < e)}
      BY <1>6 DEF DiscoverDate, Fresh
    <2>2. Processed' = Processed
      BY <2>1 DEF Processed
    <2>3. NoDateSkipped'
      BY <2>1, <2>2 DEF NoDateSkipped
    <2>4. Weekdays \subseteq Nat /\ Overlap \in Nat /\ Processed \subseteq Weekdays
      BY DEF ConstantsAssumption, Processed
    <2>5. ASSUME NEW c \in Processed, NEW x \in Weekdays, d < x, x + Overlap < c
          PROVE  Settled(x)'
      <3>1. x < c
        BY <2>4, <2>5
      <3> QED BY <2>1, <2>5, <3>1 DEF Settled
    <2>6. ASSUME NEW e \in Processed, NEW x \in Weekdays, e < x, x + Overlap < d
          PROVE  Settled(x)'
      <3>1. x < d
        BY <2>4, <2>6
      <3> QED BY <2>1, <2>6, <3>1 DEF Settled
    <2>7. ASSUME NEW x \in Weekdays, d < x, x < d PROVE FALSE
      BY <2>4, <2>7
    <2>8. PassCovers'
      BY <2>1, <2>2, <2>5, <2>6, <2>7 DEF PassCovers
    <2> QED BY <2>3, <2>8
  <1>7. ASSUME /\ index' = index /\ missed' = missed /\ leapt' = leapt
               /\ pc' = "dates" => pc = "dates" /\ job' = job
        PROVE  PassCovers' /\ NoDateSkipped'
    BY <1>7, DatesCalm DEF Processed, Settled
  <1>8. \/ \E d \in Weekdays : \/ SkipDate(d) \/ Forbidden(d) \/ DateFails(d)
                               \/ ProcessIndex(d) \/ MarkAbsent(d) \/ DiscoverDate(d)
        \/ Plan
        \/ /\ index' = index /\ missed' = missed /\ leapt' = leapt
           /\ pc' = "dates" => pc = "dates" /\ job' = job
    <2>1. CASE Tick \/ Block \/ Unblock \/ \E d \in Weekdays \ Holidays : Publish(d)
      BY <2>1 DEF Tick, Block, Unblock, Publish
    <2>2. CASE \/ \E deep, allow \in BOOLEAN : StartDiscovery(deep, allow)
               \/ \E f \in Filings : Repair(f)
               \/ BulkRegister \/ BulkMark \/ BulkFails \/ DatesDone \/ DiscoveryDone
      BY <2>2 DEF StartDiscovery, Repair, BulkRegister, BulkMark, BulkFails, DatesDone,
                  DiscoveryDone
    <2>3. CASE Process
      BY <2>3 DEF Process, ChooseBatch, BatchDone, Take, HeldBack, SectionsFail, FilingFails,
                  MarkParsed, MarkFails, StorePiece, Leave
    <2>4. CASE Crash
      BY <2>4 DEF Crash
    <2> QED BY <2>1, <2>2, <2>3, <2>4 DEF Next, Discover
  <1> QED BY <1>1, <1>2, <1>3, <1>4, <1>5, <1>6, <1>7, <1>8

(* However passes are interrupted, delayed and repeated, in any calendar,   *)
(* the cursor leaves no date behind that was never asked for.               *)
THEOREM NoneSkipped == ASSUME ConstantsAssumption PROVE Spec => []NoDateSkipped
  <1>1. Init => PassCovers /\ NoDateSkipped
    BY DEF Init, PassCovers, NoDateSkipped, Processed
  <1>2. TypeOK /\ PassCovers /\ NoDateSkipped /\ [Next]_vars
            => (PassCovers /\ NoDateSkipped)'
    <2>1. CASE UNCHANGED vars
      BY <2>1, DatesCalm DEF vars, tables, ghosts, Processed, Settled
    <2> QED BY <2>1, StepDates
  <1> QED BY <1>1, <1>2, TypeCorrect, PTL DEF Spec

-----------------------------------------------------------------------------
(* Checkpoints and rows are of one transaction, and no row is taken back.   *)
LEMMA RegisteredStep ==
    ASSUME ConstantsAssumption, TypeOK, ProcessedIsRegistered, [Next]_vars
    PROVE  ProcessedIsRegistered'
  <1> USE DEF edgar, tables, ghosts
  <1>1. ASSUME NEW d \in Weekdays, ProcessIndex(d) PROVE ProcessedIsRegistered'
    <2>1. /\ \A f \in Filings : FiledOn[f] = d => filing'[f] # "none"
          /\ \A f \in Filings : filing[f] # "none" => filing'[f] # "none"
      BY <1>1, InsertTypes DEF ProcessIndex, RegisterIndex
    <2>2. \A x \in Weekdays : x # d => index'[x] = index[x]
      BY <1>1 DEF ProcessIndex, RegisterIndex, TypeOK
    <2>3. \A f \in Filings : FiledOn[f] \in Weekdays
      BY DEF ConstantsAssumption
    <2> QED BY <2>1, <2>2, <2>3 DEF ProcessedIsRegistered
  <1>2. ASSUME /\ \A x \in Weekdays : index'[x] = "processed" => index[x] = "processed"
               /\ \A f \in Filings : filing[f] # "none" => filing'[f] # "none"
        PROVE  ProcessedIsRegistered'
    BY <1>2 DEF ProcessedIsRegistered, ConstantsAssumption
  <1>3. CASE index' = index /\ filing' = filing
    BY <1>2, <1>3
  <1>4. CASE BulkRegister
    BY <1>2, <1>4, InsertTypes DEF BulkRegister
  <1>5. ASSUME NEW d \in Weekdays, MarkAbsent(d) PROVE ProcessedIsRegistered'
    <2>1. \A x \in Weekdays : index'[x] = "processed" => index[x] = "processed"
      BY <1>5 DEF MarkAbsent, TypeOK
    <2> QED BY <1>2, <1>5, <2>1 DEF MarkAbsent
  <1>6. CASE HeldBack \/ SectionsFail \/ MarkParsed
    <2>1. index' = index /\ \A f \in Filings : filing[f] # "none" => filing'[f] # "none"
      BY <1>6 DEF HeldBack, SectionsFail, MarkParsed, Pending, TypeOK
    <2> QED BY <1>2, <2>1
  <1>7. \/ index' = index /\ filing' = filing
        \/ BulkRegister \/ HeldBack \/ SectionsFail \/ MarkParsed
        \/ \E d \in Weekdays : ProcessIndex(d) \/ MarkAbsent(d)
    BY DEF Next, Discover, Process, vars, Tick, Block, Unblock, Publish, StartDiscovery,
           DiscoverDate, Repair, BulkMark, BulkFails, Plan, SkipDate, Forbidden, DateFails,
           DatesDone, DiscoveryDone, ChooseBatch, BatchDone, Take, FilingFails, MarkFails,
           StorePiece, Crash
  <1> QED BY <1>1, <1>3, <1>4, <1>5, <1>6, <1>7

(* A processed index has all its covered filings on record, for good.       *)
THEOREM NoneUnregistered == ASSUME ConstantsAssumption PROVE Spec => []ProcessedIsRegistered
  <1>1. Init => ProcessedIsRegistered
    BY DEF Init, ProcessedIsRegistered, ConstantsAssumption
  <1> QED BY <1>1, RegisteredStep, TypeCorrect, PTL DEF Spec

-----------------------------------------------------------------------------
(* Refused dates and obtained ones are told apart while EDGAR holds still.  *)
LEMMA HolidayStep ==
    ASSUME ConstantsAssumption, Steady = TRUE, TypeOK, ListedInOrder, HolidaysOnly,
           [Next]_vars
    PROVE  ListedInOrder' /\ HolidaysOnly'
  <1> USE DEF edgar, tables, ghosts, Goto
  <1>1. ASSUME NEW d \in Weekdays \ Holidays, Publish(d)
        PROVE  ListedInOrder' /\ HolidaysOnly'
    <2>1. ListedInOrder'
      BY <1>1 DEF Publish, ListedInOrder
    <2>2. HolidaysOnly'
      BY <1>1 DEF Publish, Quiet, HolidaysOnly
    <2> QED BY <2>1, <2>2
  <1>2. CASE Block \/ Unblock
    BY <1>2 DEF Block, Unblock, Quiet, ListedInOrder, HolidaysOnly
  <1>3. ASSUME listed' = listed, blocked' = blocked, HolidaysOnly'
        PROVE  ListedInOrder' /\ HolidaysOnly'
    BY <1>3 DEF ListedInOrder
  <1>4. ASSUME NEW d \in Weekdays, DiscoverDate(d)
        PROVE  ListedInOrder' /\ HolidaysOnly'
    <2>1. job'.succeeded = {} /\ job'.forbidden = {} /\ pc' = "dates"
      BY <1>4 DEF DiscoverDate, Fresh
    <2> QED BY <1>3, <1>4, <2>1 DEF DiscoverDate, HolidaysOnly
  <1>5. ASSUME NEW deep \in BOOLEAN, NEW allow \in BOOLEAN, StartDiscovery(deep, allow)
        PROVE  ListedInOrder' /\ HolidaysOnly'
    <2>1. job'.succeeded = {} /\ job'.forbidden = {} /\ pc' \in {"bulk", "plan"}
      BY <1>5 DEF StartDiscovery, Fresh
    <2> QED BY <1>3, <1>5, <2>1 DEF StartDiscovery, HolidaysOnly
  <1>6. CASE BulkRegister \/ BulkMark \/ BulkFails \/ Plan
    <2>1. job'.succeeded = job.succeeded /\ job'.forbidden = job.forbidden
      BY <1>6 DEF BulkRegister, BulkMark, BulkFails, Plan, TypeOK, Job
    <2>2. /\ listed' = listed /\ blocked' = blocked /\ index' = index
          /\ pc \in {"bulk", "bulk_mark", "plan"} /\ pc' \in {"bulk_mark", "plan", "dates"}
      BY <1>6 DEF BulkRegister, BulkMark, BulkFails, Plan
    <2> QED BY <1>3, <2>1, <2>2 DEF HolidaysOnly
  <1>7. ASSUME NEW d \in Weekdays, SkipDate(d) \/ DateFails(d) \/ Forbidden(d)
        PROVE  ListedInOrder' /\ HolidaysOnly'
    <2>1. /\ job'.succeeded = job.succeeded
          /\ job'.forbidden \subseteq job.forbidden \cup {d}
          /\ job'.forbidden = job.forbidden \/ blocked \/ d \notin listed
      BY <1>7 DEF SkipDate, DateFails, Forbidden, Done, TypeOK, Job
    <2>2. /\ listed' = listed /\ blocked' = blocked /\ index' = index
          /\ pc = "dates" /\ pc' = "dates"
      BY <1>7 DEF SkipDate, DateFails, Forbidden, Asking
    <2> QED BY <1>3, <2>1, <2>2 DEF HolidaysOnly
  <1>8. ASSUME NEW d \in Weekdays, ProcessIndex(d)
        PROVE  ListedInOrder' /\ HolidaysOnly'
    <2>1. /\ job'.succeeded = job.succeeded \cup {d}
          /\ job'.forbidden = job.forbidden
      BY <1>8 DEF ProcessIndex, Done, TypeOK, Job
    <2>2. /\ listed' = listed /\ blocked' = blocked /\ pc = "dates" /\ pc' = "dates"
          /\ \A x \in Weekdays : index'[x] = "absent" => index[x] = "absent"
          /\ ~blocked /\ d \in listed
      BY <1>8 DEF ProcessIndex, RegisterIndex, Asking, TypeOK
    <2> QED BY <1>3, <2>1, <2>2 DEF HolidaysOnly
  <1>9. CASE DatesDone
    <2>1. /\ job'.todo = Absent(job.forbidden, job.succeeded) /\ pc' = "absent"
          /\ listed' = listed /\ blocked' = blocked /\ index' = index /\ pc = "dates"
      BY <1>9 DEF DatesDone, TypeOK, Job
    <2>2. ASSUME NEW d \in job.forbidden, NEW e \in job.succeeded, d < e
          PROVE  d \in Holidays
      <3>1. d \in Weekdays /\ e \in listed /\ d \notin listed
        BY <2>1, <2>2 DEF HolidaysOnly, TypeOK, Job
      <3> QED BY <2>2, <3>1 DEF ListedInOrder
    <2>3. job'.todo \subseteq Holidays
      BY <2>1, <2>2 DEF Absent
    <2> QED BY <1>3, <2>1, <2>3 DEF HolidaysOnly
  <1>10. ASSUME NEW d \in Weekdays, MarkAbsent(d)
         PROVE  ListedInOrder' /\ HolidaysOnly'
    <2>1. /\ listed' = listed /\ blocked' = blocked /\ pc = "absent" /\ pc' = "absent"
          /\ \A x \in Weekdays : index'[x] = "absent" => index[x] = "absent" \/ x = d
          /\ d \in job.todo /\ job'.todo = job.todo \ {d}
      BY <1>10 DEF MarkAbsent, Done, TypeOK, Job
    <2> QED BY <1>3, <2>1 DEF HolidaysOnly
  <1>11. ASSUME /\ listed' = listed /\ blocked' = blocked /\ index' = index
                /\ \/ pc' \notin {"bulk", "bulk_mark", "plan", "dates", "absent"}
                   \/ pc' = pc /\ job' = job
         PROVE  ListedInOrder' /\ HolidaysOnly'
    BY <1>3, <1>11 DEF HolidaysOnly
  <1>12. CASE DiscoveryDone \/ Process \/ Crash \/ Tick \/ UNCHANGED vars
    <2>1. CASE DiscoveryDone \/ Crash \/ Tick \/ UNCHANGED vars
      BY <1>11, <2>1 DEF DiscoveryDone, Crash, Tick, vars
    <2>2. CASE Process
      BY <1>11, <2>2 DEF Process, ChooseBatch, BatchDone, Take, HeldBack, SectionsFail,
             FilingFails, MarkParsed, MarkFails, StorePiece, Leave
    <2> QED BY <1>12, <2>1, <2>2
  <1>13. ASSUME NEW f \in Filings, Repair(f)
         PROVE  ListedInOrder' /\ HolidaysOnly'
    BY <1>11, <1>13 DEF Repair
  <1> QED
    BY <1>1, <1>2, <1>4, <1>5, <1>6, <1>7, <1>8, <1>9, <1>10, <1>12, <1>13 DEF Next, Discover

(* While EDGAR neither publishes nor lifts a block during a pass, only a    *)
(* date it never publishes is given up for good.                            *)
THEOREM AbsentAreUnpublished ==
    ASSUME ConstantsAssumption, Steady = TRUE
    PROVE  Spec => []AbsentIsUnpublished
  <1>1. Init => ListedInOrder /\ HolidaysOnly
    BY DEF Init, ListedInOrder, HolidaysOnly
  <1>2. TypeOK /\ HolidaysOnly => AbsentIsUnpublished
    BY DEF TypeOK, HolidaysOnly, AbsentIsUnpublished
  <1> QED BY <1>1, <1>2, HolidayStep, TypeCorrect, PTL DEF Spec

-----------------------------------------------------------------------------
Attempts == AttemptOK /\ ParsedIsComplete

(* Rows may be added when no batch is in hand.                              *)
LEMMA AttemptsCalm ==
    ASSUME TypeOK, Attempts, stored' = stored, pc' \notin {"batch", "filing"},
           \A f \in Filings : filing'[f] = filing[f] \/ filing'[f] = "unprocessed"
    PROVE  Attempts'
  BY DEF Attempts, AttemptOK, ParsedIsComplete, Divisible

(* The attempt on a filing ends; only its own row, and its sections, may    *)
(* have changed.                                                            *)
LEMMA AttemptsLeave ==
    ASSUME TypeOK, Attempts, pc = "filing", Leave,
           \A f \in Filings \ {job.at} : filing'[f] = filing[f] /\ stored'[f] = stored[f],
           filing'[job.at] = "index_pending" =>
               /\ Kind[job.at] = "indexed"
               /\ Divisible(job.at) => "facts" \in stored'[job.at],
           filing'[job.at] = "parsed" /\ job.at \notin Oversized =>
               Pieces(job.at) \subseteq stored'[job.at]
    PROVE  Attempts'
  <1>1. /\ pc' \in {"idle", "batch"}
        /\ pc' = "batch" => job'.batch = job.batch
    BY DEF Leave, Goto, TypeOK, Job
  <1>2. job.batch \subseteq Queue \ {job.at} /\ job.at \in Filings
    BY DEF Attempts, AttemptOK, TypeOK
  <1>3. Queue \ {job.at} \subseteq Queue'
    BY DEF Queue
  <1>4. AttemptOK'
    BY <1>1, <1>2, <1>3 DEF Attempts, AttemptOK, Divisible
  <1>5. ParsedIsComplete'
    BY <1>2 DEF Attempts, ParsedIsComplete
  <1> QED BY <1>4, <1>5 DEF Attempts

LEMMA AttemptsStep ==
    ASSUME ConstantsAssumption, TypeOK, Attempts, [Next]_vars
    PROVE  Attempts'
  <1> USE DEF edgar, tables, ghosts
  <1>1. CASE ChooseBatch
    <2>1. /\ filing' = filing /\ stored' = stored /\ pc' = "batch"
          /\ job'.batch \subseteq Queue
      BY <1>1 DEF ChooseBatch, Batch, Goto, TypeOK, Job
    <2> QED BY <2>1 DEF Attempts, AttemptOK, ParsedIsComplete, Divisible, Queue
  <1>2. ASSUME NEW f \in Filings, Take(f) PROVE Attempts'
    <2>1. /\ filing' = filing /\ stored' = stored /\ pc' = "filing" /\ pc = "batch"
          /\ job'.batch = job.batch \ {f} /\ job'.at = f /\ job'.left = Pieces(f)
          /\ job'.repair = FALSE /\ f \in job.batch
      BY <1>2 DEF Take, Goto, TypeOK, Job
    <2>2. Kind[f] = "indexed" => Pieces(f) # {}
      BY DEF Pieces
    <2> QED
      BY <2>1, <2>2 DEF Attempts, AttemptOK, ParsedIsComplete, Divisible, Queue
  <1>3. ASSUME NEW f \in Filings, Repair(f) PROVE Attempts'
    <2>1. /\ filing' = filing /\ stored' = stored /\ pc' = "filing"
          /\ job'.batch = {} /\ job'.at = f /\ job'.left = {"sections"}
          /\ filing[f] = "index_pending"
      BY <1>3 DEF Repair, Goto, NoJob, Fresh
    <2>2. Kind[f] = "indexed" /\ Pieces(f) = {"facts", "sections"}
      BY <2>1 DEF Attempts, AttemptOK, Pieces
    <2>3. f \in Queue
      BY <2>1 DEF Queue, Selectable
    <2> QED
      BY <2>1, <2>2, <2>3 DEF Attempts, AttemptOK, ParsedIsComplete, Divisible, Queue
  <1>4. CASE HeldBack
    <2>1. /\ pc = "filing" /\ Leave /\ job.at \in Filings /\ stored' = stored
          /\ filing' = [filing EXCEPT ![job.at] = "index_pending"]
          /\ Kind[job.at] = "indexed" /\ ~Divisible(job.at)
      BY <1>4 DEF HeldBack, Pending, NothingToIndex, Divisible, TypeOK
    <2> QED BY <2>1, AttemptsLeave DEF TypeOK
  <1>5. CASE SectionsFail
    <2>1. /\ pc = "filing" /\ Leave /\ job.at \in Filings /\ job.left = {"sections"} /\ Tear
          /\ \/ filing' = filing
             \/ Kind[job.at] # "broad" /\ filing' = [filing EXCEPT ![job.at] = "index_pending"]
      BY <1>5 DEF SectionsFail, Pending, TypeOK
    <2>2. /\ job.at \in Queue /\ {"sections"} \subseteq Pieces(job.at)
          /\ Divisible(job.at) => Pieces(job.at) \ {"sections"} \subseteq stored[job.at]
      BY <2>1 DEF Attempts, AttemptOK
    <2>3. \A f \in Filings \ {job.at} : filing'[f] = filing[f] /\ stored'[f] = stored[f]
      BY <2>1, TearTypes DEF TypeOK
    <2>4. filing[job.at] # "parsed" /\ stored[job.at] \ {"sections"} \subseteq stored'[job.at]
      BY <2>1, <2>2, TearTypes DEF Queue, Selectable
    <2>5. CASE filing' = filing
      BY <2>1, <2>3, <2>4, <2>5, AttemptsLeave DEF Attempts, AttemptOK
    <2>6. CASE /\ Kind[job.at] # "broad"
               /\ filing' = [filing EXCEPT ![job.at] = "index_pending"]
      <3>1. filing'[job.at] = "index_pending"
        BY <2>1, <2>6 DEF TypeOK
      <3>2. Kind[job.at] = "indexed" /\ Pieces(job.at) = {"facts", "sections"}
        BY <2>2, <2>6 DEF Pieces
      <3>3. Divisible(job.at) => "facts" \in stored'[job.at]
        BY <2>2, <2>4, <3>2
      <3> QED BY <2>1, <2>3, <3>1, <3>2, <3>3, AttemptsLeave
    <2> QED BY <2>1, <2>5, <2>6
  <1>6. CASE FilingFails \/ MarkFails
    <2>1. pc = "filing" /\ Leave /\ filing' = filing /\ stored' = stored
      BY <1>6 DEF FilingFails, MarkFails
    <2>2. job.at \in Filings
      BY <2>1 DEF TypeOK
    <2> QED
      BY <2>1, <2>2, AttemptsLeave DEF Attempts, AttemptOK, ParsedIsComplete
  <1>7. CASE MarkParsed
    <2>1. /\ pc = "filing" /\ Leave /\ job.at \in Filings /\ stored' = stored
          /\ job.left = {} /\ filing' = [filing EXCEPT ![job.at] = "parsed"]
      BY <1>7 DEF MarkParsed, TypeOK
    <2>2. job.at \notin Oversized => Pieces(job.at) \subseteq stored[job.at]
      BY <2>1 DEF Attempts, AttemptOK, Divisible
    <2>3. filing'[job.at] = "parsed"
      BY <2>1 DEF TypeOK
    <2>4. \A f \in Filings \ {job.at} : filing'[f] = filing[f] /\ stored'[f] = stored[f]
      BY <2>1 DEF TypeOK
    <2> QED BY <2>1, <2>2, <2>3, <2>4, AttemptsLeave
  <1>8. ASSUME NEW p \in AllPieces, StorePiece(p) PROVE Attempts'
    <2>1. /\ pc = "filing" /\ pc' = "filing" /\ filing' = filing
          /\ job'.batch = job.batch /\ job'.at = job.at /\ job'.repair = job.repair
          /\ job'.left = job.left \ {p} /\ job.at \in Filings
          /\ ~(Kind[job.at] = "indexed" /\ job.at \in Unsplit)
      BY <1>8 DEF StorePiece, Goto, NothingToIndex, TypeOK, Job
    <2>2. /\ \A f \in Filings : stored[f] \subseteq stored'[f]
          /\ p \in stored'[job.at]
      BY <1>8, <2>1 DEF StorePiece, TypeOK
    <2>3. Queue' = Queue
      BY <2>1 DEF Queue
    <2>4. AttemptOK'
      BY <2>1, <2>2, <2>3 DEF Attempts, AttemptOK, Divisible
    <2>5. ParsedIsComplete'
      BY <2>1, <2>2 DEF Attempts, ParsedIsComplete
    <2> QED BY <2>4, <2>5 DEF Attempts
  <1>9. CASE BulkRegister
    BY <1>9, InsertTypes, AttemptsCalm DEF BulkRegister, Goto
  <1>10. ASSUME NEW d \in Weekdays, ProcessIndex(d) PROVE Attempts'
    BY <1>10, InsertTypes, AttemptsCalm DEF ProcessIndex, RegisterIndex, Goto
  <1>11. CASE /\ filing' = filing /\ stored' = stored /\ pc' \notin {"batch", "filing"}
    BY <1>11, AttemptsCalm
  <1>12. CASE Crash
    <2>1. CASE stored' = stored
      BY <1>12, <2>1, AttemptsCalm DEF Crash, Goto
    <2>2. CASE pc = "filing" /\ Tear
      <3>1. /\ \A f \in Filings : stored[f] \ {"sections"} \subseteq stored'[f]
            /\ \A f \in Filings \ {job.at} : stored'[f] = stored[f]
            /\ filing' = filing /\ pc' = "idle"
        BY <1>12, <2>2, TearTypes DEF Crash, Goto
      <3>2. filing[job.at] # "parsed"
        BY <2>2 DEF Attempts, AttemptOK, Queue, Selectable
      <3> QED BY <3>1, <3>2 DEF Attempts, AttemptOK, ParsedIsComplete
    <2> QED BY <1>12, <2>1, <2>2 DEF Crash
  <1>13. CASE filing' = filing /\ stored' = stored /\ pc' = pc /\ job' = job
    BY <1>13 DEF Attempts, AttemptOK, ParsedIsComplete, Divisible, Queue
  <1>14. \/ ChooseBatch \/ HeldBack \/ SectionsFail \/ FilingFails \/ MarkFails
         \/ MarkParsed \/ BulkRegister \/ Crash
         \/ \E f \in Filings : Take(f) \/ Repair(f)
         \/ \E p \in AllPieces : StorePiece(p)
         \/ \E d \in Weekdays : ProcessIndex(d)
         \/ /\ filing' = filing /\ stored' = stored /\ pc' \notin {"batch", "filing"}
         \/ filing' = filing /\ stored' = stored /\ pc' = pc /\ job' = job
    BY DEF Next, Discover, Process, vars, Goto, Tick, Block, Unblock, Publish,
           StartDiscovery, DiscoverDate, BulkMark, BulkFails, Plan, SkipDate, Forbidden,
           DateFails, MarkAbsent, DatesDone, DiscoveryDone, BatchDone
  <1> QED
    BY <1>1, <1>2, <1>3, <1>4, <1>5, <1>6, <1>7, <1>8, <1>9, <1>10, <1>11, <1>12, <1>13,
       <1>14

(* Whoever made the attempts and wherever they failed, a filing that may be *)
(* indexed is parsed only with everything its kind promises stored.         *)
THEOREM ParsedComplete == ASSUME ConstantsAssumption PROVE Spec => []ParsedIsComplete
  <1>1. Init => Attempts
    BY DEF Init, Attempts, AttemptOK, ParsedIsComplete
  <1>2. Attempts => ParsedIsComplete
    BY DEF Attempts
  <1> QED BY <1>1, <1>2, AttemptsStep, TypeCorrect, PTL DEF Spec
=============================================================================
