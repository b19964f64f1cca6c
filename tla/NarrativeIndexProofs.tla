------------------------ MODULE NarrativeIndexProofs ------------------------
(***************************************************************************)
(* Theorems about NarrativeIndex under a single writer, for any number of  *)
(* items, sections and texts, any number of writes, and any number of      *)
(* failed calls and crashes.                                               *)
(***************************************************************************)
EXTENDS NarrativeIndex, TLAPS

InFlight(w) == pc[w] \in {"embed", "set_indexed", "set_error", "relex"}

(* What a call in progress has established so far.                          *)
JobTargets ==
    \A w \in Workers : InFlight(w) =>
        /\ job[w].item \in Families
        /\ pc[w] # "embed" => job[w].item \in Items

JobOwed ==
    \A w \in Workers : InFlight(w) /\ job[w].item \in Items =>
        /\ status[job[w].item] \in Retryable
        /\ pc[w] # "set_error" => job[w].text # None

JobIndexed ==
    \A w \in Workers :
        pc[w] \in {"embed", "set_indexed"} /\ job[w].item \in Items =>
            /\ lexical[job[w].item] = job[w].text
            /\ job[w].item \in searchable
            /\ pc[w] = "set_indexed" => vector[job[w].item] = job[w].text

JobRetires ==
    \A w \in Workers : pc[w] = "delete" =>
        /\ \A i \in job[w].todo \cup job[w].gone : Expirable(i) /\ i \in aged
        /\ \A i \in job[w].gone : vector[i] = None

(* What the ledger's statuses say of the two stores.                        *)
RowHasContent == \A i \in Items : status[i] # "absent" => content[i] # None

NeverIndexedIsNowhere ==
    \A i \in Items : status[i] \in {"absent", "not_applicable"} =>
        lexical[i] = None /\ i \notin searchable /\ vector[i] = None

UnindexedStaysSo ==
    \A i \in Unindexed : status[i] \in {"absent", "not_applicable"}

RetiredStatus == \A i \in tombstone : status[i] = "not_applicable"

JobInv == JobOwed /\ JobIndexed /\ JobRetires

StoreInv ==
    /\ RowHasContent /\ NeverIndexedIsNowhere /\ UnindexedStaysSo /\ RetiredStatus
    /\ IndexedIsServed

IInv == TypeOK /\ JobTargets /\ JobInv /\ StoreInv

-----------------------------------------------------------------------------
LEMMA GotoMovesOne ==
    ASSUME TypeOK, NEW w \in Workers, NEW p \in Places, NEW j \in Job, Goto(w, p, j)
    PROVE  /\ pc' \in [Workers -> Places] /\ job' \in [Workers -> Job]
           /\ pc'[w] = p /\ job'[w] = j
  BY DEF Goto, TypeOK

LEMMA GotoAlone ==
    ASSUME SingleWriter, TypeOK, NEW w \in Workers, NEW p \in Places, NEW j \in Job,
           Goto(w, p, j)
    PROVE  \A u \in Workers : pc'[u] = p /\ job'[u] = j
  BY GotoMovesOne DEF SingleWriter

LEMMA JobTypes ==
    ASSUME TypeOK, NEW w \in Workers
    PROVE  /\ job[w] \in Job
           /\ job[w].item \in Families \cup {None} /\ job[w].text \in Text
           /\ job[w].rev \in Nat
           /\ job[w].todo \in SUBSET Items /\ job[w].gone \in SUBSET Items
           /\ \A i \in Items : i \in Families
           /\ None \in Text /\ \A v \in Versions : v \in Text /\ v # None
  BY ConstantsAssumption DEF TypeOK, Job, Text, Families

LEMMA WorkShape ==
    ASSUME NEW f \in Families \cup {None}, NEW v \in Text, NEW r \in Nat
    PROVE  /\ Work(f, v, r) \in Job
           /\ Work(f, v, r).item = f /\ Work(f, v, r).text = v
  BY DEF Work, Job

LEMMA SweepShape ==
    ASSUME NEW S \in SUBSET Items, NEW T \in SUBSET Items
    PROVE  /\ Sweep(S, T) \in Job
           /\ Sweep(S, T).todo = S /\ Sweep(S, T).gone = T
  BY DEF Sweep, Job, Text

LEMMA NoJobType == NoJob \in Job
  BY DEF NoJob, Work, Job, Text

LEMMA TouchTypes ==
    ASSUME TypeOK, NEW S \in SUBSET Items, Touch(S)
    PROVE  older' \subseteq Items \X Items
<1>1. older \subseteq Items \X Items
  BY DEF TypeOK
<1>2. (Items \ S) \X S \subseteq Items \X Items
  OBVIOUS
<1>3. {pair \in older : pair[1] \notin S} \subseteq older
  OBVIOUS
<1>4. older' = {pair \in older : pair[1] \notin S} \cup ((Items \ S) \X S)
  BY DEF Touch
<1> QED BY <1>1, <1>2, <1>3, <1>4

-----------------------------------------------------------------------------
(* Types, for any number of workers.                                        *)

LEMMA FaultsKeepTypes ==
    ASSUME TypeOK, NEW w \in Workers, Fault(w)
    PROVE  TypeOK'
<1> USE ConstantsAssumption, JobTypes, WorkShape, SweepShape, NoJobType DEF Fault, Places, Text
<1>1. CASE EmbedFails(w)
  <2>1. PICK p \in Places, j \in Job : Goto(w, p, j)
    BY <1>1 DEF EmbedFails
  <2>2. vector' \in [Families -> Text]
    BY <1>1 DEF EmbedFails, TypeOK
  <2> QED BY <1>1, <2>1, <2>2, GotoMovesOne
        DEF EmbedFails, TypeOK, Spend, ledger, fts, revisions
<1>2. CASE PublishFails(w)
  BY <1>2, GotoMovesOne DEF PublishFails, TypeOK, Spend, ledger, fts, revisions
<1>3. CASE RepairLexicalFails(w)
  BY <1>3, GotoMovesOne DEF RepairLexicalFails, TypeOK, Spend, ledger, fts, revisions
<1>4. ASSUME NEW i \in Items, RetentionDeleteFails(w, i)
      PROVE  TypeOK'
  <2>1. Sweep(job[w].todo \ {i}, job[w].gone) \in Job
    OBVIOUS
  <2> QED BY <1>4, <2>1, GotoMovesOne
          DEF RetentionDeleteFails, TypeOK, Spend, ledger, fts, revisions
<1>5. CASE Crash(w)
  BY <1>5, GotoMovesOne DEF Crash, TypeOK, Spend, ledger, fts, revisions
<1> QED BY <1>1, <1>2, <1>3, <1>4, <1>5

LEMMA ReplaceKeepsTypes ==
    ASSUME TypeOK, NEW f \in Families, NEW text \in Text, ReplaceLexicalFamily(f, text)
    PROVE  /\ lexical' \in [Families -> Text] /\ searchable' \subseteq Families
           /\ revision' \in Nat /\ indexedRevision' \in Nat
  BY DEF ReplaceLexicalFamily, TypeOK

LEMMA IngestKeepsTypes ==
    ASSUME TypeOK, NEW w \in Workers, Ingest(w)
    PROVE  TypeOK'
<1> USE ConstantsAssumption, JobTypes, WorkShape, SweepShape, NoJobType DEF Ingest, Places, Text
<1>1. ASSUME NEW i \in Items, NEW v \in Versions, NEW same \in BOOLEAN,
             UpsertCommit(w, i, v, same)
      PROVE  TypeOK'
  <2>1. /\ status' \in [Items -> Statuses] /\ content' \in [Items -> Text]
        /\ tombstone' \subseteq Items /\ aged' \subseteq Items
    <3>1. InitialStatus(i) \in Statuses /\ v \in Text
      BY DEF InitialStatus, Statuses
    <3>2. CASE Rewrites(i, v, same)
      <4>1. /\ status' = [status EXCEPT ![i] = InitialStatus(i)]
            /\ content' = [content EXCEPT ![i] = v]
            /\ tombstone' = tombstone \ {i} /\ aged' = aged \ {i}
        BY <1>1, <3>2 DEF UpsertCommit
      <4> QED BY <4>1, <3>1 DEF TypeOK
    <3>3. CASE ~Rewrites(i, v, same)
      BY <1>1, <3>3 DEF UpsertCommit, TypeOK, ledger
    <3> QED BY <3>2, <3>3
  <2>2. /\ lexical' \in [Families -> Text] /\ searchable' \subseteq Families
        /\ revision' \in Nat /\ indexedRevision' \in Nat
        /\ \E p \in Places, j \in Job : Goto(w, p, j)
    <3>1. revision + 1 \in Nat
      BY DEF TypeOK
    <3>2. /\ i \in Families /\ v \in Text
          /\ Work(i, v, revision + 1) \in Job
          /\ Work(None, None, revision + 1) \in Job
      BY <3>1 DEF Families
    <3>3. CASE NeedsIndex(i, v, same)
      <4>1. /\ ReplaceLexicalFamily(i, v)
            /\ Goto(w, "embed", Work(i, v, revision + 1))
        BY <1>1, <3>3 DEF UpsertCommit
      <4> QED BY <3>2, <4>1, ReplaceKeepsTypes
    <3>4. CASE ~NeedsIndex(i, v, same)
      BY <1>1, <3>1, <3>2, <3>4 DEF UpsertCommit, TypeOK, fts
    <3> QED BY <3>3, <3>4
  <2>3. older' \subseteq Items \X Items
    BY <1>1, TouchTypes DEF UpsertCommit
  <2> QED BY <1>1, <2>1, <2>2, <2>3, GotoMovesOne DEF UpsertCommit, TypeOK, Spend
<1>2. ASSUME NEW f \in Sections, NEW text \in Text, SectionCommit(w, f, text)
      PROVE  TypeOK'
  <2>1. f \in Families /\ revision + 1 \in Nat
    BY DEF Families, TypeOK
  <2>2. Work(f, text, revision + 1) \in Job
    BY <2>1
  <2> QED BY <1>2, <2>1, <2>2, GotoMovesOne, ReplaceKeepsTypes
          DEF SectionCommit, TypeOK, Spend, ledger
<1>3. CASE FactWrite(w)
  BY <1>3 DEF FactWrite, TypeOK, Spend, ledger, fts
<1> QED BY <1>1, <1>2, <1>3

LEMMA ProceedKeepsTypes ==
    ASSUME TypeOK, JobTargets, NEW w \in Workers, Proceed(w)
    PROVE  TypeOK'
<1> USE ConstantsAssumption, JobTypes, WorkShape, SweepShape, NoJobType DEF Proceed, Places, Text, JobTargets, InFlight
<1>1. CASE Embed(w)
  <2>1. PICK p \in Places : Goto(w, p, job[w])
    BY <1>1 DEF Embed
  <2> QED BY <1>1, <2>1, GotoMovesOne DEF Embed, TypeOK, ledger, fts, revisions, bounds
<1>2. CASE SetIndexed(w)
  <2>1. older' \subseteq Items \X Items
    BY <1>2, TouchTypes DEF SetIndexed
  <2> QED BY <1>2, <2>1, GotoMovesOne DEF SetIndexed, TypeOK, Statuses, revisions, bounds
<1>3. CASE SetError(w)
  <2>1. older' \subseteq Items \X Items
    BY <1>3, TouchTypes DEF SetError
  <2> QED BY <1>3, <2>1, GotoMovesOne DEF SetError, TypeOK, Statuses, revisions, bounds
<1>4. CASE Publish(w)
  BY <1>4, GotoMovesOne DEF Publish, TypeOK, ledger, fts, bounds
<1>5. CASE RepairLexical(w)
  <2>1. job[w].item \in Families /\ job[w].text \in Text /\ revision + 1 \in Nat
    BY <1>5 DEF RepairLexical, TypeOK
  <2>2. Work(job[w].item, job[w].text, revision + 1) \in Job
    BY <2>1
  <2> QED BY <1>5, <2>1, <2>2, GotoMovesOne, ReplaceKeepsTypes
          DEF RepairLexical, TypeOK, ledger, bounds
<1>6. ASSUME NEW i \in Items, RetentionDelete(w, i)
      PROVE  TypeOK'
  <2>1. Sweep(job[w].todo \ {i}, job[w].gone \cup {i}) \in Job
    OBVIOUS
  <2> QED BY <1>6, <2>1, GotoMovesOne
          DEF RetentionDelete, TypeOK, ledger, fts, revisions, bounds
<1>7. CASE RetentionExpire(w)
  <2>1. PICK p \in Places : Goto(w, p, NoJob)
    BY <1>7 DEF RetentionExpire
  <2>2. /\ status' \in [Items -> Statuses] /\ content' \in [Items -> Text]
        /\ tombstone' \subseteq Items /\ aged' \subseteq Items
        /\ lexical' \in [Families -> Text] /\ searchable' \subseteq Families
        /\ revision' \in Nat /\ indexedRevision' \in Nat /\ chromaRevision' \in Nat
    BY <1>7 DEF RetentionExpire, TypeOK, Statuses, ledger, fts, revisions
  <2>3. older' \subseteq Items \X Items
    <3>1. {i \in job[w].gone : Expirable(i)} \in SUBSET Items
      OBVIOUS
    <3> QED BY <1>7, <3>1, TouchTypes DEF RetentionExpire, TypeOK, ledger
  <2> QED BY <1>7, <2>1, <2>2, <2>3, GotoMovesOne DEF RetentionExpire, TypeOK, bounds
<1>8. CASE RetentionReadRevision(w)
  <2>1. revision \in Nat
    BY DEF TypeOK
  <2> QED BY <1>8, <2>1, GotoMovesOne
          DEF RetentionReadRevision, TypeOK, ledger, fts, revisions, bounds
<1> QED BY <1>1, <1>2, <1>3, <1>4, <1>5, <1>6, <1>7, <1>8

-----------------------------------------------------------------------------
LEMMA TargetsKept ==
    ASSUME TypeOK, JobTargets, NEW w \in Workers, NEW p \in Places, NEW j \in Job,
           Goto(w, p, j),
           p \in {"embed", "set_indexed", "set_error", "relex"} =>
               j.item \in Families /\ (p # "embed" => j.item \in Items)
    PROVE  JobTargets'
<1>1. \A u \in Workers : u # w => pc'[u] = pc[u] /\ job'[u] = job[u]
  BY DEF Goto, TypeOK
<1> QED BY <1>1, GotoMovesOne DEF JobTargets, InFlight

LEMMA WorkerKeepsTargets ==
    ASSUME TypeOK, JobTargets, NEW w \in Workers,
           Ingest(w) \/ Proceed(w) \/ Fault(w) \/ Repair(w) \/ Retention(w)
    PROVE  JobTargets'
<1> USE JobTypes, WorkShape, SweepShape, NoJobType DEF Places, Text
<1>1. CASE Ingest(w)
  <2>1. ASSUME NEW i \in Items, NEW v \in Versions, NEW same \in BOOLEAN,
               UpsertCommit(w, i, v, same)
        PROVE  JobTargets'
    <3>1. i \in Families /\ v \in Text /\ revision + 1 \in Nat
      BY DEF TypeOK, Families
    <3>2. CASE Goto(w, "embed", Work(i, v, revision + 1))
      BY <3>1, <3>2, TargetsKept
    <3>3. CASE Goto(w, "publish", Work(None, None, revision + 1))
      BY <3>1, <3>3, TargetsKept
    <3> QED BY <2>1, <3>2, <3>3 DEF UpsertCommit
  <2>2. ASSUME NEW f \in Sections, NEW text \in Text, SectionCommit(w, f, text)
        PROVE  JobTargets'
    <3>1. f \in Families /\ revision + 1 \in Nat
      BY DEF Families, TypeOK
    <3> QED BY <2>2, <3>1, TargetsKept DEF SectionCommit
  <2>3. CASE FactWrite(w)
    BY <2>3 DEF FactWrite, JobTargets, InFlight
  <2> QED BY <1>1, <2>1, <2>2, <2>3 DEF Ingest
<1>2. CASE Proceed(w)
  <2>1. CASE Embed(w)
    <3>1. job[w].item \in Families
      BY <2>1 DEF Embed, JobTargets, InFlight
    <3>2. PICK p \in {"set_indexed", "publish"} :
             Goto(w, p, job[w]) /\ (p = "set_indexed" => job[w].item \in Items)
      BY <2>1 DEF Embed
    <3> QED BY <3>1, <3>2, TargetsKept
  <2>2. CASE SetIndexed(w)
    BY <2>2, TargetsKept DEF SetIndexed
  <2>3. CASE SetError(w)
    BY <2>3, TargetsKept DEF SetError
  <2>4. CASE Publish(w)
    BY <2>4, TargetsKept DEF Publish
  <2>5. CASE RepairLexical(w)
    <3>1. job[w].item \in Families /\ job[w].text \in Text /\ revision + 1 \in Nat
      BY <2>5 DEF RepairLexical, TypeOK, JobTargets, InFlight
    <3>2. Goto(w, "embed", Work(job[w].item, job[w].text, revision + 1))
      BY <2>5 DEF RepairLexical
    <3>3. /\ Work(job[w].item, job[w].text, revision + 1) \in Job
          /\ Work(job[w].item, job[w].text, revision + 1).item = job[w].item
      BY <3>1
    <3> QED BY <3>1, <3>2, <3>3, TargetsKept
  <2>6. ASSUME NEW i \in Items, RetentionDelete(w, i)
        PROVE  JobTargets'
    <3>1. Sweep(job[w].todo \ {i}, job[w].gone \cup {i}) \in Job
      OBVIOUS
    <3> QED BY <2>6, <3>1, TargetsKept DEF RetentionDelete
  <2>7. CASE RetentionExpire(w)
    <3>1. PICK p \in {"idle", "read_revision"} : Goto(w, p, NoJob)
      BY <2>7 DEF RetentionExpire
    <3> QED BY <3>1, TargetsKept
  <2>8. CASE RetentionReadRevision(w)
    <3>1. revision \in Nat
      BY DEF TypeOK
    <3> QED BY <2>8, <3>1, TargetsKept DEF RetentionReadRevision
  <2> QED BY <1>2, <2>1, <2>2, <2>3, <2>4, <2>5, <2>6, <2>7, <2>8 DEF Proceed
<1>3. CASE Fault(w)
  <2>1. CASE EmbedFails(w)
    <3>1. \/ Goto(w, "idle", NoJob)
          \/ Goto(w, "set_error", job[w]) /\ job[w].item \in Items
      BY <2>1 DEF EmbedFails
    <3> QED BY <3>1, TargetsKept DEF Families
  <2>2. CASE PublishFails(w)
    BY <2>2, TargetsKept DEF PublishFails
  <2>3. CASE RepairLexicalFails(w)
    <3>1. job[w].item \in Items /\ job[w].item \in Families
      BY <2>3 DEF RepairLexicalFails, JobTargets, InFlight
    <3> QED BY <2>3, <3>1, TargetsKept DEF RepairLexicalFails
  <2>4. ASSUME NEW i \in Items, RetentionDeleteFails(w, i)
        PROVE  JobTargets'
    <3>1. Sweep(job[w].todo \ {i}, job[w].gone) \in Job
      OBVIOUS
    <3> QED BY <2>4, <3>1, TargetsKept DEF RetentionDeleteFails
  <2>5. CASE Crash(w)
    BY <2>5, TargetsKept DEF Crash
  <2> QED BY <1>3, <2>1, <2>2, <2>3, <2>4, <2>5 DEF Fault
<1>4. ASSUME NEW i \in Items, RepairSelect(w, i)
      PROVE  JobTargets'
  <2>1. i \in Families /\ content[i] \in Text
    BY DEF Families, TypeOK
  <2>2. Work(i, content[i], 0) \in Job /\ Work(i, content[i], 0).item = i
    BY <2>1, WorkShape, SweepShape
  <2> QED BY <1>4, <2>1, <2>2, TargetsKept DEF RepairSelect
<1>5. ASSUME NEW chosen \in SUBSET Items, RetentionSelect(w, chosen)
      PROVE  JobTargets'
  <2>1. Sweep(chosen, {}) \in Job
    OBVIOUS
  <2> QED BY <1>5, <2>1, TargetsKept DEF RetentionSelect
<1> QED BY <1>1, <1>2, <1>3, <1>4, <1>5 DEF Repair, Retention

LEMMA SelectKeepsTypes ==
    ASSUME TypeOK, NEW w \in Workers, Repair(w) \/ Retention(w)
    PROVE  TypeOK'
<1>1. ASSUME NEW i \in Items, RepairSelect(w, i)
      PROVE  TypeOK'
  <2>1. Work(i, content[i], 0) \in Job /\ "relex" \in Places
    BY WorkShape, SweepShape DEF Families, TypeOK, Places
  <2> QED BY <1>1, <2>1, GotoMovesOne
          DEF RepairSelect, TypeOK, ledger, fts, revisions, bounds
<1>2. ASSUME NEW chosen \in SUBSET Items, RetentionSelect(w, chosen)
      PROVE  TypeOK'
  <2>1. Sweep(chosen, {}) \in Job /\ "delete" \in Places
    BY DEF Sweep, Job, Text, Places
  <2> QED BY <1>2, <2>1, GotoMovesOne
          DEF RetentionSelect, TypeOK, ledger, fts, revisions, bounds
<1> QED BY <1>1, <1>2 DEF Repair, Retention

LEMMA TypesAndTargets == Spec => [](TypeOK /\ JobTargets)
<1> DEFINE Typed == TypeOK /\ JobTargets
<1>1. Init => Typed
  BY ConstantsAssumption, NoJobType
     DEF Init, TypeOK, JobTargets, InFlight, Places, Statuses, Text, Families
<1>2. Typed /\ [Next]_vars => Typed'
  <2> SUFFICES ASSUME TypeOK, JobTargets, [Next]_vars
               PROVE  TypeOK' /\ JobTargets'
    OBVIOUS
  <2>1. ASSUME NEW w \in Workers,
               Ingest(w) \/ Proceed(w) \/ Fault(w) \/ Repair(w) \/ Retention(w)
        PROVE  TypeOK' /\ JobTargets'
    BY <2>1, WorkerKeepsTargets, IngestKeepsTypes, ProceedKeepsTypes,
       FaultsKeepTypes, SelectKeepsTypes
  <2>2. ASSUME NEW i \in Items, Age(i)
        PROVE  TypeOK' /\ JobTargets'
    BY <2>2 DEF Age, TypeOK, JobTargets, InFlight, fts, revisions, bounds
  <2>3. CASE UNCHANGED vars
    BY <2>3 DEF vars, ledger, fts, revisions, bounds, TypeOK, JobTargets, InFlight
  <2> QED BY <2>1, <2>2, <2>3 DEF Next
<1> QED BY <1>1, <1>2, PTL DEF Spec

(* The stores' and workers' variables stay in their types, for any number   *)
(* of workers.                                                             *)
THEOREM TypeCorrect == Spec => []TypeOK
  BY TypesAndTargets, PTL

-----------------------------------------------------------------------------
(* The inductive invariant, under a single writer.  Each lemma takes one    *)
(* action.                                                                  *)

LEMMA StoresUntouched ==
    ASSUME StoreInv, UNCHANGED <<status, content, tombstone, aged, fts, vector>>
    PROVE  StoreInv'
  BY DEF StoreInv, RowHasContent, NeverIndexedIsNowhere, UnindexedStaysSo,
         RetiredStatus, IndexedIsServed, StoresAgree, IsNews, fts

LEMMA NoJobInFlight ==
    ASSUME \A u \in Workers : pc'[u] \in {"idle", "publish", "read_revision"}
    PROVE  JobInv'
  BY DEF JobInv, JobOwed, JobIndexed, JobRetires, InFlight

(* A step that touches no store and leaves its worker outside a job.        *)
LEMMA StepToRest ==
    ASSUME SingleWriter, IInv, NEW w \in Workers,
           NEW p \in {"idle", "publish", "read_revision"}, NEW j \in Job,
           Goto(w, p, j), UNCHANGED <<ledger, fts, vector>>
    PROVE  JobInv' /\ StoreInv'
<1>1. \A u \in Workers : pc'[u] = p
  BY GotoAlone DEF IInv, Places
<1> QED BY <1>1, NoJobInFlight, StoresUntouched DEF IInv, ledger

LEMMA UpsertInv ==
    ASSUME SingleWriter, IInv, NEW w \in Workers, NEW i \in Items, NEW v \in Versions,
           NEW same \in BOOLEAN, UpsertCommit(w, i, v, same)
    PROVE  JobInv' /\ StoreInv'
<1> DEFINE r == revision + 1
<1>1. /\ i \in Families /\ v \in Text /\ v # None /\ r \in Nat /\ None \in Text
      /\ TypeOK /\ StoreInv /\ vector' = vector
  BY ConstantsAssumption DEF IInv, TypeOK, Families, Text, UpsertCommit
<1>2. CASE NeedsIndex(i, v, same)
  <2>1. /\ lexical' = [lexical EXCEPT ![i] = v] /\ searchable' = searchable \cup {i}
        /\ Goto(w, "embed", Work(i, v, r))
    BY <1>1, <1>2 DEF UpsertCommit, ReplaceLexicalFamily
  <2>2. /\ Work(i, v, r) \in Job
        /\ Work(i, v, r).item = i /\ Work(i, v, r).text = v
    BY <1>1, WorkShape
  <2>3. \A u \in Workers : pc'[u] = "embed" /\ job'[u].item = i /\ job'[u].text = v
    BY <2>1, <2>2, <1>1, GotoAlone DEF Places
  <2>4. /\ status'[i] \in Retryable /\ content'[i] # None /\ i \notin tombstone'
        /\ i \notin Unindexed /\ lexical'[i] = v /\ i \in searchable'
    <3>1. CASE Rewrites(i, v, same)
      BY <1>1, <1>2, <2>1, <3>1
         DEF UpsertCommit, NeedsIndex, InitialStatus, Retryable, TypeOK
    <3>2. CASE ~Rewrites(i, v, same)
      BY <1>1, <1>2, <2>1, <3>2
         DEF UpsertCommit, NeedsIndex, Retryable, TypeOK, ledger, StoreInv,
             RowHasContent, RetiredStatus
    <3> QED BY <3>1, <3>2
  <2>5. \A k \in Items : k # i =>
            /\ status'[k] = status[k] /\ content'[k] = content[k]
            /\ k \in tombstone' <=> k \in tombstone
            /\ k \in aged' <=> k \in aged
            /\ lexical'[k] = lexical[k]
            /\ k \in searchable' <=> k \in searchable
    BY <1>1, <2>1 DEF UpsertCommit, TypeOK, ledger, Families
  <2>6. JobInv'
    BY <2>3, <2>4, <1>1 DEF JobInv, JobOwed, JobIndexed, JobRetires, InFlight
  <2>7. StoreInv'
    <3>1. \A k \in Items : k # i =>
              /\ StoresAgree(k)' <=> StoresAgree(k)
              /\ IsNews(k)' <=> IsNews(k)
      BY <1>1, <2>5 DEF StoresAgree, IsNews
    <3>2. RowHasContent' /\ RetiredStatus'
      <4>1. tombstone' \subseteq Items
        BY <1>1 DEF UpsertCommit, TypeOK, ledger
      <4> QED BY <1>1, <2>4, <2>5, <4>1 DEF StoreInv, RowHasContent, RetiredStatus
    <3>3. NeverIndexedIsNowhere' /\ UnindexedStaysSo'
      BY <1>1, <2>4, <2>5, ConstantsAssumption
         DEF StoreInv, NeverIndexedIsNowhere, UnindexedStaysSo, Retryable
    <3>4. status'[i] # "indexed"
      BY <2>4 DEF Retryable
    <3>5. IndexedIsServed'
      BY <1>1, <2>5, <3>1, <3>4 DEF StoreInv, IndexedIsServed
    <3> QED BY <3>2, <3>3, <3>5 DEF StoreInv
  <2> QED BY <2>6, <2>7
<1>3. CASE ~NeedsIndex(i, v, same)
  <2>1. lexical' = lexical /\ searchable' = searchable
        /\ Goto(w, "publish", Work(None, None, r))
    BY <1>3 DEF UpsertCommit, fts
  <2>2. Work(None, None, r) \in Job
    BY <1>1, WorkShape
  <2>3. JobInv'
    BY <2>1, <2>2, <1>1, GotoAlone, NoJobInFlight DEF Places
  <2>4. CASE Rewrites(i, v, same)
    <3>1. /\ status' = [status EXCEPT ![i] = "not_applicable"]
          /\ content' = [content EXCEPT ![i] = v]
          /\ tombstone' = tombstone \ {i} /\ aged' = aged \ {i} /\ i \in Unindexed
      BY <1>3, <2>4 DEF UpsertCommit, NeedsIndex, InitialStatus
    <3> QED BY <1>1, <2>1, <2>3, <3>1, ConstantsAssumption
            DEF StoreInv, RowHasContent, NeverIndexedIsNowhere, UnindexedStaysSo,
                RetiredStatus, IndexedIsServed, StoresAgree, IsNews, TypeOK
  <2>5. CASE ~Rewrites(i, v, same)
    <3>1. UNCHANGED <<status, content, tombstone, aged>>
      BY <2>5 DEF UpsertCommit
    <3>2. UNCHANGED <<status, content, tombstone, aged, fts, vector>>
      BY <3>1, <2>1, <1>1 DEF fts
    <3> QED BY <1>1, <2>3, <3>2, StoresUntouched
  <2> QED BY <2>4, <2>5
<1> QED BY <1>2, <1>3

LEMMA SectionInv ==
    ASSUME SingleWriter, IInv, NEW w \in Workers, NEW f \in Sections, NEW text \in Text,
           SectionCommit(w, f, text)
    PROVE  JobInv' /\ StoreInv'
<1>1. f \in Families /\ f \notin Items /\ revision + 1 \in Nat
  BY ConstantsAssumption DEF IInv, TypeOK, Families
<1>2. /\ Work(f, text, revision + 1) \in Job /\ Work(f, text, revision + 1).item = f
      /\ "embed" \in Places
  BY <1>1, WorkShape DEF Places
<1>3. \A u \in Workers : pc'[u] = "embed" /\ job'[u].item = f
  BY <1>2, GotoAlone DEF SectionCommit, IInv
<1>4. JobInv'
  BY <1>1, <1>3 DEF JobInv, JobOwed, JobIndexed, JobRetires, InFlight
<1>5. \A k \in Items : lexical'[k] = lexical[k] /\ (k \in searchable' <=> k \in searchable)
  BY <1>1 DEF SectionCommit, ReplaceLexicalFamily, IInv, TypeOK, Families
<1>6. StoreInv'
  BY <1>5 DEF SectionCommit, ledger, IInv, StoreInv, RowHasContent, NeverIndexedIsNowhere,
              UnindexedStaysSo, RetiredStatus, IndexedIsServed, StoresAgree, IsNews
<1> QED BY <1>4, <1>6

LEMMA EmbedInv ==
    ASSUME SingleWriter, IInv, NEW w \in Workers, Embed(w)
    PROVE  JobInv' /\ StoreInv'
<1> DEFINE f == job[w].item
<1>1. /\ f \in Families /\ job[w] \in Job /\ pc[w] = "embed" /\ TypeOK
      /\ vector' = [vector EXCEPT ![f] = job[w].text]
      /\ UNCHANGED <<ledger, fts>>
  BY JobTypes DEF Embed, IInv, JobTargets, InFlight
<1>2. CASE f \in Items
  <2>1. \A u \in Workers : pc'[u] = "set_indexed" /\ job'[u] = job[w] /\ u = w
    <3>1. Goto(w, "set_indexed", job[w])
      BY <1>2 DEF Embed
    <3> QED BY <3>1, <1>1, GotoAlone DEF Places, SingleWriter
  <2>2. /\ status[f] \in Retryable /\ lexical[f] = job[w].text /\ job[w].text # None
        /\ f \in searchable
    BY <1>1, <1>2 DEF IInv, JobInv, JobOwed, JobIndexed, InFlight
  <2>3. vector'[f] = job[w].text /\ \A k \in Items : k # f => vector'[k] = vector[k]
    BY <1>1 DEF TypeOK, Families
  <2>4. JobInv'
    BY <1>1, <2>1, <2>2, <2>3 DEF JobInv, JobOwed, JobIndexed, JobRetires, InFlight, ledger, fts
  <2>5. StoreInv'
    BY <1>1, <2>2, <2>3
       DEF IInv, StoreInv, RowHasContent, NeverIndexedIsNowhere, UnindexedStaysSo,
           RetiredStatus, IndexedIsServed, StoresAgree, IsNews, Retryable, ledger, fts
  <2> QED BY <2>4, <2>5
<1>3. CASE f \notin Items
  <2>1. \A u \in Workers : pc'[u] = "publish"
    <3>1. Goto(w, "publish", job[w])
      BY <1>3 DEF Embed
    <3> QED BY <3>1, <1>1, GotoAlone DEF Places
  <2>2. \A k \in Items : vector'[k] = vector[k]
    BY <1>1, <1>3 DEF TypeOK, Families
  <2>3. StoreInv'
    BY <1>1, <2>2
       DEF IInv, StoreInv, RowHasContent, NeverIndexedIsNowhere, UnindexedStaysSo,
           RetiredStatus, IndexedIsServed, StoresAgree, IsNews, ledger, fts
  <2> QED BY <2>1, <2>3, NoJobInFlight
<1> QED BY <1>2, <1>3

LEMMA EmbedFailsInv ==
    ASSUME SingleWriter, IInv, NEW w \in Workers, EmbedFails(w)
    PROVE  JobInv' /\ StoreInv'
<1> DEFINE f == job[w].item
<1>1. /\ f \in Families /\ job[w] \in Job /\ pc[w] = "embed" /\ TypeOK
      /\ vector' \in {vector, [vector EXCEPT ![f] = job[w].text]}
      /\ UNCHANGED <<ledger, fts>>
  BY JobTypes DEF EmbedFails, IInv, JobTargets, InFlight
<1>2. \A k \in Items : k # f => vector'[k] = vector[k]
  BY <1>1 DEF TypeOK, Families
<1>3. f \in Items => status[f] \in Retryable
  BY <1>1 DEF IInv, JobInv, JobOwed, InFlight
<1>4. StoreInv'
  BY <1>1, <1>2, <1>3
     DEF IInv, StoreInv, RowHasContent, NeverIndexedIsNowhere, UnindexedStaysSo,
         RetiredStatus, IndexedIsServed, StoresAgree, IsNews, Retryable, ledger, fts
<1>5. JobInv'
  <2>1. CASE f \in Items
    <3>1. Goto(w, "set_error", job[w])
      BY <2>1 DEF EmbedFails
    <3>2. \A u \in Workers : pc'[u] = "set_error" /\ job'[u] = job[w]
      BY <3>1, <1>1, GotoAlone DEF Places
    <3> QED BY <1>1, <1>3, <3>2 DEF JobInv, JobOwed, JobIndexed, JobRetires, InFlight, ledger
  <2>2. CASE f \notin Items
    <3>1. Goto(w, "idle", NoJob)
      BY <2>2 DEF EmbedFails
    <3> QED BY <3>1, <1>1, GotoAlone, NoJobType, NoJobInFlight DEF Places
  <2> QED BY <2>1, <2>2
<1> QED BY <1>4, <1>5

LEMMA SetIndexedInv ==
    ASSUME SingleWriter, IInv, NEW w \in Workers, SetIndexed(w)
    PROVE  JobInv' /\ StoreInv'
<1> DEFINE i == job[w].item
<1>1. /\ i \in Items /\ job[w] \in Job /\ pc[w] = "set_indexed" /\ TypeOK
      /\ status' = [status EXCEPT ![i] = "indexed"]
      /\ Goto(w, "publish", job[w])
      /\ UNCHANGED <<content, tombstone, aged, lexical, vector>>
  BY JobTypes DEF SetIndexed, IInv, JobTargets, InFlight
<1>2. /\ status[i] \in Retryable /\ lexical[i] = vector[i] /\ lexical[i] # None
      /\ i \in searchable
  BY <1>1 DEF IInv, JobInv, JobOwed, JobIndexed, InFlight
<1>3. searchable' = searchable
  BY <1>1, <1>2 DEF SetIndexed
<1>4. StoreInv'
  BY <1>1, <1>2, <1>3
     DEF IInv, StoreInv, TypeOK, RowHasContent, NeverIndexedIsNowhere, UnindexedStaysSo,
         RetiredStatus, IndexedIsServed, StoresAgree, IsNews, Retryable
<1>5. JobInv'
  BY <1>1, GotoAlone, NoJobInFlight DEF Places
<1> QED BY <1>4, <1>5

LEMMA SetErrorInv ==
    ASSUME SingleWriter, IInv, NEW w \in Workers, SetError(w)
    PROVE  JobInv' /\ StoreInv'
<1> DEFINE i == job[w].item
<1>1. /\ i \in Items /\ job[w] \in Job /\ pc[w] = "set_error" /\ TypeOK
      /\ status' = [status EXCEPT ![i] = "error"] /\ searchable' = searchable \ {i}
      /\ Goto(w, "idle", NoJob)
      /\ UNCHANGED <<content, tombstone, aged, lexical, vector>>
  BY JobTypes DEF SetError, IInv, JobTargets, InFlight
<1>2. status[i] \in Retryable
  BY <1>1 DEF IInv, JobInv, JobOwed, InFlight
<1>3. StoreInv'
  BY <1>1, <1>2
     DEF IInv, StoreInv, TypeOK, RowHasContent, NeverIndexedIsNowhere, UnindexedStaysSo,
         RetiredStatus, IndexedIsServed, StoresAgree, IsNews, Retryable
<1>4. JobInv'
  BY <1>1, GotoAlone, NoJobType, NoJobInFlight DEF Places
<1> QED BY <1>3, <1>4

(* The steps that touch no store and leave the worker outside a job.        *)
LEMMA RestInv ==
    ASSUME SingleWriter, IInv, NEW w \in Workers,
           Publish(w) \/ PublishFails(w) \/ RetentionReadRevision(w) \/ Crash(w)
    PROVE  JobInv' /\ StoreInv'
<1>1. /\ NoJob \in Job /\ Work(None, None, revision) \in Job
      /\ UNCHANGED <<ledger, fts, vector>>
  BY NoJobType, WorkShape DEF IInv, TypeOK, Text, Publish, PublishFails,
     RetentionReadRevision, Crash
<1>2. \/ Goto(w, "idle", NoJob)
      \/ Goto(w, "publish", Work(None, None, revision))
  BY DEF Publish, PublishFails, RetentionReadRevision, Crash
<1> QED BY <1>1, <1>2, StepToRest

LEMMA FactInv ==
    ASSUME IInv, NEW w \in Workers, FactWrite(w)
    PROVE  JobInv' /\ StoreInv'
<1>1. UNCHANGED <<ledger, fts, vector, pc, job>> /\ StoreInv /\ JobInv
  BY DEF FactWrite, IInv
<1>2. StoreInv'
  BY <1>1, StoresUntouched DEF ledger
<1>3. JobInv'
  BY <1>1 DEF JobInv, JobOwed, JobIndexed, JobRetires, InFlight, Expirable, IsNews,
              ledger, fts
<1> QED BY <1>2, <1>3

LEMMA RepairSelectInv ==
    ASSUME SingleWriter, IInv, NEW w \in Workers, NEW i \in Items, RepairSelect(w, i)
    PROVE  JobInv' /\ StoreInv'
<1>1. /\ status[i] \in Retryable /\ content[i] # None /\ i \in Families
      /\ content[i] \in Text /\ TypeOK /\ StoreInv
      /\ UNCHANGED <<ledger, fts, vector>>
      /\ Goto(w, "relex", Work(i, content[i], 0))
  BY DEF RepairSelect, IInv, StoreInv, RowHasContent, TypeOK, Retryable, Families
<1>2. /\ Work(i, content[i], 0) \in Job
      /\ Work(i, content[i], 0).item = i /\ Work(i, content[i], 0).text = content[i]
  BY <1>1, WorkShape
<1>3. \A u \in Workers : pc'[u] = "relex" /\ job'[u].item = i /\ job'[u].text = content[i]
  BY <1>1, <1>2, GotoAlone DEF Places
<1>4. JobInv'
  BY <1>1, <1>3 DEF JobInv, JobOwed, JobIndexed, JobRetires, InFlight, ledger
<1> QED BY <1>1, <1>4, StoresUntouched DEF ledger

LEMMA RepairLexicalInv ==
    ASSUME SingleWriter, IInv, NEW w \in Workers, RepairLexical(w)
    PROVE  JobInv' /\ StoreInv'
<1> DEFINE i == job[w].item
           v == job[w].text
           r == revision + 1
<1>1. /\ i \in Items /\ i \in Families /\ v \in Text /\ r \in Nat /\ TypeOK
      /\ status[i] \in Retryable /\ v # None /\ pc[w] = "relex"
  BY JobTypes DEF RepairLexical, IInv, JobTargets, JobInv, JobOwed, InFlight, TypeOK
<1>2. /\ lexical' = [lexical EXCEPT ![i] = v] /\ searchable' = searchable \cup {i}
      /\ Goto(w, "embed", Work(i, v, r)) /\ UNCHANGED <<ledger, vector>>
  BY <1>1 DEF RepairLexical, ReplaceLexicalFamily
<1>3. /\ Work(i, v, r) \in Job
      /\ Work(i, v, r).item = i /\ Work(i, v, r).text = v
  BY <1>1, WorkShape
<1>4. \A u \in Workers : pc'[u] = "embed" /\ job'[u].item = i /\ job'[u].text = v
  BY <1>1, <1>2, <1>3, GotoAlone DEF Places
<1>5. /\ lexical'[i] = v /\ i \in searchable' /\ status' = status
      /\ \A k \in Items : k # i => /\ lexical'[k] = lexical[k]
                                  /\ k \in searchable' <=> k \in searchable
  BY <1>1, <1>2 DEF TypeOK, Families, ledger
<1>6. JobInv'
  BY <1>1, <1>4, <1>5 DEF JobInv, JobOwed, JobIndexed, JobRetires, InFlight
<1>7. StoreInv'
  BY <1>1, <1>2, <1>5
     DEF IInv, StoreInv, RowHasContent, NeverIndexedIsNowhere, UnindexedStaysSo,
         RetiredStatus, IndexedIsServed, StoresAgree, IsNews, Retryable, ledger
<1> QED BY <1>6, <1>7

LEMMA RepairLexicalFailsInv ==
    ASSUME SingleWriter, IInv, NEW w \in Workers, RepairLexicalFails(w)
    PROVE  JobInv' /\ StoreInv'
<1>1. /\ job[w].item \in Items /\ job[w] \in Job /\ TypeOK /\ StoreInv
      /\ status[job[w].item] \in Retryable
      /\ UNCHANGED <<ledger, fts, vector>> /\ Goto(w, "set_error", job[w])
  BY JobTypes DEF RepairLexicalFails, IInv, JobTargets, JobInv, JobOwed, InFlight
<1>2. \A u \in Workers : pc'[u] = "set_error" /\ job'[u] = job[w]
  BY <1>1, GotoAlone DEF Places
<1>3. JobInv'
  BY <1>1, <1>2 DEF JobInv, JobOwed, JobIndexed, JobRetires, InFlight, ledger
<1> QED BY <1>1, <1>3, StoresUntouched DEF ledger

LEMMA RetentionSelectInv ==
    ASSUME SingleWriter, IInv, NEW w \in Workers, NEW chosen \in SUBSET Items,
           RetentionSelect(w, chosen)
    PROVE  JobInv' /\ StoreInv'
<1>1. /\ \A i \in chosen : Expirable(i) /\ i \in aged
      /\ UNCHANGED <<ledger, fts, vector>> /\ Goto(w, "delete", Sweep(chosen, {}))
      /\ TypeOK /\ StoreInv
  BY DEF RetentionSelect, IInv
<1>2. /\ Sweep(chosen, {}) \in Job
      /\ Sweep(chosen, {}).todo = chosen /\ Sweep(chosen, {}).gone = {}
  BY SweepShape
<1>3. \A u \in Workers : pc'[u] = "delete" /\ job'[u].todo = chosen /\ job'[u].gone = {}
  BY <1>1, <1>2, GotoAlone DEF Places
<1>4. JobInv'
  BY <1>1, <1>3 DEF JobInv, JobOwed, JobIndexed, JobRetires, InFlight, ledger,
                    Expirable, IsNews
<1> QED BY <1>1, <1>4, StoresUntouched DEF ledger

LEMMA RetentionDeleteInv ==
    ASSUME SingleWriter, IInv, NEW w \in Workers, NEW i \in Items, RetentionDelete(w, i)
    PROVE  JobInv' /\ StoreInv'
<1> DEFINE todo == job[w].todo \ {i}
           gone == job[w].gone \cup {i}
<1>1. /\ i \in job[w].todo /\ pc[w] = "delete" /\ TypeOK /\ i \in Families
      /\ vector' = [vector EXCEPT ![i] = None] /\ UNCHANGED <<ledger, fts>>
      /\ Goto(w, "delete", Sweep(todo, gone))
  BY DEF RetentionDelete, IInv, Families
<1>2. /\ Sweep(todo, gone) \in Job
      /\ Sweep(todo, gone).todo = todo /\ Sweep(todo, gone).gone = gone
  BY <1>1, JobTypes, SweepShape
<1>3. \A u \in Workers : pc'[u] = "delete" /\ job'[u].todo = todo /\ job'[u].gone = gone
  BY <1>1, <1>2, GotoAlone DEF Places
<1>4. /\ \A k \in job[w].todo \cup job[w].gone : Expirable(k) /\ k \in aged
      /\ \A k \in job[w].gone : vector[k] = None /\ k \in Items
  BY <1>1, JobTypes DEF IInv, JobInv, JobRetires
<1>5. /\ vector'[i] = None
      /\ \A k \in Items : k # i => vector'[k] = vector[k]
  BY <1>1 DEF TypeOK, Families
<1>6. JobInv'
  <2>1. \A k \in todo \cup gone : Expirable(k)' /\ k \in aged'
    BY <1>1, <1>4 DEF Expirable, IsNews, ledger
  <2>2. \A k \in gone : vector'[k] = None
    BY <1>4, <1>5
  <2> QED BY <1>3, <2>1, <2>2 DEF JobInv, JobOwed, JobIndexed, JobRetires, InFlight
<1>7. StoreInv'
  BY <1>1, <1>4, <1>5
     DEF IInv, StoreInv, RowHasContent, NeverIndexedIsNowhere, UnindexedStaysSo,
         RetiredStatus, IndexedIsServed, StoresAgree, IsNews, Expirable, ledger, fts
<1> QED BY <1>6, <1>7

LEMMA RetentionDeleteFailsInv ==
    ASSUME SingleWriter, IInv, NEW w \in Workers, NEW i \in Items,
           RetentionDeleteFails(w, i)
    PROVE  JobInv' /\ StoreInv'
<1> DEFINE todo == job[w].todo \ {i}
           gone == job[w].gone
<1>1. /\ pc[w] = "delete" /\ TypeOK /\ StoreInv
      /\ UNCHANGED <<ledger, fts, vector>>
      /\ Goto(w, "delete", Sweep(todo, gone))
  BY DEF RetentionDeleteFails, IInv
<1>2. /\ Sweep(todo, gone) \in Job
      /\ Sweep(todo, gone).todo = todo /\ Sweep(todo, gone).gone = gone
  BY <1>1, JobTypes, SweepShape
<1>3. \A u \in Workers : pc'[u] = "delete" /\ job'[u].todo = todo /\ job'[u].gone = gone
  BY <1>1, <1>2, GotoAlone DEF Places
<1>4. /\ \A k \in todo \cup gone : Expirable(k)' /\ k \in aged'
      /\ \A k \in gone : vector'[k] = None
  BY <1>1 DEF IInv, JobInv, JobRetires, Expirable, IsNews, ledger
<1>5. JobInv'
  BY <1>3, <1>4 DEF JobInv, JobOwed, JobIndexed, JobRetires, InFlight
<1> QED BY <1>1, <1>5, StoresUntouched DEF ledger

LEMMA RetentionExpireInv ==
    ASSUME SingleWriter, IInv, NEW w \in Workers, RetentionExpire(w)
    PROVE  JobInv' /\ StoreInv'
<1> DEFINE expired == {i \in job[w].gone : Expirable(i)}
<1>1. CASE expired = {}
  <2>1. Goto(w, "idle", NoJob) /\ UNCHANGED <<ledger, fts, vector>>
    BY <1>1 DEF RetentionExpire
  <2> QED BY <2>1, NoJobType, StepToRest
<1>2. CASE expired # {}
  <2>1. /\ status' = [i \in Items |-> IF i \in expired THEN "not_applicable"
                                                         ELSE status[i]]
        /\ tombstone' = tombstone \cup expired
        /\ lexical' = [f \in Families |-> IF f \in expired THEN None ELSE lexical[f]]
        /\ searchable' = searchable \ expired
        /\ Goto(w, "read_revision", NoJob)
        /\ UNCHANGED <<content, aged, vector>>
    BY <1>2 DEF RetentionExpire
  <2>2. /\ TypeOK /\ pc[w] = "delete" /\ expired \subseteq Items
        /\ \A i \in expired : vector[i] = None /\ status[i] = "indexed"
    BY JobTypes DEF IInv, JobInv, JobRetires, RetentionExpire, Expirable
  <2> HIDE DEF expired
  <2>3. JobInv'
    BY <2>1, <2>2, NoJobType, GotoAlone, NoJobInFlight DEF Places
  <2>4. /\ \A i \in expired :
              /\ status'[i] = "not_applicable" /\ lexical'[i] = None
              /\ i \notin searchable' /\ vector'[i] = None
        /\ \A k \in Items : k \notin expired =>
              /\ status'[k] = status[k] /\ lexical'[k] = lexical[k]
              /\ k \in searchable' <=> k \in searchable
    BY <2>1, <2>2 DEF Families
  <2>5. RowHasContent' /\ UnindexedStaysSo' /\ NeverIndexedIsNowhere'
    BY <2>1, <2>2, <2>4, ConstantsAssumption
       DEF IInv, StoreInv, RowHasContent, UnindexedStaysSo, NeverIndexedIsNowhere
  <2>6. RetiredStatus'
    BY <2>1, <2>2, <2>4 DEF IInv, StoreInv, RetiredStatus, TypeOK
  <2>7. IndexedIsServed'
    BY <2>1, <2>2, <2>4 DEF IInv, StoreInv, IndexedIsServed, StoresAgree, IsNews
  <2> QED BY <2>3, <2>5, <2>6, <2>7 DEF StoreInv
<1> QED BY <1>1, <1>2

LEMMA AgeInv ==
    ASSUME IInv, NEW i \in Items, Age(i)
    PROVE  JobInv' /\ StoreInv'
<1>1. /\ aged' = aged \cup {i}
      /\ UNCHANGED <<status, content, tombstone, lexical, searchable, vector, pc, job>>
  BY DEF Age, fts
<1>2. JobInv'
  BY <1>1 DEF IInv, JobInv, JobOwed, JobIndexed, JobRetires, InFlight, Expirable, IsNews
<1>3. StoreInv'
  BY <1>1 DEF IInv, StoreInv, RowHasContent, NeverIndexedIsNowhere, UnindexedStaysSo,
              RetiredStatus, IndexedIsServed, StoresAgree, IsNews
<1> QED BY <1>2, <1>3

LEMMA StepInv ==
    ASSUME SingleWriter, IInv, [Next]_vars
    PROVE  JobInv' /\ StoreInv'
<1>1. ASSUME NEW w \in Workers, Ingest(w)
      PROVE  JobInv' /\ StoreInv'
  BY <1>1, UpsertInv, SectionInv, FactInv DEF Ingest
<1>2. ASSUME NEW w \in Workers, Proceed(w)
      PROVE  JobInv' /\ StoreInv'
  BY <1>2, EmbedInv, SetIndexedInv, SetErrorInv, RestInv, RepairLexicalInv,
     RetentionDeleteInv, RetentionExpireInv DEF Proceed
<1>3. ASSUME NEW w \in Workers, Fault(w)
      PROVE  JobInv' /\ StoreInv'
  BY <1>3, EmbedFailsInv, RestInv, RepairLexicalFailsInv, RetentionDeleteFailsInv DEF Fault
<1>4. ASSUME NEW w \in Workers, Repair(w) \/ Retention(w)
      PROVE  JobInv' /\ StoreInv'
  BY <1>4, RepairSelectInv, RetentionSelectInv DEF Repair, Retention
<1>5. CASE UNCHANGED vars
  BY <1>5 DEF vars, ledger, fts, IInv, JobInv, JobOwed, JobIndexed, JobRetires, InFlight,
              Expirable, IsNews, StoreInv, RowHasContent, NeverIndexedIsNowhere,
              UnindexedStaysSo, RetiredStatus, IndexedIsServed, StoresAgree
<1> QED BY <1>1, <1>2, <1>3, <1>4, <1>5, AgeInv DEF Next

(* IInv is an invariant of every single-writer deployment.                  *)
THEOREM Inductive ==
    ASSUME SingleWriter
    PROVE  Spec => []IInv
<1>1. Init => JobInv /\ StoreInv
  BY ConstantsAssumption
     DEF Init, JobInv, JobOwed, JobIndexed, JobRetires, InFlight, StoreInv, RowHasContent,
         NeverIndexedIsNowhere, UnindexedStaysSo, RetiredStatus, IndexedIsServed, Families
<1>2. TypeOK /\ JobTargets /\ JobInv /\ StoreInv /\ [Next]_vars => (JobInv /\ StoreInv)'
  BY StepInv DEF IInv
<1>3. TypeOK /\ JobTargets /\ JobInv /\ StoreInv => IInv
  BY DEF IInv
<1> QED BY <1>1, <1>2, <1>3, TypesAndTargets, PTL DEF Spec

(* A row marked 'indexed' is searchable with the text Chroma holds, or is   *)
(* one that retention will select again.                                   *)
THEOREM IndexedServed ==
    ASSUME SingleWriter
    PROVE  Spec => []IndexedIsServed
<1>1. IInv => IndexedIsServed
  BY DEF IInv, StoreInv
<1> QED BY <1>1, Inductive, PTL

(* A search never ranks a narrative from text Chroma does not hold, unless  *)
(* the ledger still asks for its repair or its retirement.                 *)
THEOREM DriftIsOwed ==
    ASSUME SingleWriter
    PROVE  Spec => []ExposedDriftIsOwed
<1>1. IInv => ExposedDriftIsOwed
  BY DEF IInv, TypeOK, Statuses, Retryable, StoreInv, NeverIndexedIsNowhere,
         IndexedIsServed, ExposedDriftIsOwed, Exposed
<1> QED BY <1>1, Inductive, PTL

(* A retired narrative is in neither store.                                 *)
THEOREM TombstonesErased ==
    ASSUME SingleWriter
    PROVE  Spec => []TombstoneErased
<1>1. IInv => TombstoneErased
  BY DEF IInv, TypeOK, StoreInv, NeverIndexedIsNowhere, RetiredStatus, TombstoneErased
<1> QED BY <1>1, Inductive, PTL

-----------------------------------------------------------------------------
(* What holds whatever the number of writers.                               *)

IndexTrailsStore == indexedRevision <= revision
RetiredHasRow == \A i \in tombstone : status[i] # "absent"

LEMMA UpsertRows ==
    ASSUME TypeOK, RetiredHasRow, NEW w \in Workers, NEW i \in Items,
           NEW v \in Versions, NEW same \in BOOLEAN, UpsertCommit(w, i, v, same)
    PROVE  /\ RetiredHasRow'
           /\ \A k \in tombstone : k \notin tombstone' => content'[k] # content[k]
<1>1. CASE Rewrites(i, v, same)
  <2>1. /\ status' = [status EXCEPT ![i] = InitialStatus(i)]
        /\ content' = [content EXCEPT ![i] = v] /\ tombstone' = tombstone \ {i}
    BY <1>1 DEF UpsertCommit
  <2>2. i \in tombstone => content[i] # v
    BY <1>1 DEF Rewrites, RetiredHasRow
  <2> QED BY <2>1, <2>2 DEF TypeOK, RetiredHasRow
<1>2. CASE ~Rewrites(i, v, same)
  BY <1>2 DEF UpsertCommit, ledger, RetiredHasRow
<1> QED BY <1>1, <1>2

LEMMA StepRows ==
    ASSUME TypeOK, RetiredHasRow, [Next]_vars
    PROVE  /\ RetiredHasRow'
           /\ \A k \in tombstone : k \notin tombstone' => content'[k] # content[k]
<1>1. ASSUME NEW w \in Workers, Ingest(w)
      PROVE  /\ RetiredHasRow'
             /\ \A k \in tombstone : k \notin tombstone' => content'[k] # content[k]
  BY <1>1, UpsertRows DEF Ingest, SectionCommit, FactWrite, ledger, RetiredHasRow
<1>2. ASSUME NEW w \in Workers, Proceed(w)
      PROVE  RetiredHasRow' /\ tombstone \subseteq tombstone'
  <2>1. CASE SetIndexed(w) \/ SetError(w)
    <3>1. /\ tombstone' = tombstone
          /\ \/ status' = [status EXCEPT ![job[w].item] = "indexed"]
             \/ status' = [status EXCEPT ![job[w].item] = "error"]
      BY <2>1 DEF SetIndexed, SetError
    <3> QED BY <3>1 DEF RetiredHasRow, TypeOK
  <2>2. CASE RetentionExpire(w)
    <3>1. CASE UNCHANGED ledger
      BY <3>1 DEF ledger, RetiredHasRow
    <3>2. CASE ~UNCHANGED ledger
      <4> DEFINE expired == {i \in job[w].gone : Expirable(i)}
      <4>1. /\ tombstone' = tombstone \cup expired
            /\ status' = [i \in Items |-> IF i \in expired THEN "not_applicable"
                                                         ELSE status[i]]
        BY <2>2, <3>2 DEF RetentionExpire
      <4>2. expired \subseteq Items
        BY JobTypes
      <4> HIDE DEF expired
      <4> QED BY <4>1, <4>2 DEF RetiredHasRow, TypeOK
    <3> QED BY <3>1, <3>2
  <2>3. CASE ~(SetIndexed(w) \/ SetError(w) \/ RetentionExpire(w))
    BY <1>2, <2>3 DEF Proceed, Embed, Publish, RepairLexical, RetentionDelete,
                      RetentionReadRevision, ledger, RetiredHasRow
  <2> QED BY <2>1, <2>2, <2>3
<1>3. ASSUME NEW w \in Workers, Fault(w) \/ Repair(w) \/ Retention(w)
      PROVE  UNCHANGED ledger
  BY <1>3 DEF Fault, EmbedFails, PublishFails, RepairLexicalFails, RetentionDeleteFails,
              Crash, Repair, RepairSelect, Retention, RetentionSelect
<1>4. ASSUME NEW i \in Items, Age(i)
      PROVE  UNCHANGED <<status, tombstone>>
  BY <1>4 DEF Age
<1> QED BY <1>1, <1>2, <1>3, <1>4 DEF Next, vars, ledger, RetiredHasRow

(* A retired narrative comes back only with another text.                   *)
THEOREM NoResurrectionHolds == Spec => NoResurrection
<1>1. Init => RetiredHasRow
  BY DEF Init, RetiredHasRow
<1>2. TypeOK /\ RetiredHasRow /\ [Next]_vars => RetiredHasRow'
  BY StepRows
<1>3. TypeOK /\ RetiredHasRow /\ [Next]_vars
        => [\A i \in tombstone : i \notin tombstone' => content'[i] # content[i]]_vars
  BY StepRows
<1> QED BY <1>1, <1>2, <1>3, TypeCorrect, PTL DEF Spec, NoResurrection

LEMMA StepFreshness ==
    ASSUME TypeOK, IndexTrailsStore, [Next]_vars
    PROVE  /\ IndexTrailsStore'
           /\ lexical' # lexical => indexedRevision' = revision' /\ revision' > revision
           /\ indexedRevision' >= indexedRevision
           /\ chromaRevision' >= chromaRevision
<1> DEFINE Fresh == /\ IndexTrailsStore'
                    /\ lexical' # lexical => indexedRevision' = revision' /\ revision' > revision
                    /\ indexedRevision' >= indexedRevision
                    /\ chromaRevision' >= chromaRevision
<1> USE DEF TypeOK, IndexTrailsStore
<1>1. ASSUME NEW w \in Workers, Ingest(w)
      PROVE  Fresh
  <2>1. ASSUME NEW i \in Items, NEW v \in Versions, NEW same \in BOOLEAN,
               UpsertCommit(w, i, v, same)
        PROVE  Fresh
    <3>1. /\ revision' = revision + 1 /\ indexedRevision' = revision + 1
          /\ chromaRevision' = chromaRevision
      BY <2>1 DEF UpsertCommit, ReplaceLexicalFamily
    <3> QED BY <3>1
  <2> QED BY <1>1, <2>1 DEF Ingest, SectionCommit, ReplaceLexicalFamily, FactWrite, fts
<1>2. ASSUME NEW w \in Workers, Proceed(w)
      PROVE  Fresh
  <2>1. CASE Publish(w)
    BY <2>1, JobTypes DEF Publish, fts
  <2>2. CASE RepairLexical(w)
    BY <2>2 DEF RepairLexical, ReplaceLexicalFamily
  <2>3. CASE RetentionExpire(w)
    <3>1. \/ UNCHANGED <<fts, revisions>>
          \/ /\ revision' = revision + 1 /\ indexedRevision' = revision + 1
             /\ chromaRevision' = chromaRevision
      BY <2>3 DEF RetentionExpire
    <3> QED BY <3>1 DEF fts, revisions
  <2>4. CASE ~(Publish(w) \/ RepairLexical(w) \/ RetentionExpire(w))
    <3>1. UNCHANGED <<lexical, revisions>>
      BY <1>2, <2>4 DEF Proceed, Embed, SetIndexed, SetError, RetentionDelete,
                        RetentionReadRevision, fts
    <3> QED BY <3>1 DEF revisions
  <2> QED BY <2>1, <2>2, <2>3, <2>4
<1>3. ASSUME NEW w \in Workers, Fault(w) \/ Repair(w) \/ Retention(w)
      PROVE  UNCHANGED <<fts, revisions>>
  BY <1>3 DEF Fault, EmbedFails, PublishFails, RepairLexicalFails, RetentionDeleteFails,
              Crash, Repair, RepairSelect, Retention, RetentionSelect
<1>4. ASSUME NEW i \in Items, Age(i)
      PROVE  UNCHANGED <<fts, revisions>>
  BY <1>4 DEF Age
<1> QED BY <1>1, <1>2, <1>3, <1>4 DEF Next, vars, fts, revisions

(* Lexical rows change only under a new generation, and no generation is    *)
(* ever taken back.                                                        *)
THEOREM FreshnessHolds == Spec => FreshnessByRevision
<1> DEFINE Fresh == /\ lexical' # lexical =>
                           indexedRevision' = revision' /\ revision' > revision
                    /\ indexedRevision' >= indexedRevision
                    /\ chromaRevision' >= chromaRevision
<1>1. Init => IndexTrailsStore
  BY DEF Init, IndexTrailsStore
<1>2. TypeOK /\ IndexTrailsStore /\ [Next]_vars => IndexTrailsStore' /\ [Fresh]_vars
  BY StepFreshness
<1> QED BY <1>1, <1>2, TypeCorrect, PTL DEF Spec, FreshnessByRevision

=============================================================================
