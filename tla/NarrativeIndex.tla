--------------------------- MODULE NarrativeIndex ---------------------------
(***************************************************************************)
(* The dual store of src/storage: the SQLite corpus ledger with its FTS5   *)
(* lexical rows, and the Chroma collection with its published generation   *)
(* marker.  No transaction spans the two stores: an ingestion first commits*)
(* the ledger row and its lexical rows together, then embeds the text in   *)
(* Chroma, then records the indexing status, then publishes the marker.    *)
(* Any of those steps may fail, the process may die between two of them,   *)
(* and `repair` and `retention` walk the same ground.                      *)
(*                                                                         *)
(* A narrative's text is a version; a family of chunks moves as one.       *)
(***************************************************************************)
EXTENDS Naturals, FiniteSets

CONSTANTS
    Items,          \* corpus_item_id of a ledger row; also its family id
    Sections,       \* SEC section / save_document families, with no ledger row
    News,           \* items ingested with item_type 'news'
    Unindexed,      \* items whose records say indexing_status 'not_applicable'
    Versions,       \* texts a record may carry
    DirectVersions, \* texts of evidence_authority 'direct_sec'
    None,           \* no text
    Workers,        \* threads of control that write through the Store facade
    RetentionLimit, \* max_items_per_run of the retention policy
    RepairLimit,    \* how many items one repair run lists
    MaxWrites,      \* bound: ingestion calls explored
    MaxFaults       \* bound: failed store calls and process deaths explored

Families == Items \cup Sections
Text == Versions \cup {None}

ASSUME ConstantsAssumption ==
    /\ Items \cap Sections = {}
    /\ News \subseteq Items
    /\ Unindexed \subseteq Items
    /\ DirectVersions \subseteq Versions
    /\ None \notin Versions
    /\ {RetentionLimit, RepairLimit} \subseteq Nat \ {0}
    /\ MaxWrites \in Nat
    /\ MaxFaults \in Nat

Statuses == {"absent", "pending", "indexed", "error", "not_applicable"}
Retryable == {"pending", "error"}

VARIABLES
    status,          \* corpus_items.indexing_status, "absent" without a row
    content,         \* the text whose title, summary and hash the row holds
    tombstone,       \* rows with is_tombstone = 1
    aged,            \* items published before the retention cutoff
    older,           \* pairs of rows: the first's updated_at is before the second's
    lexical,         \* the text the family's corpus_fts rows were built from
    searchable,      \* families whose corpus_fts rows say 'indexed'
    vector,          \* the text the family's Chroma chunks were built from
    revision,        \* store_revision
    indexedRevision, \* lexical_index_state.indexed_revision
    chromaRevision,  \* the collection's corpus_revision marker
    pc, job,         \* each worker's place in its call, and its locals
    writes, faults   \* how much of the two bounds is spent

ledger    == <<status, content, tombstone, aged, older>>
fts       == <<lexical, searchable>>
revisions == <<revision, indexedRevision, chromaRevision>>
bounds    == <<writes, faults>>
vars == <<ledger, fts, vector, revisions, pc, job, bounds>>

Places == {"idle", "embed", "set_indexed", "set_error", "publish",
           "relex", "delete", "read_revision"}
Job == [item: Families \cup {None}, text: Text, rev: Nat,
        todo: SUBSET Items, gone: SUBSET Items]
Work(f, text, rev) ==
    [item |-> f, text |-> text, rev |-> rev, todo |-> {}, gone |-> {}]
Sweep(todo, gone) ==
    [item |-> None, text |-> None, rev |-> 0, todo |-> todo, gone |-> gone]
NoJob == Work(None, None, 0)

TypeOK ==
    /\ status \in [Items -> Statuses]
    /\ content \in [Items -> Text]
    /\ tombstone \subseteq Items
    /\ aged \subseteq Items
    /\ older \subseteq Items \X Items
    /\ lexical \in [Families -> Text]
    /\ searchable \subseteq Families
    /\ vector \in [Families -> Text]
    /\ revision \in Nat /\ indexedRevision \in Nat /\ chromaRevision \in Nat
    /\ pc \in [Workers -> Places]
    /\ job \in [Workers -> Job]
    /\ writes \in 0..MaxWrites
    /\ faults \in 0..MaxFaults

Init ==
    /\ status = [i \in Items |-> "absent"]
    /\ content = [i \in Items |-> None]
    /\ tombstone = {}
    /\ aged = {} /\ older = {}
    /\ lexical = [f \in Families |-> None]
    /\ searchable = {}
    /\ vector = [f \in Families |-> None]
    /\ revision = 0 /\ indexedRevision = 0 /\ chromaRevision = 0
    /\ pc = [w \in Workers |-> "idle"]
    /\ job = [w \in Workers |-> NoJob]
    /\ writes = 0 /\ faults = 0

-----------------------------------------------------------------------------
(* The item_type column: a row promoted to a direct SEC text stops being   *)
(* news.                                                                   *)
IsNews(i) == i \in News /\ content[i] \notin DirectVersions

Goto(w, place, j) ==
    /\ pc' = [pc EXCEPT ![w] = place]
    /\ job' = [job EXCEPT ![w] = j]

(* updated_at is set to now in these rows; what falls in one second counts  *)
(* in the order it was written.                                            *)
Touch(rows) ==
    older' = {pair \in older : pair[1] \notin rows} \cup ((Items \ rows) \X rows)

Spend(counter, limit) == counter < limit /\ counter' = counter + 1

(* Mutant: the lexical transaction forgets to record its generation.       *)
ReplaceLexicalFamilyQuietly(f, text) ==
    /\ lexical' = [lexical EXCEPT ![f] = text]
    /\ searchable' = IF text = None THEN searchable \ {f} ELSE searchable \cup {f}
    /\ revision' = revision + 1
    /\ indexedRevision' = indexedRevision

(* One SQLite transaction that rewrites the lexical rows of a family,      *)
(* bumps store_revision and records it as indexed_revision.  Rows carry no *)
(* indexing_status of their own, so they are written as 'indexed'.         *)
ReplaceLexicalFamily(f, text) ==
    /\ lexical' = [lexical EXCEPT ![f] = text]
    /\ searchable' = IF text = None THEN searchable \ {f} ELSE searchable \cup {f}
    /\ revision' = revision + 1
    /\ indexedRevision' = revision + 1

(***************************************************************************)
(* Store.upsert_narrative.  The record resolves to item i, by its own      *)
(* source's identity (sameSource) or through another source's URL, hash or *)
(* headline; only the former, or a promotion to direct SEC authority,      *)
(* rewrites an existing row.  An unchanged row is indexed again when its   *)
(* last indexing did not finish.                                           *)
(***************************************************************************)
(* Mutants: the row claims its index before it has one; the record's own     *)
(* status is stored unchecked.                                             *)
OptimisticStatus(i) == IF i \in Unindexed THEN "not_applicable" ELSE "indexed"
UncheckedStatus(i) == "unknown"

InitialStatus(i) == IF i \in Unindexed THEN "not_applicable" ELSE "pending"

(* Mutant: every record of a row's own source rewrites the row.            *)
RewritesUnchanged(i, v, sameSource) ==
    \/ status[i] = "absent"
    \/ sameSource
    \/ v \in DirectVersions /\ content[i] \notin DirectVersions

Rewrites(i, v, sameSource) ==
    \/ status[i] = "absent"
    \/ sameSource /\ v # content[i]
    \/ v \in DirectVersions /\ content[i] \notin DirectVersions

NeedsIndex(i, v, sameSource) ==
    /\ i \notin Unindexed
    /\ Rewrites(i, v, sameSource) \/ status[i] \in Retryable

UpsertCommit(w, i, v, sameSource) ==
    /\ pc[w] = "idle"
    /\ Spend(writes, MaxWrites)
    /\ sameSource => \/ status[i] = "absent"
                     \/ (v \in DirectVersions) <=> (content[i] \in DirectVersions)
    /\ IF Rewrites(i, v, sameSource)
       THEN /\ status' = [status EXCEPT ![i] = InitialStatus(i)]
            /\ content' = [content EXCEPT ![i] = v]
            /\ tombstone' = tombstone \ {i}
            /\ aged' = aged \ {i}
       ELSE UNCHANGED <<status, content, tombstone, aged>>
    /\ Touch({i})
    /\ IF NeedsIndex(i, v, sameSource)
       THEN /\ ReplaceLexicalFamily(i, v)
            /\ Goto(w, "embed", Work(i, v, revision + 1))
       ELSE /\ UNCHANGED fts
            /\ revision' = revision + 1
            /\ indexedRevision' = revision + 1
            /\ Goto(w, "publish", Work(None, None, revision + 1))
    /\ UNCHANGED <<vector, chromaRevision, faults>>

(* chroma.add_document(replace_family=True), or delete_filing_section_family *)
(* when the job carries no text.                                           *)
Embed(w) ==
    /\ pc[w] = "embed"
    /\ vector' = [vector EXCEPT ![job[w].item] = job[w].text]
    /\ Goto(w, IF job[w].item \in Items THEN "set_indexed" ELSE "publish", job[w])
    /\ UNCHANGED <<ledger, fts, revisions, bounds>>

(* Mutant: the exception of the Chroma call is swallowed.                  *)
EmbedFailsUnnoticed(w) ==
    /\ pc[w] = "embed"
    /\ Spend(faults, MaxFaults)
    /\ Goto(w, IF job[w].item \in Items THEN "set_indexed" ELSE "publish", job[w])
    /\ UNCHANGED <<ledger, fts, vector, revisions, writes>>

(* The Chroma call raises, before or after its upsert took effect.  Only    *)
(* the narrative callers record the failure; the others propagate it.      *)
EmbedFails(w) ==
    /\ pc[w] = "embed"
    /\ Spend(faults, MaxFaults)
    /\ vector' \in {vector, [vector EXCEPT ![job[w].item] = job[w].text]}
    /\ Goto(w, IF job[w].item \in Items THEN "set_error" ELSE "idle",
               IF job[w].item \in Items THEN job[w] ELSE NoJob)
    /\ UNCHANGED <<ledger, fts, revisions, writes>>

(* sqlite.set_corpus_index_status: the ledger row and its lexical rows.     *)
SetIndexed(w) ==
    /\ pc[w] = "set_indexed"
    /\ status' = [status EXCEPT ![job[w].item] = "indexed"]
    /\ searchable' = IF lexical[job[w].item] = None
                     THEN searchable ELSE searchable \cup {job[w].item}
    /\ Touch({job[w].item})
    /\ Goto(w, "publish", job[w])
    /\ UNCHANGED <<content, tombstone, aged, lexical, vector, revisions, bounds>>

SetError(w) ==
    /\ pc[w] = "set_error"
    /\ status' = [status EXCEPT ![job[w].item] = "error"]
    /\ searchable' = searchable \ {job[w].item}
    /\ Touch({job[w].item})
    /\ Goto(w, "idle", NoJob)
    /\ UNCHANGED <<content, tombstone, aged, lexical, vector, revisions, bounds>>

(* Store._mark_chroma_revision: a monotonic marker.                         *)
Publish(w) ==
    /\ pc[w] = "publish"
    /\ chromaRevision' = IF job[w].rev < chromaRevision
                         THEN chromaRevision ELSE job[w].rev
    /\ Goto(w, "idle", NoJob)
    /\ UNCHANGED <<ledger, fts, vector, revision, indexedRevision, bounds>>

(* The marker write raises and the failure is only logged.                  *)
PublishFails(w) ==
    /\ pc[w] = "publish"
    /\ Spend(faults, MaxFaults)
    /\ Goto(w, "idle", NoJob)
    /\ UNCHANGED <<ledger, fts, vector, revisions, writes>>

(* Store.add_filing_sections / save_document / delete_filing_section_family: *)
(* a family without a ledger row.                                          *)
SectionCommit(w, f, text) ==
    /\ pc[w] = "idle"
    /\ Spend(writes, MaxWrites)
    /\ ReplaceLexicalFamily(f, text)
    /\ Goto(w, "embed", Work(f, text, revision + 1))
    /\ UNCHANGED <<ledger, vector, chromaRevision, faults>>

(* A structured-fact write: it bumps store_revision and nothing here.      *)
FactWrite(w) ==
    /\ pc[w] = "idle"
    /\ Spend(writes, MaxWrites)
    /\ revision' = revision + 1
    /\ UNCHANGED <<ledger, fts, vector, indexedRevision, chromaRevision, pc, job, faults>>

(***************************************************************************)
(* Store.repair_corpus_item: only news keeps enough text in the ledger.    *)
(***************************************************************************)
RepairSelect(w, i) ==
    /\ pc[w] = "idle"
    /\ status[i] \in Retryable
    /\ i \notin tombstone
    /\ IsNews(i)
    /\ Goto(w, "relex", Work(i, content[i], 0))
    /\ UNCHANGED <<ledger, fts, vector, revisions, bounds>>

RepairLexical(w) ==
    /\ pc[w] = "relex"
    /\ ReplaceLexicalFamily(job[w].item, job[w].text)
    /\ Goto(w, "embed", Work(job[w].item, job[w].text, revision + 1))
    /\ UNCHANGED <<ledger, vector, chromaRevision, bounds>>

RepairLexicalFails(w) ==
    /\ pc[w] = "relex"
    /\ Spend(faults, MaxFaults)
    /\ Goto(w, "set_error", job[w])
    /\ UNCHANGED <<ledger, fts, vector, revisions, writes>>

(***************************************************************************)
(* Store.run_retention(apply=True): delete the chosen families from Chroma *)
(* one by one, then turn into tombstones, in one transaction, those still  *)
(* eligible, then publish whatever the store revision is by then.          *)
(***************************************************************************)
(* Mutant: a row whose chunks are gone is no candidate any more.           *)
ExpirableWhileEmbedded(i) ==
    IsNews(i) /\ i \notin tombstone /\ status[i] = "indexed" /\ vector[i] # None

Expirable(i) == IsNews(i) /\ i \notin tombstone /\ status[i] = "indexed"

RetentionSelect(w, chosen) ==
    /\ pc[w] = "idle"
    /\ chosen # {}
    /\ \A i \in chosen : Expirable(i) /\ i \in aged
    /\ Cardinality(chosen) <= RetentionLimit
    /\ Goto(w, "delete", Sweep(chosen, {}))
    /\ UNCHANGED <<ledger, fts, vector, revisions, bounds>>

RetentionDelete(w, i) ==
    /\ pc[w] = "delete"
    /\ i \in job[w].todo
    /\ vector' = [vector EXCEPT ![i] = None]
    /\ Goto(w, "delete", Sweep(job[w].todo \ {i}, job[w].gone \cup {i}))
    /\ UNCHANGED <<ledger, fts, revisions, bounds>>

(* Mutant: a failed deletion is counted as done.                           *)
RetentionDeleteFailsUnnoticed(w, i) ==
    /\ pc[w] = "delete"
    /\ i \in job[w].todo
    /\ Spend(faults, MaxFaults)
    /\ Goto(w, "delete", Sweep(job[w].todo \ {i}, job[w].gone \cup {i}))
    /\ UNCHANGED <<ledger, fts, vector, revisions, writes>>

RetentionDeleteFails(w, i) ==
    /\ pc[w] = "delete"
    /\ i \in job[w].todo
    /\ Spend(faults, MaxFaults)
    /\ Goto(w, "delete", Sweep(job[w].todo \ {i}, job[w].gone))
    /\ UNCHANGED <<ledger, fts, vector, revisions, writes>>

RetentionExpire(w) ==
    LET expired == {i \in job[w].gone : Expirable(i)} IN
    /\ pc[w] = "delete"
    /\ job[w].todo = {}
    /\ IF expired = {}
       THEN /\ Goto(w, "idle", NoJob)
            /\ UNCHANGED <<ledger, fts, revisions>>
       ELSE /\ status' = [i \in Items |-> IF i \in expired THEN "not_applicable"
                                                           ELSE status[i]]
            /\ tombstone' = tombstone \cup expired
            /\ Touch(expired)
            /\ lexical' = [f \in Families |-> IF f \in expired THEN None
                                                               ELSE lexical[f]]
            /\ searchable' = searchable \ expired
            /\ revision' = revision + 1
            /\ indexedRevision' = revision + 1
            /\ Goto(w, "read_revision", NoJob)
            /\ UNCHANGED <<content, aged, chromaRevision>>
    /\ UNCHANGED <<vector, bounds>>

RetentionReadRevision(w) ==
    /\ pc[w] = "read_revision"
    /\ Goto(w, "publish", Work(None, None, revision))
    /\ UNCHANGED <<ledger, fts, vector, revisions, bounds>>

-----------------------------------------------------------------------------
(* The process dies: its locals are gone, the two stores keep what they have. *)
Crash(w) ==
    /\ pc[w] # "idle"
    /\ Spend(faults, MaxFaults)
    /\ Goto(w, "idle", NoJob)
    /\ UNCHANGED <<ledger, fts, vector, revisions, writes>>

(* An item's publication date passes the retention cutoff.                  *)
Age(i) ==
    /\ IsNews(i) /\ status[i] # "absent" /\ i \notin aged
    /\ aged' = aged \cup {i}
    /\ UNCHANGED <<status, content, tombstone, older, fts, vector, revisions, pc, job, bounds>>

Ingest(w) ==
    \/ \E i \in Items, v \in Versions, same \in BOOLEAN : UpsertCommit(w, i, v, same)
    \/ \E f \in Sections, text \in Text : SectionCommit(w, f, text)
    \/ FactWrite(w)

(* What a call in progress does next when no store fails it.               *)
Proceed(w) ==
    \/ Embed(w) \/ SetIndexed(w) \/ SetError(w) \/ Publish(w)
    \/ RepairLexical(w)
    \/ \E i \in Items : RetentionDelete(w, i)
    \/ RetentionExpire(w) \/ RetentionReadRevision(w)

Fault(w) ==
    \/ EmbedFails(w) \/ PublishFails(w) \/ RepairLexicalFails(w)
    \/ \E i \in Items : RetentionDeleteFails(w, i)
    \/ Crash(w)

(* list_retryable_corpus_items: the oldest rows, up to the limit, whether   *)
(* repair can do anything with them or not.                                *)
Listed(i) == status[i] \in Retryable /\ i \notin tombstone
Ahead(i) == Cardinality({j \in Items : Listed(j) /\ <<j, i>> \in older})

(* Mutant: one row too few.                                                *)
ShortBatch == {i \in Items : Listed(i) /\ Ahead(i) + 1 < RepairLimit}

Batch == {i \in Items : Listed(i) /\ Ahead(i) < RepairLimit}

(* A repair run takes up its batch; one may also name an item.              *)
RepairRun(w) == \E i \in Batch : RepairSelect(w, i)
Repair(w) == \E i \in Items : RepairSelect(w, i)
Retention(w) == \E chosen \in SUBSET Items : RetentionSelect(w, chosen)

Next ==
    \/ \E w \in Workers : Ingest(w) \/ Proceed(w) \/ Fault(w) \/ Repair(w) \/ Retention(w)
    \/ \E i \in Items : Age(i)

Spec == Init /\ [][Next]_vars

-----------------------------------------------------------------------------
(* What the search reads (src/middleware/lexical_index.py): lexical hits   *)
(* are fused only while both stores show the same generation, and only     *)
(* rows marked 'indexed' are hits.                                         *)
FusionEnabled == chromaRevision = indexedRevision
Exposed(f) == FusionEnabled /\ f \in searchable
StoresAgree(f) == lexical[f] = vector[f]

(* One thread of control writes at a time: the supported deployment        *)
(* (docs/phase2.3/.../STORAGE-BENCHMARK-RESULTS.md, "Known limits").       *)
SingleWriter == \A a, b \in Workers : a = b

(***************************************************************************)
(* A row that says 'indexed' is searchable, and both stores hold the same  *)
(* text for it, so no repair is owed; the one exception is a family that   *)
(* retention deleted from Chroma before it could retire the row, which is  *)
(* past the cutoff, so that the next retention run selects it again.       *)
(* (Store.upsert_narrative, repair_corpus_item, run_retention)             *)
(***************************************************************************)
IndexedIsServed ==
    \A i \in Items : status[i] = "indexed" =>
        /\ i \in searchable
        /\ lexical[i] # None
        /\ StoresAgree(i) \/ (vector[i] = None /\ i \in aged /\ IsNews(i))

(***************************************************************************)
(* Whatever step fails or the process dies in, a narrative that a search   *)
(* could rank from rows whose text Chroma does not hold is never taken for *)
(* done: its row is pending or in error, or retention will come back for   *)
(* it.                                                                     *)
(***************************************************************************)
ExposedDriftIsOwed ==
    \A i \in Items : Exposed(i) /\ ~StoresAgree(i) =>
        \/ status[i] \in Retryable
        \/ status[i] = "indexed" /\ i \in aged /\ IsNews(i)

(* A retired narrative has left both stores (expire_news_narratives).       *)
TombstoneErased ==
    \A i \in tombstone :
        /\ status[i] = "not_applicable"
        /\ lexical[i] = None /\ i \notin searchable
        /\ vector[i] = None

(* Only a record with a new text, or new authority, revives a tombstone:    *)
(* providers keep returning retired articles (upsert_narrative_record).    *)
NoResurrection ==
    [][\A i \in tombstone : i \notin tombstone' => content'[i] # content[i]]_vars

(* "Index freshness is revision-based": lexical rows never change under an  *)
(* unchanged generation, and neither generation ever goes back.            *)
FreshnessByRevision ==
    [][/\ lexical' # lexical =>
             indexedRevision' = revision' /\ revision' > revision
       /\ indexedRevision' >= indexedRevision
       /\ chromaRevision' >= chromaRevision]_vars

-----------------------------------------------------------------------------
(* Liveness.  A call in progress goes on; the operator keeps running        *)
(* `repair` and `retention` while they have something to select.           *)
Fairness ==
    \A w \in Workers :
        WF_vars(Proceed(w)) /\ SF_vars(RepairRun(w)) /\ SF_vars(Retention(w))

LiveSpec == Spec /\ Fairness

(* Rows that are listed for repair and always skipped, and keep their place. *)
Hopeless == {i \in Items : Listed(i) /\ ~IsNews(i)}

(* Every stored article whose indexing failed or was cut short is indexed   *)
(* again, without its provider -- as long as the rows that repair can only *)
(* skip do not fill its list (run_repair).                                 *)
FailedNewsIsIndexed ==
    \A i \in News :
        (status[i] \in Retryable /\ IsNews(i))
            ~> \/ status[i] \notin Retryable \/ ~IsNews(i)
               \/ Cardinality(Hopeless) >= RepairLimit

(* A row that claims to be indexed while retention has already deleted its  *)
(* chunks does not keep claiming it: it is retired or indexed anew.         *)
PurgedIsSettled ==
    \A i \in News :
        (status[i] = "indexed" /\ vector[i] = None)
            ~> (status[i] # "indexed" \/ vector[i] # None)

=============================================================================
