--------------------------- MODULE RetrievalCache ---------------------------
(***************************************************************************)
(* The versioned retrieval cache of src/middleware/retrieval_cache.py, the *)
(* request that probes and fills it (src/middleware/adaptive_orchestrator. *)
(* py), and the writers of src/storage that are supposed to invalidate it  *)
(* by advancing store_revision.  Readers and writers are different         *)
(* processes: nothing excludes a write between two reads of one request.   *)
(*                                                                         *)
(* Data are version numbers, one for each kind of evidence; what a request *)
(* retrieved is the versions it saw.                                       *)
(***************************************************************************)
EXTENDS Naturals, SequencesExt

CONSTANTS
    Threads,    \* requests that run the orchestrator at the same time
    Writers,    \* ingestion, repair and retention runs
    Plans,      \* what a key is built from besides the two revisions
    MaxEntries, \* retrieval_cache_max_entries
    Ttl,        \* retrieval_cache_ttl_s
    MaxWrites,  \* bound: writes explored
    MaxAsks,    \* bound: requests explored
    MaxFaults,  \* bound: failed bumps, failed embeddings and deaths explored
    MaxClock    \* bound: ticks of the clock explored

ASSUME ConstantsAssumption ==
    /\ MaxEntries \in Nat \ {0}
    /\ Ttl \in Nat \ {0}
    /\ MaxWrites \in Nat /\ MaxAsks \in Nat /\ MaxFaults \in Nat /\ MaxClock \in Nat

(* Fundamentals, observations and events, SEC CompanyFacts, lexical rows,   *)
(* Chroma chunks.                                                          *)
Facts == {"fundamental", "observation", "companyfacts"}
Documents == {"rows", "vectors"}
Kinds == Facts \cup Documents
Evidence == [Kinds -> Nat]
Key == [plan: Plans, revision: Nat, corpus: Nat]
Entry == [key: Key, evidence: Evidence, dirty: BOOLEAN, stored: Nat, expires: Nat]

VARIABLES
    data,           \* the version each kind of evidence is at
    revision,       \* store_revision
    corpusRevision, \* lexical_index_state.indexed_revision
    writing,        \* each writer's place in its write
    torn,           \* revisions under which data changed with no bump to follow
    entries,        \* the cached entries
    recency,        \* their keys, least recently used first
    clock,
    pc, job,        \* each request's place, and its locals
    writes, asks, faults

stores == <<data, revision, corpusRevision, torn>>
cache  == <<entries, recency>>
spent  == <<writes, asks, faults>>
vars   == <<stores, writing, cache, clock, pc, job, spent>>

WriterPlaces == {"idle", "fundamental", "unbumped", "embed", "purge"}
Places == {"idle", "key", "probe", "facts", "documents", "store", "hit"}
NoEvidence == [k \in Kinds |-> 0]
Jobs == [key: Key, refresh: BOOLEAN, evidence: Evidence, dirty: BOOLEAN]

TypeOK ==
    /\ data \in Evidence
    /\ revision \in Nat /\ corpusRevision \in Nat
    /\ writing \in [Writers -> WriterPlaces]
    /\ torn \subseteq Nat
    /\ entries \subseteq Entry
    /\ recency \in Seq(Key)
    /\ Len(recency) = Cardinality(entries) /\ Len(recency) <= MaxEntries
    /\ {recency[n] : n \in DOMAIN recency} = {e.key : e \in entries}
    /\ clock \in Nat
    /\ pc \in [Threads -> Places]
    /\ \A t \in Threads : pc[t] # "idle" => job[t] \in Jobs
    /\ writes \in Nat /\ asks \in Nat /\ faults \in Nat

Init ==
    /\ data = NoEvidence
    /\ revision = 0 /\ corpusRevision = 0
    /\ writing = [w \in Writers |-> "idle"]
    /\ torn = {}
    /\ entries = {} /\ recency = <<>>
    /\ clock = 0
    /\ pc = [t \in Threads |-> "idle"]
    /\ job = [t \in Threads |-> [evidence |-> NoEvidence, dirty |-> FALSE]]
    /\ writes = 0 /\ asks = 0 /\ faults = 0

-----------------------------------------------------------------------------
(* Writers.                                                                *)
Begin(w) == writing[w] = "idle" /\ writes < MaxWrites /\ writes' = writes + 1
At(w, place) == writing' = [writing EXCEPT ![w] = place]
Fault == faults < MaxFaults /\ faults' = faults + 1
Change(kinds) == data' = [k \in Kinds |-> IF k \in kinds THEN data[k] + 1 ELSE data[k]]
Requests == <<cache, clock, pc, job, asks>>

BumpRevision == revision' = revision + 1

(* Mutant: the lexical transaction does not advance the revision.           *)
BumpNothing == UNCHANGED <<revision, corpusRevision>>

(* A lexical transaction records the generation it creates.                 *)
BumpCorpus == BumpRevision /\ corpusRevision' = revision + 1

(* Store.save_fundamental bumps the revision in one transaction, then writes *)
(* the fact in another; a bump that raises is logged and the write goes on. *)
FundamentalBump(w) ==
    /\ Begin(w)
    /\ BumpRevision
    /\ At(w, "fundamental")
    /\ UNCHANGED <<data, corpusRevision, torn, faults, Requests>>

FundamentalBumpFails(w) ==
    /\ Begin(w)
    /\ Fault
    /\ At(w, "unbumped")
    /\ UNCHANGED <<stores, Requests>>

FundamentalCommit(w) ==
    /\ writing[w] \in {"fundamental", "unbumped"}
    /\ Change({"fundamental"})
    /\ torn' = IF writing[w] = "unbumped" THEN torn \cup {revision} ELSE torn
    /\ At(w, "idle")
    /\ UNCHANGED <<revision, corpusRevision, writes, faults, Requests>>

(* upsert_observation_record, upsert_event_record: one transaction.         *)
ObservationCommit(w) ==
    /\ Begin(w)
    /\ Change({"observation"})
    /\ BumpRevision
    /\ UNCHANGED <<corpusRevision, torn, writing, faults, Requests>>

(* upsert_sec_companyfacts, called by the CompanyFacts ingestor: no bump.   *)
CompanyFactsCommit(w) ==
    /\ Begin(w)
    /\ Change({"companyfacts"})
    /\ UNCHANGED <<revision, corpusRevision, torn, writing, faults, Requests>>

(* A document: lexical rows and bump in one transaction, then Chroma.       *)
DocumentCommit(w) ==
    /\ Begin(w)
    /\ Change({"rows"})
    /\ BumpCorpus
    /\ At(w, "embed")
    /\ UNCHANGED <<torn, faults, Requests>>

DocumentEmbed(w) ==
    /\ writing[w] = "embed"
    /\ Change({"vectors"})
    /\ At(w, "idle")
    /\ UNCHANGED <<revision, corpusRevision, torn, writes, faults, Requests>>

(* Chroma raises: the rows are marked 'error' and stop being searched.      *)
DocumentEmbedFails(w) ==
    /\ writing[w] = "embed"
    /\ Fault
    /\ Change({"rows"})
    /\ At(w, "idle")
    /\ UNCHANGED <<revision, corpusRevision, torn, writes, Requests>>

(* Store.run_retention: Chroma first, then the rows and the bump.           *)
RetentionPurge(w) ==
    /\ Begin(w)
    /\ Change({"vectors"})
    /\ At(w, "purge")
    /\ UNCHANGED <<revision, corpusRevision, torn, faults, Requests>>

RetentionExpire(w) ==
    /\ writing[w] = "purge"
    /\ Change({"rows"})
    /\ BumpCorpus
    /\ At(w, "idle")
    /\ UNCHANGED <<torn, writes, faults, Requests>>

(* None of the rows may be retired any more: nothing is written or bumped.  *)
RetentionFindsNothing(w) ==
    /\ writing[w] = "purge"
    /\ torn' = torn \cup {revision}
    /\ At(w, "idle")
    /\ UNCHANGED <<data, revision, corpusRevision, writes, faults, Requests>>

(* The writer dies inside its write; after a purge nothing bumps any more.  *)
WriterDies(w) ==
    /\ writing[w] # "idle"
    /\ Fault
    /\ torn' = IF writing[w] = "purge" THEN torn \cup {revision} ELSE torn
    /\ At(w, "idle")
    /\ UNCHANGED <<data, revision, corpusRevision, writes, Requests>>

Write(w) ==
    \/ FundamentalBump(w) \/ FundamentalBumpFails(w) \/ FundamentalCommit(w)
    \/ ObservationCommit(w) \/ CompanyFactsCommit(w)
    \/ DocumentCommit(w) \/ DocumentEmbed(w) \/ DocumentEmbedFails(w)
    \/ RetentionPurge(w) \/ RetentionExpire(w) \/ RetentionFindsNothing(w)
    \/ WriterDies(w)

-----------------------------------------------------------------------------
(* Requests.  A request is dirty once it has read evidence while a write    *)
(* was under way.                                                          *)
Database == <<stores, writing, clock, writes, faults>>
Writing == \E w \in Writers : writing[w] # "idle"

Step(t, from, to, j) ==
    /\ pc[t] = from
    /\ pc' = [pc EXCEPT ![t] = to]
    /\ job' = [job EXCEPT ![t] = j]

(* _retrieval_cache_key reads the two revisions in two transactions.        *)
ReadRevision(t, plan, refresh) ==
    /\ asks < MaxAsks /\ asks' = asks + 1
    /\ Step(t, "idle", "key",
            [key |-> [plan |-> plan, revision |-> revision, corpus |-> 0],
             refresh |-> refresh, evidence |-> NoEvidence, dirty |-> FALSE])
    /\ UNCHANGED <<cache, Database>>

BuildKey(t) ==
    /\ Step(t, "key", IF job[t].refresh THEN "facts" ELSE "probe",
            [job[t] EXCEPT !.key.corpus = corpusRevision])
    /\ UNCHANGED <<cache, Database, asks>>

(* RetrievalCache.get.                                                     *)
Found(t) == {e \in entries : e.key = job[t].key}
Fresh(e) == clock < e.expires
Others(key) == RemoveFirst(recency, key)

(* Mutant: a hit renews the entry.                                         *)
HitRenews(t) ==
    /\ pc[t] = "probe"
    /\ \E e \in Found(t) :
        /\ Fresh(e)
        /\ recency' = Append(Others(e.key), e.key)
        /\ entries' = (entries \ {e}) \cup {[e EXCEPT !.expires = clock + Ttl]}
        /\ Step(t, "probe", "hit",
                [job[t] EXCEPT !.evidence = e.evidence, !.dirty = e.dirty])
        /\ UNCHANGED <<Database, asks>>

Hit(t) ==
    /\ pc[t] = "probe"
    /\ \E e \in Found(t) :
        /\ Fresh(e)
        /\ recency' = Append(Others(e.key), e.key)
        /\ Step(t, "probe", "hit",
                [job[t] EXCEPT !.evidence = e.evidence, !.dirty = e.dirty])
        /\ UNCHANGED <<entries, Database, asks>>

Miss(t) ==
    /\ pc[t] = "probe"
    /\ \A e \in Found(t) : ~Fresh(e)
    /\ entries' = entries \ Found(t)
    /\ recency' = Others(job[t].key)
    /\ Step(t, "probe", "facts", job[t])
    /\ UNCHANGED <<Database, asks>>

(* The lane retrieves facts and documents one after the other.              *)
Read(t, kinds) ==
    [job[t] EXCEPT !.evidence = [k \in Kinds |-> IF k \in kinds THEN data[k] ELSE @[k]],
                   !.dirty = @ \/ Writing]

ReadFacts(t) ==
    /\ Step(t, "facts", "documents", Read(t, Facts))
    /\ UNCHANGED <<cache, Database, asks>>

ReadDocuments(t) ==
    /\ Step(t, "documents", "store", Read(t, Documents))
    /\ UNCHANGED <<cache, Database, asks>>

(* RetrievalCache.set: the newest entry goes last and, over the limit, the  *)
(* least recently used one goes; a value too large drops what the key had.  *)
(* (fits)                                                                  *)
NewEntry(t) ==
    [key |-> job[t].key, evidence |-> job[t].evidence, dirty |-> job[t].dirty,
     stored |-> clock, expires |-> clock + Ttl]

(* Mutant: the entry about to be replaced counts, so the cache grows by one. *)
EvictLate(order) == Len(order) > MaxEntries + 1

Evict(order) == Len(order) > MaxEntries

Insert(t) ==
    LET key   == job[t].key
        order == Append(Others(key), key)
        kept  == {e \in entries : e.key # key} \cup {NewEntry(t)}
    IN  /\ recency' = IF Evict(order) THEN Tail(order) ELSE order
        /\ entries' = IF Evict(order) THEN {e \in kept : e.key # Head(order)} ELSE kept

Store(t, fits) ==
    /\ Step(t, "store", "idle", job[t])
    /\ IF fits THEN Insert(t)
               ELSE /\ entries' = entries \ Found(t)
                    /\ recency' = Others(job[t].key)
    /\ UNCHANGED <<Database, asks>>

Answer(t) ==
    /\ Step(t, "hit", "idle", job[t])
    /\ UNCHANGED <<cache, Database, asks>>

Ask(t) ==
    \/ \E plan \in Plans, refresh \in BOOLEAN : ReadRevision(t, plan, refresh)
    \/ BuildKey(t) \/ Hit(t) \/ Miss(t) \/ ReadFacts(t) \/ ReadDocuments(t)
    \/ \E fits \in BOOLEAN : Store(t, fits)
    \/ Answer(t)

Tick ==
    /\ clock < MaxClock
    /\ clock' = clock + 1
    /\ UNCHANGED <<stores, writing, cache, pc, job, spent>>

Next ==
    \/ \E w \in Writers : Write(w)
    \/ \E t \in Threads : Ask(t)
    \/ Tick

Spec == Init /\ [][Next]_vars

-----------------------------------------------------------------------------
Current(key) == key.revision = revision

(***************************************************************************)
(* Evidence read while no write was under way is served only while it is   *)
(* current: an entry a request could hit now, when no write is under way,  *)
(* holds the present version of everything but CompanyFacts.  A revision   *)
(* is torn when a bump failed under it or a retention run died after       *)
(* deleting from Chroma.  (Store._bump_revision and the writers it guards; *)
(* build_cache_key)                                                        *)
(***************************************************************************)
QuietReadIsCurrent ==
    \A e \in entries :
        Current(e.key) /\ ~e.dirty /\ ~Writing /\ revision \notin torn =>
            \A k \in Kinds \ {"companyfacts"} : e.evidence[k] = data[k]

(* "A TTL bounds staleness even if a revision bump is somehow missed": no   *)
(* request is answered from evidence stored Ttl or longer ago, however     *)
(* often it was hit in between (RetrievalCache.get).                       *)
HitIsYoung ==
    [][\A t \in Threads : pc[t] = "probe" /\ pc'[t] = "hit" =>
           \E e \in entries : /\ e.key = job[t].key
                              /\ e.evidence = job'[t].evidence
                              /\ clock - e.stored < Ttl]_vars

(* "Direct SQLite writers that bypass this facade (e.g. the SEC CompanyFacts *)
(* ingestor ...) MUST call bump_retrieval_revision themselves": a hit has  *)
(* the CompanyFacts of now.                                                *)
HitKnowsCompanyFacts ==
    [][\A t \in Threads : pc[t] = "probe" /\ pc'[t] = "hit" =>
           job'[t].evidence["companyfacts"] = data["companyfacts"]]_vars

=============================================================================
