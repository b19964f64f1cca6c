------------------------ MODULE RetrievalCacheProofs ------------------------
(***************************************************************************)
(* Theorems about RetrievalCache, for any number of requests, writers,     *)
(* plans, writes and faults, and any size and TTL of the cache.            *)
(***************************************************************************)
EXTENDS RetrievalCache, SequenceTheorems, FiniteSetTheorems, TLAPS

(* What the proofs need of the types.                                      *)
Typed ==
    /\ data \in Evidence
    /\ revision \in Nat /\ corpusRevision \in Nat /\ clock \in Nat
    /\ writing \in [Writers -> WriterPlaces]
    /\ entries \subseteq Entry
    /\ pc \in [Threads -> Places]
    /\ DOMAIN job = Threads
    /\ \A t \in Threads : pc[t] # "idle" => job[t] \in Jobs

(* Evidence that was read while nothing was written, under the revision    *)
(* that is still the store's.  While such evidence exists, the only writes *)
(* under way are those that have not bumped the revision.                  *)
Clean(key, dirty) == Current(key) /\ ~dirty /\ revision \notin torn
OnlyUnbumped == \A w \in Writers : writing[w] \in {"idle", "unbumped", "purge"}
Purging == \E w \in Writers : writing[w] = "purge"

FactsSame(ev) ==
    ev["fundamental"] = data["fundamental"] /\ ev["observation"] = data["observation"]
DocumentsSame(ev) ==
    ev["rows"] = data["rows"] /\ (ev["vectors"] = data["vectors"] \/ Purging)

KeysFromPast ==
    /\ \A e \in entries : e.key.revision <= revision
    /\ \A t \in Threads : pc[t] # "idle" => job[t].key.revision <= revision

EntriesClean ==
    \A e \in entries : Clean(e.key, e.dirty) =>
        OnlyUnbumped /\ FactsSame(e.evidence) /\ DocumentsSame(e.evidence)

JobsClean ==
    \A t \in Threads :
        pc[t] \in {"documents", "store"} /\ Clean(job[t].key, job[t].dirty) =>
            /\ OnlyUnbumped /\ FactsSame(job[t].evidence)
            /\ pc[t] = "store" => DocumentsSame(job[t].evidence)

EntriesTimed == \A e \in entries : e.expires = e.stored + Ttl

IInv == Typed /\ KeysFromPast /\ EntriesClean /\ JobsClean /\ EntriesTimed

-----------------------------------------------------------------------------
LEMMA ChangeTypes ==
    ASSUME Typed, NEW kinds, Change(kinds)
    PROVE  data' \in Evidence /\ \A k \in Kinds \ kinds : data'[k] = data[k]
  BY DEF Change, Typed, Evidence

LEMMA AtTypes ==
    ASSUME Typed, NEW w \in Writers, NEW place \in WriterPlaces, At(w, place)
    PROVE  /\ writing' \in [Writers -> WriterPlaces]
           /\ writing'[w] = place
           /\ \A u \in Writers : u # w => writing'[u] = writing[u]
  BY DEF At, Typed

LEMMA WriteTypes ==
    ASSUME Typed, NEW w \in Writers, Write(w)
    PROVE  Typed' /\ UNCHANGED <<entries, pc, job>> /\ revision' \in {revision, revision + 1}
<1> USE DEF WriterPlaces
<1>1. /\ data' = data \/ \E kinds : Change(kinds)
      /\ writing' = writing \/ \E place \in WriterPlaces : At(w, place)
      /\ revision' \in {revision, revision + 1}
      /\ corpusRevision' \in {corpusRevision, revision + 1}
      /\ UNCHANGED <<entries, pc, job, clock>>
  BY DEF Write, FundamentalBump, FundamentalBumpFails, FundamentalCommit,
         ObservationCommit, CompanyFactsCommit, DocumentCommit, DocumentEmbed,
         DocumentEmbedFails, RetentionPurge, RetentionExpire, RetentionFindsNothing,
         WriterDies, BumpCorpus, BumpRevision, stores, Requests, cache
<1>2. data' \in Evidence
  BY <1>1, ChangeTypes DEF Typed
<1>3. writing' \in [Writers -> WriterPlaces]
  BY <1>1, AtTypes DEF Typed
<1> QED BY <1>1, <1>2, <1>3 DEF Typed

(* After a bump no entry and no request in progress has a current key.      *)
LEMMA BumpOutdates ==
    ASSUME IInv, Typed', UNCHANGED <<entries, pc, job>>, revision' = revision + 1
    PROVE  IInv'
<1>1. KeysFromPast'
  BY DEF IInv, KeysFromPast, Typed, Entry, Jobs, Key
<1>2. \A e \in entries : ~Current(e.key)'
  BY DEF IInv, KeysFromPast, Typed, Entry, Key, Current
<1>3. \A t \in Threads : pc[t] # "idle" => ~Current(job[t].key)'
  BY DEF IInv, KeysFromPast, Typed, Jobs, Key, Current
<1>4. EntriesClean' /\ JobsClean'
  BY <1>2, <1>3 DEF EntriesClean, JobsClean, Clean
<1> QED BY <1>1, <1>4 DEF IInv, EntriesTimed

(* A write that does not bump: whatever was clean still is, or no longer    *)
(* has a revision that counts.                                             *)
LEMMA WriteKeepsClean ==
    ASSUME IInv, Typed', UNCHANGED <<entries, pc, job, revision>>,
           torn \subseteq torn',
           OnlyUnbumped /\ revision \notin torn' =>
               /\ OnlyUnbumped'
               /\ \A k \in {"fundamental", "observation", "rows"} : data'[k] = data[k]
               /\ data'["vectors"] = data["vectors"] \/ Purging'
               /\ Purging => Purging'
    PROVE  IInv'
<1>1. KeysFromPast'
  BY DEF IInv, KeysFromPast
<1>2. EntriesClean'
  BY DEF IInv, EntriesClean, Clean, Current, FactsSame, DocumentsSame
<1>3. JobsClean'
  BY DEF IInv, JobsClean, Clean, Current, FactsSame, DocumentsSame
<1> QED BY <1>1, <1>2, <1>3 DEF IInv, EntriesTimed

LEMMA WriteInv ==
    ASSUME IInv, NEW w \in Writers, Write(w)
    PROVE  IInv'
<1>1. Typed /\ Typed' /\ UNCHANGED <<entries, pc, job>>
  BY WriteTypes DEF IInv
<1>2. CASE revision' = revision + 1
  BY <1>1, <1>2, BumpOutdates
<1> DEFINE Kept == OnlyUnbumped /\ revision \notin torn' =>
               /\ OnlyUnbumped'
               /\ \A k \in {"fundamental", "observation", "rows"} : data'[k] = data[k]
               /\ data'["vectors"] = data["vectors"] \/ Purging'
               /\ Purging => Purging'
<1>3. CASE FundamentalBumpFails(w)
  <2>1. UNCHANGED <<data, revision, torn>> /\ writing[w] = "idle"
    BY <1>3 DEF FundamentalBumpFails, stores, Begin
  <2>2. /\ writing'[w] = "unbumped"
        /\ \A u \in Writers : u # w => writing'[u] = writing[u]
    BY <1>1, <1>3, AtTypes DEF FundamentalBumpFails, WriterPlaces
  <2>3. Kept
    BY <2>1, <2>2 DEF OnlyUnbumped, Purging
  <2> QED BY <1>1, <2>1, <2>3, WriteKeepsClean
<1>4. CASE FundamentalCommit(w)
  <2>1. revision' = revision /\ torn \subseteq torn'
    BY <1>4 DEF FundamentalCommit
  <2>2. Kept
    BY <1>4 DEF FundamentalCommit, OnlyUnbumped
  <2> QED BY <1>1, <2>1, <2>2, WriteKeepsClean
<1>5. CASE CompanyFactsCommit(w)
  <2>1. UNCHANGED <<revision, torn, writing>>
    BY <1>5 DEF CompanyFactsCommit
  <2>2. \A k \in Kinds \ {"companyfacts"} : data'[k] = data[k]
    BY <1>1, <1>5, ChangeTypes DEF CompanyFactsCommit
  <2>3. Kept
    BY <2>1, <2>2 DEF OnlyUnbumped, Purging, Kinds, Facts, Documents
  <2> QED BY <1>1, <2>1, <2>3, WriteKeepsClean
<1>6. CASE DocumentEmbed(w) \/ DocumentEmbedFails(w)
  <2>1. UNCHANGED <<revision, torn>> /\ writing[w] = "embed"
    BY <1>6 DEF DocumentEmbed, DocumentEmbedFails
  <2>2. Kept
    BY <2>1 DEF OnlyUnbumped
  <2> QED BY <1>1, <2>1, <2>2, WriteKeepsClean
<1>7. CASE RetentionPurge(w)
  <2>1. UNCHANGED <<revision, torn>> /\ writing[w] = "idle"
    BY <1>7 DEF RetentionPurge, Begin
  <2>2. /\ writing'[w] = "purge"
        /\ \A u \in Writers : u # w => writing'[u] = writing[u]
    BY <1>1, <1>7, AtTypes DEF RetentionPurge, WriterPlaces
  <2>3. \A k \in Kinds \ {"vectors"} : data'[k] = data[k]
    BY <1>1, <1>7, ChangeTypes DEF RetentionPurge
  <2>4. Kept
    BY <2>1, <2>2, <2>3 DEF OnlyUnbumped, Purging, Kinds, Facts, Documents
  <2> QED BY <1>1, <2>1, <2>4, WriteKeepsClean
<1>8. CASE RetentionFindsNothing(w)
  <2>1. revision' = revision /\ torn' = torn \cup {revision}
    BY <1>8 DEF RetentionFindsNothing
  <2> QED BY <1>1, <2>1, WriteKeepsClean
<1>9. CASE WriterDies(w)
  <2>1. UNCHANGED <<data, revision>> /\ torn \subseteq torn'
    BY <1>9 DEF WriterDies
  <2>2. /\ writing'[w] = "idle"
        /\ \A u \in Writers : u # w => writing'[u] = writing[u]
    BY <1>1, <1>9, AtTypes DEF WriterDies, WriterPlaces
  <2>3. Kept
    BY <1>9, <2>1, <2>2 DEF WriterDies, OnlyUnbumped, Purging
  <2> QED BY <1>1, <2>1, <2>3, WriteKeepsClean
<1> QED BY <1>2, <1>3, <1>4, <1>5, <1>6, <1>7, <1>8, <1>9
        DEF Write, FundamentalBump, ObservationCommit, DocumentCommit, RetentionExpire,
            BumpCorpus, BumpRevision

-----------------------------------------------------------------------------
LEMMA StepTypes ==
    ASSUME Typed, NEW t \in Threads, NEW from \in Places, NEW to \in Places,
           NEW j \in Jobs, Step(t, from, to, j)
    PROVE  /\ pc' \in [Threads -> Places] /\ DOMAIN job' = Threads
           /\ pc[t] = from /\ pc'[t] = to /\ job'[t] = j
           /\ \A u \in Threads : u # t => pc'[u] = pc[u] /\ job'[u] = job[u]
  BY DEF Step, Typed

(* A request's step that leaves the database alone: what is left to show is *)
(* what it says of the entries and of its own locals.                      *)
LEMMA RequestInv ==
    ASSUME IInv, UNCHANGED Database, NEW t \in Threads, NEW from \in Places,
           NEW to \in Places, NEW j \in Jobs, Step(t, from, to, j),
           j.key.revision <= revision,
           entries' \subseteq Entry,
           \A e \in entries' \ entries :
               /\ e.key.revision <= revision /\ e.expires = e.stored + Ttl
               /\ Clean(e.key, e.dirty) =>
                     OnlyUnbumped /\ FactsSame(e.evidence) /\ DocumentsSame(e.evidence),
           to \in {"documents", "store"} /\ Clean(j.key, j.dirty) =>
               /\ OnlyUnbumped /\ FactsSame(j.evidence)
               /\ to = "store" => DocumentsSame(j.evidence)
    PROVE  IInv'
<1>1. UNCHANGED <<data, revision, corpusRevision, torn, writing, clock>>
  BY DEF Database, stores
<1>2. /\ pc' \in [Threads -> Places] /\ DOMAIN job' = Threads
      /\ pc'[t] = to /\ job'[t] = j
      /\ \A u \in Threads : u # t => pc'[u] = pc[u] /\ job'[u] = job[u]
  BY StepTypes DEF IInv
<1>3. Typed'
  BY <1>1, <1>2 DEF IInv, Typed
<1>4. KeysFromPast' /\ EntriesTimed'
  BY <1>1, <1>2 DEF IInv, KeysFromPast, EntriesTimed
<1>5. EntriesClean'
  BY <1>1 DEF IInv, EntriesClean, Clean, Current, OnlyUnbumped, FactsSame, DocumentsSame,
              Purging
<1>6. JobsClean'
  BY <1>1, <1>2 DEF IInv, JobsClean, Clean, Current, OnlyUnbumped, FactsSame,
                    DocumentsSame, Purging
<1> QED BY <1>3, <1>4, <1>5, <1>6 DEF IInv

LEMMA JobInFlight ==
    ASSUME IInv, NEW t \in Threads, pc[t] # "idle"
    PROVE  /\ job[t] \in Jobs /\ job[t].key \in Key /\ job[t].key.revision <= revision
           /\ job[t].evidence \in Evidence /\ job[t].dirty \in BOOLEAN
  BY DEF IInv, Typed, KeysFromPast, Jobs

LEMMA ReadShape ==
    ASSUME IInv, NEW t \in Threads, pc[t] # "idle", NEW kinds
    PROVE  /\ Read(t, kinds) \in Jobs
           /\ Read(t, kinds).key = job[t].key
           /\ \A k \in Kinds : Read(t, kinds).evidence[k] =
                                    IF k \in kinds THEN data[k] ELSE job[t].evidence[k]
           /\ ~Read(t, kinds).dirty => ~job[t].dirty /\ ~Writing
<1>1. job[t] \in Jobs /\ job[t].evidence \in Evidence /\ data \in Evidence
  BY JobInFlight DEF IInv, Typed
<1>2. [k \in Kinds |-> IF k \in kinds THEN data[k] ELSE job[t].evidence[k]] \in Evidence
  BY <1>1 DEF Evidence
<1>3. (job[t].dirty \/ Writing) \in BOOLEAN
  BY <1>1 DEF Jobs, Writing
<1> QED BY <1>1, <1>2, <1>3 DEF Read, Jobs

LEMMA QuietMeansIdle ==
    ASSUME ~Writing
    PROVE  OnlyUnbumped /\ ~Purging
  BY DEF Writing, OnlyUnbumped, Purging

LEMMA AskInv ==
    ASSUME IInv, NEW t \in Threads, Ask(t)
    PROVE  IInv'
<1> USE DEF Places
<1>0. entries \subseteq Entry /\ entries \ entries = {} /\ revision \in Nat
      /\ corpusRevision \in Nat /\ clock \in Nat /\ Ttl \in Nat /\ data \in Evidence
  BY ConstantsAssumption DEF IInv, Typed
<1>1. ASSUME NEW plan \in Plans, NEW refresh \in BOOLEAN, ReadRevision(t, plan, refresh)
      PROVE  IInv'
  <2> DEFINE j == [key |-> [plan |-> plan, revision |-> revision, corpus |-> 0],
                   refresh |-> refresh, evidence |-> NoEvidence, dirty |-> FALSE]
  <2>1. j \in Jobs /\ j.key.revision <= revision
    BY <1>0 DEF Jobs, Key, NoEvidence, Evidence
  <2>2. Step(t, "idle", "key", j) /\ UNCHANGED Database /\ entries' = entries
    BY <1>1 DEF ReadRevision, cache
  <2> HIDE DEF j
  <2> QED BY <1>0, <2>1, <2>2, RequestInv
<1>2. CASE BuildKey(t)
  <2> DEFINE j == [job[t] EXCEPT !.key.corpus = corpusRevision]
  <2>1. pc[t] = "key" /\ UNCHANGED Database /\ entries' = entries
    BY <1>2 DEF BuildKey, Step, cache
  <2>2. j \in Jobs /\ j.key.revision = job[t].key.revision
    BY <1>0, <2>1, JobInFlight DEF Jobs, Key
  <2>3. PICK to \in {"facts", "probe"} : Step(t, "key", to, j)
    BY <1>2 DEF BuildKey
  <2> HIDE DEF j
  <2> QED BY <1>0, <2>1, <2>2, <2>3, JobInFlight, RequestInv
<1>3. CASE Hit(t)
  <2>1. PICK e \in entries :
           Step(t, "probe", "hit", [job[t] EXCEPT !.evidence = e.evidence, !.dirty = e.dirty])
    BY <1>3 DEF Hit, Found
  <2> DEFINE j == [job[t] EXCEPT !.evidence = e.evidence, !.dirty = e.dirty]
  <2>2. pc[t] = "probe" /\ UNCHANGED Database /\ entries' = entries
    BY <1>3 DEF Hit
  <2>3. j \in Jobs /\ j.key = job[t].key
    BY <1>0, <2>2, JobInFlight DEF Jobs, Entry
  <2> HIDE DEF j
  <2> QED BY <1>0, <2>1, <2>2, <2>3, JobInFlight, RequestInv DEF j
<1>4. CASE Miss(t)
  <2>1. /\ pc[t] = "probe" /\ UNCHANGED Database /\ entries' \subseteq entries
        /\ Step(t, "probe", "facts", job[t])
    BY <1>4 DEF Miss
  <2> QED BY <1>0, <2>1, JobInFlight, RequestInv
<1>5. CASE ReadFacts(t)
  <2>1. /\ pc[t] = "facts" /\ UNCHANGED Database /\ entries' = entries
        /\ Step(t, "facts", "documents", Read(t, Facts))
    BY <1>5 DEF ReadFacts, Step, cache
  <2>2. /\ Read(t, Facts) \in Jobs /\ Read(t, Facts).key.revision <= revision
        /\ FactsSame(Read(t, Facts).evidence)
        /\ ~Read(t, Facts).dirty => OnlyUnbumped
    BY <2>1, ReadShape, JobInFlight, QuietMeansIdle DEF FactsSame, Facts, Kinds
  <2> QED BY <1>0, <2>1, <2>2, RequestInv DEF Clean
<1>6. CASE ReadDocuments(t)
  <2>1. /\ pc[t] = "documents" /\ UNCHANGED Database /\ entries' = entries
        /\ Step(t, "documents", "store", Read(t, Documents))
    BY <1>6 DEF ReadDocuments, Step, cache
  <2>2. /\ Read(t, Documents) \in Jobs /\ Read(t, Documents).key = job[t].key
        /\ Read(t, Documents).key.revision <= revision
        /\ DocumentsSame(Read(t, Documents).evidence)
        /\ ~Read(t, Documents).dirty => ~job[t].dirty /\ OnlyUnbumped
    BY <2>1, ReadShape, JobInFlight, QuietMeansIdle DEF DocumentsSame, Documents, Kinds
  <2>3. /\ Read(t, Documents).evidence["fundamental"] = job[t].evidence["fundamental"]
        /\ Read(t, Documents).evidence["observation"] = job[t].evidence["observation"]
    BY <2>1, ReadShape DEF Kinds, Facts, Documents
  <2>4. Clean(Read(t, Documents).key, Read(t, Documents).dirty)
            => FactsSame(Read(t, Documents).evidence)
    BY <2>1, <2>2, <2>3 DEF IInv, JobsClean, Clean, FactsSame
  <2> QED BY <1>0, <2>1, <2>2, <2>4, RequestInv DEF Clean
<1>7. ASSUME NEW fits \in BOOLEAN, Store(t, fits)
      PROVE  IInv'
  <2>1. pc[t] = "store" /\ UNCHANGED Database /\ Step(t, "store", "idle", job[t])
    BY <1>7 DEF Store, Step
  <2>2. entries' \subseteq entries \cup {NewEntry(t)}
    BY <1>7 DEF Store, Insert
  <2>3. /\ NewEntry(t) \in Entry
        /\ NewEntry(t).key = job[t].key /\ NewEntry(t).evidence = job[t].evidence
        /\ NewEntry(t).dirty = job[t].dirty
        /\ NewEntry(t).expires = NewEntry(t).stored + Ttl
    BY <1>0, <2>1, JobInFlight DEF NewEntry, Entry
  <2>4. Clean(job[t].key, job[t].dirty) =>
            /\ OnlyUnbumped /\ FactsSame(job[t].evidence) /\ DocumentsSame(job[t].evidence)
    BY <2>1 DEF IInv, JobsClean
  <2> QED BY <1>0, <2>1, <2>2, <2>3, <2>4, JobInFlight, RequestInv
<1>8. CASE Answer(t)
  <2>1. /\ pc[t] = "hit" /\ UNCHANGED Database /\ entries' = entries
        /\ Step(t, "hit", "idle", job[t])
    BY <1>8 DEF Answer, Step, cache
  <2> QED BY <1>0, <2>1, JobInFlight, RequestInv
<1> QED BY <1>1, <1>2, <1>3, <1>4, <1>5, <1>6, <1>7, <1>8 DEF Ask

LEMMA InvBegins == Init => IInv
  BY DEF Init, IInv, Typed, KeysFromPast, EntriesClean, JobsClean, EntriesTimed,
         NoEvidence, Evidence, WriterPlaces, Places

LEMMA InvStep ==
    ASSUME IInv, [Next]_vars
    PROVE  IInv'
<1>1. CASE Tick \/ UNCHANGED vars
  <2>1. UNCHANGED <<data, revision, corpusRevision, torn, writing, entries, pc, job>>
        /\ clock' \in Nat
    BY <1>1 DEF Tick, vars, stores, cache, IInv, Typed
  <2> QED BY <2>1 DEF IInv, Typed, KeysFromPast, EntriesClean, JobsClean, EntriesTimed,
                      Clean, Current, OnlyUnbumped, Purging, FactsSame, DocumentsSame
<1> QED BY <1>1, WriteInv, AskInv DEF Next

LEMMA Inductive == Spec => []IInv
  BY InvBegins, InvStep, PTL DEF Spec

(* Evidence read while nothing was being written is served only while it is *)
(* current, CompanyFacts and torn revisions apart.                         *)
THEOREM QuietReads == Spec => []QuietReadIsCurrent
<1>1. IInv => QuietReadIsCurrent
  <2> SUFFICES ASSUME IInv, NEW e \in entries, Current(e.key), ~e.dirty, ~Writing,
                      revision \notin torn
               PROVE  \A k \in Kinds \ {"companyfacts"} : e.evidence[k] = data[k]
    BY DEF QuietReadIsCurrent
  <2>1. FactsSame(e.evidence) /\ DocumentsSame(e.evidence) /\ ~Purging
    BY QuietMeansIdle DEF IInv, EntriesClean, Clean
  <2> QED BY <2>1 DEF FactsSame, DocumentsSame, Kinds, Facts, Documents
<1> QED BY <1>1, Inductive, PTL

(* No request is answered from evidence stored Ttl or longer ago.           *)
THEOREM YoungHits == Spec => HitIsYoung
<1> DEFINE Young == \A t \in Threads : pc[t] = "probe" /\ pc'[t] = "hit" =>
               \E e \in entries : /\ e.key = job[t].key
                                  /\ e.evidence = job'[t].evidence
                                  /\ clock - e.stored < Ttl
<1>1. IInv /\ [Next]_vars => [Young]_vars
  <2> SUFFICES ASSUME IInv, Next, NEW t \in Threads, pc[t] = "probe", pc'[t] = "hit"
               PROVE  \E e \in entries : /\ e.key = job[t].key
                                         /\ e.evidence = job'[t].evidence
                                         /\ clock - e.stored < Ttl
    OBVIOUS
  <2>1. Hit(t)
    <3>1. PICK u \in Threads : Ask(u)
      BY WriteTypes DEF Next, Tick, IInv
    <3>2. u = t
      BY <3>1 DEF IInv, Typed, Ask, ReadRevision, BuildKey, Hit, Miss, ReadFacts,
                  ReadDocuments, Store, Answer, Step
    <3> QED BY <3>1, <3>2 DEF IInv, Typed, Ask, ReadRevision, BuildKey, Miss, ReadFacts,
                  ReadDocuments, Store, Answer, Step
  <2>2. PICK e \in Found(t) :
           /\ Fresh(e)
           /\ Step(t, "probe", "hit", [job[t] EXCEPT !.evidence = e.evidence, !.dirty = e.dirty])
    BY <2>1 DEF Hit
  <2>3. job'[t].evidence = e.evidence
    BY <2>2, JobInFlight DEF Step, IInv, Typed, Jobs
  <2>4. clock - e.stored < Ttl
    BY <2>2, ConstantsAssumption DEF Fresh, Found, IInv, EntriesTimed, Typed, Entry
  <2> QED BY <2>2, <2>3, <2>4 DEF Found
<1> QED BY <1>1, Inductive, PTL DEF Spec, HitIsYoung

-----------------------------------------------------------------------------
(* The OrderedDict: its entries and the order of their keys stay in step.   *)

Distinct(s) == \A m, n \in 1..Len(s) : s[m] = s[n] => m = n
KeysOf(s) == {s[n] : n \in 1..Len(s)}

Tidy(s, E) ==
    /\ s \in Seq(Key) /\ Distinct(s)
    /\ \A d, e \in E : d.key = e.key => d = e
    /\ KeysOf(s) = {e.key : e \in E}

(* Taking a key out of an order that holds each key once.                   *)
LEMMA Removed ==
    ASSUME NEW S, NEW s \in Seq(S), Distinct(s), NEW x
    PROVE  LET r == RemoveFirst(s, x)
           IN /\ r \in Seq(S) /\ Distinct(r) /\ KeysOf(r) = KeysOf(s) \ {x}
              /\ Len(r) \in Nat
              /\ Len(r) = IF x \in KeysOf(s) THEN Len(s) - 1 ELSE Len(s)
<1> DEFINE r == RemoveFirst(s, x)
<1>0. PICK n \in Nat : n = Len(s)
  BY LenProperties
<1>1. CASE x \notin KeysOf(s)
  <2>1. r = s
    BY <1>1 DEF RemoveFirst, KeysOf
  <2> QED BY <1>0, <1>1, <2>1 DEF KeysOf
<1>2. CASE x \in KeysOf(s)
  <2>1. PICK m \in 1..n : s[m] = x
    BY <1>0, <1>2 DEF KeysOf
  <2>2. {i \in 1..Len(s) : s[i] = x} = {m}
    BY <1>0, <2>1 DEF Distinct
  <2>3. Min({m}) = m
    BY <2>1 DEF Min
  <2>4. r = SubSeq(s, 1, m - 1) \o SubSeq(s, m + 1, n)
    BY <1>0, <2>1, <2>2, <2>3 DEF RemoveFirst, RemoveAt, SelectInSeq
  <2>5. \A i \in 1..n : s[i] \in S
    BY <1>0, ElementOfSeq
  <2> DEFINE a == SubSeq(s, 1, m - 1)
             b == SubSeq(s, m + 1, n)
  <2>6. /\ a \in Seq(S) /\ Len(a) = m - 1
        /\ \A i \in 1..(m - 1) : a[i] = s[i]
    <3>1. 1 \in Int /\ m - 1 \in Int /\ \A i \in 1..(m - 1) : s[i] \in S
      BY <2>1, <2>5
    <3>2. /\ a \in Seq(S) /\ Len(a) = IF 1 <= m - 1 THEN (m - 1) - 1 + 1 ELSE 0
          /\ \A i \in 1..((m - 1) - 1 + 1) : a[i] = s[1 + i - 1]
      BY <3>1, SubSeqProperties
    <3> HIDE DEF a
    <3> QED BY <3>2
  <2>7. /\ b \in Seq(S) /\ Len(b) = n - m
        /\ \A i \in 1..(n - m) : b[i] = s[m + i]
    <3>1. m + 1 \in Int /\ n \in Int /\ \A i \in (m + 1)..n : s[i] \in S
      BY <2>1, <2>5
    <3>2. /\ b \in Seq(S) /\ Len(b) = IF m + 1 <= n THEN n - (m + 1) + 1 ELSE 0
          /\ \A i \in 1..(n - (m + 1) + 1) : b[i] = s[(m + 1) + i - 1]
      BY <3>1, SubSeqProperties
    <3> HIDE DEF b
    <3> QED BY <3>2
  <2> HIDE DEF a, b
  <2>8. /\ r \in Seq(S) /\ Len(r) = n - 1
        /\ \A i \in 1..(n - 1) : r[i] = IF i < m THEN s[i] ELSE s[i + 1]
    <3>1. /\ r \in Seq(S) /\ Len(r) = (m - 1) + (n - m)
          /\ \A i \in 1..((m - 1) + (n - m)) :
               r[i] = IF i <= m - 1 THEN a[i] ELSE b[i - (m - 1)]
      <4>1. r = a \o b
        BY <2>4 DEF a, b
      <4> HIDE DEF r
      <4>2. /\ r \in Seq(S) /\ Len(r) = Len(a) + Len(b)
            /\ \A i \in 1..(Len(a) + Len(b)) :
                 r[i] = IF i <= Len(a) THEN a[i] ELSE b[i - Len(a)]
        BY <2>6, <2>7, <4>1, ConcatProperties
      <4> QED BY <2>6, <2>7, <4>2
    <3>2. (m - 1) + (n - m) = n - 1
      OBVIOUS
    <3> HIDE DEF r
    <3>3. ASSUME NEW i \in 1..(n - 1) PROVE r[i] = IF i < m THEN s[i] ELSE s[i + 1]
      <4>1. CASE i < m
        <5>1. i <= m - 1 /\ i \in 1..(m - 1)
          BY <4>1
        <5> QED BY <2>6, <3>1, <3>2, <4>1, <5>1
      <4>2. CASE ~(i < m)
        <5>1. ~(i <= m - 1) /\ i - (m - 1) \in 1..(n - m) /\ m + (i - (m - 1)) = i + 1
          BY <4>2
        <5>2. b[i - (m - 1)] = s[i + 1]
          BY <2>7, <5>1
        <5> QED BY <3>1, <3>2, <4>2, <5>1, <5>2
      <4> QED BY <4>1, <4>2
    <3> QED BY <3>1, <3>2, <3>3
  <2> HIDE DEF r
  <2>9. Distinct(r)
    <3> SUFFICES ASSUME NEW i \in 1..(n - 1), NEW j \in 1..(n - 1), r[i] = r[j]
                 PROVE  i = j
      BY <2>8 DEF Distinct
    <3>1. PICK k \in 1..n : k = (IF i < m THEN i ELSE i + 1) /\ r[i] = s[k]
      BY <2>8
    <3>2. PICK l \in 1..n : l = (IF j < m THEN j ELSE j + 1) /\ r[j] = s[l]
      BY <2>8
    <3>3. k = l
      BY <1>0, <3>1, <3>2 DEF Distinct
    <3> QED BY <3>1, <3>2, <3>3
  <2>10. KeysOf(r) = KeysOf(s) \ {x}
    <3>1. ASSUME NEW i \in 1..(n - 1) PROVE r[i] \in KeysOf(s) \ {x}
      <4>1. PICK k \in 1..n : k # m /\ r[i] = s[k]
        BY <2>8
      <4> QED BY <1>0, <2>1, <4>1 DEF KeysOf, Distinct
    <3>2. ASSUME NEW k \in 1..n, k # m PROVE s[k] \in KeysOf(r)
      <4>1. PICK i \in 1..(n - 1) : i = IF k < m THEN k ELSE k - 1
        BY <3>2
      <4>2. r[i] = s[k]
        BY <2>8, <3>2, <4>1
      <4> QED BY <2>8, <4>2 DEF KeysOf
    <3> QED BY <1>0, <2>1, <2>8, <3>1, <3>2 DEF KeysOf
  <2> QED BY <1>0, <1>2, <2>8, <2>9, <2>10 DEF r
<1> QED BY <1>1, <1>2

LEMMA RemoveTidy ==
    ASSUME NEW s, NEW E, Tidy(s, E), NEW x
    PROVE  LET r == RemoveFirst(s, x)
           IN /\ Tidy(r, {e \in E : e.key # x}) /\ x \notin KeysOf(r) /\ Len(r) \in Nat
              /\ Len(r) = IF x \in KeysOf(s) THEN Len(s) - 1 ELSE Len(s)
<1> DEFINE r == RemoveFirst(s, x)
           kept == {e \in E : e.key # x}
<1>1. /\ r \in Seq(Key) /\ Distinct(r) /\ KeysOf(r) = KeysOf(s) \ {x} /\ Len(r) \in Nat
      /\ Len(r) = IF x \in KeysOf(s) THEN Len(s) - 1 ELSE Len(s)
  BY Removed DEF Tidy
<1> HIDE DEF r
<1>2. {e.key : e \in kept} = {e.key : e \in E} \ {x}
  OBVIOUS
<1>3. \A d, e \in kept : d.key = e.key => d = e
  BY DEF Tidy
<1> HIDE DEF kept
<1>4. Tidy(r, kept) /\ x \notin KeysOf(r)
  BY <1>1, <1>2, <1>3 DEF Tidy
<1> QED BY <1>1, <1>4 DEF r, kept

LEMMA AppendTidy ==
    ASSUME NEW s, NEW E, Tidy(s, E), NEW d, d.key \in Key, d.key \notin KeysOf(s)
    PROVE  Tidy(Append(s, d.key), E \cup {d}) /\ Len(Append(s, d.key)) = Len(s) + 1
<1> DEFINE r == Append(s, d.key)
<1>1. PICK n \in Nat : n = Len(s)
  BY LenProperties DEF Tidy
<1>2. r \in Seq(Key) /\ Len(r) = n + 1 /\ r[n + 1] = d.key /\ \A i \in 1..n : r[i] = s[i]
  BY <1>1, AppendProperties DEF Tidy
<1> HIDE DEF r
<1>3. KeysOf(r) = KeysOf(s) \cup {d.key}
  BY <1>1, <1>2 DEF KeysOf
<1>4. \A i \in 1..n : s[i] # d.key
  BY <1>1 DEF KeysOf
<1>5. Distinct(r)
  BY <1>1, <1>2, <1>4 DEF Tidy, Distinct
<1>6. \A e \in E : e.key # d.key
  BY DEF Tidy
<1> QED BY <1>1, <1>2, <1>3, <1>5, <1>6 DEF Tidy, r

LEMMA TailTidy ==
    ASSUME NEW s, NEW E, Tidy(s, E), Len(s) # 0
    PROVE  Tidy(Tail(s), {e \in E : e.key # Head(s)}) /\ Len(Tail(s)) = Len(s) - 1
<1> DEFINE r == Tail(s)
<1>1. PICK n \in Nat : n = Len(s) /\ s # <<>> /\ n >= 1
  BY LenProperties, EmptySeq DEF Tidy
<1>2. r \in Seq(Key) /\ Len(r) = n - 1 /\ \A i \in 1..(n - 1) : r[i] = s[i + 1]
  BY <1>1, HeadTailProperties DEF Tidy
<1>3. Head(s) = s[1]
  BY <1>1 DEF Tidy
<1> HIDE DEF r
<1>4. Distinct(r)
  BY <1>1, <1>2 DEF Tidy, Distinct
<1>5. KeysOf(r) = KeysOf(s) \ {s[1]}
  <2>1. ASSUME NEW i \in 1..(n - 1) PROVE r[i] \in KeysOf(s) \ {s[1]}
    BY <1>1, <1>2 DEF Tidy, Distinct, KeysOf
  <2>2. ASSUME NEW i \in 2..n PROVE s[i] \in KeysOf(r)
    <3>1. i - 1 \in 1..(n - 1) /\ r[i - 1] = s[i]
      BY <1>2
    <3> QED BY <1>2, <3>1 DEF KeysOf
  <2>3. KeysOf(r) \subseteq KeysOf(s) \ {s[1]}
    BY <1>2, <2>1 DEF KeysOf
  <2>4. ASSUME NEW i \in 1..n, s[i] # s[1] PROVE s[i] \in KeysOf(r)
    BY <2>2, <2>4
  <2>5. KeysOf(s) \ {s[1]} \subseteq KeysOf(r)
    BY <1>1, <2>4 DEF KeysOf
  <2> QED BY <2>3, <2>5
<1> QED BY <1>1, <1>2, <1>3, <1>4, <1>5 DEF Tidy, r

(* An order of distinct keys is as long as there are entries.               *)
LEMMA TidyCounts ==
    ASSUME NEW s, NEW E, Tidy(s, E)
    PROVE  Len(s) = Cardinality(E)
<1>1. PICK n \in Nat : n = Len(s)
  BY LenProperties DEF Tidy
<1>2. \A i \in 1..n : \E e \in E : e.key = s[i]
  BY <1>1 DEF Tidy, KeysOf
<1> DEFINE f == [i \in 1..n |-> CHOOSE e \in E : e.key = s[i]]
<1>3. \A i \in 1..n : f[i] \in E /\ f[i].key = s[i]
  BY <1>2
<1>4. f \in [1..n -> E]
  BY <1>3
<1> HIDE DEF f
<1>5. \A i, j \in 1..n : f[i] = f[j] => i = j
  BY <1>1, <1>3 DEF Tidy, Distinct
<1>6. \A e \in E : \E i \in 1..n : f[i] = e
  <2> SUFFICES ASSUME NEW e \in E PROVE \E i \in 1..n : f[i] = e
    OBVIOUS
  <2>1. PICK i \in 1..n : s[i] = e.key
    BY <1>1 DEF Tidy, KeysOf
  <2> QED BY <1>3, <2>1 DEF Tidy
<1>7. f \in Bijection(1..n, E)
  BY <1>4, <1>5, <1>6 DEF Bijection, Injection, Surjection, IsInjective
<1>8. ExistsBijection(1..n, E)
  BY <1>7 DEF ExistsBijection
<1>9. IsFiniteSet(1..n) /\ Cardinality(1..n) = n
  BY FS_Interval
<1> QED BY <1>1, <1>8, <1>9, FS_Bijection

(* What the cache holds, and the rest of the types.                         *)
Kept == Tidy(recency, entries) /\ Len(recency) <= MaxEntries

CInv ==
    /\ IInv /\ Kept
    /\ torn \subseteq Nat /\ writes \in Nat /\ asks \in Nat /\ faults \in Nat

LEMMA HitKept ==
    ASSUME Kept, NEW e \in entries, recency' = Append(Others(e.key), e.key),
           UNCHANGED entries, e.key \in Key
    PROVE  Kept'
<1> DEFINE r == RemoveFirst(recency, e.key)
           rest == {d \in entries : d.key # e.key}
<1>1. /\ Tidy(r, rest) /\ e.key \notin KeysOf(r) /\ Len(r) \in Nat
      /\ Len(r) = IF e.key \in KeysOf(recency) THEN Len(recency) - 1 ELSE Len(recency)
  BY RemoveTidy DEF Kept
<1>2. e.key \in KeysOf(recency) /\ rest \cup {e} = entries
  BY DEF Kept, Tidy
<1> HIDE DEF r, rest
<1>3. Tidy(Append(r, e.key), entries) /\ Len(Append(r, e.key)) = Len(r) + 1
  BY <1>1, <1>2, AppendTidy
<1>4. recency' = Append(r, e.key) /\ entries' = entries
  BY DEF Others, r
<1>5. Len(recency) \in Nat /\ Len(Append(r, e.key)) = Len(recency)
  BY <1>1, <1>2, <1>3, LenProperties DEF Kept, Tidy
<1> QED BY <1>3, <1>4, <1>5 DEF Kept

LEMMA DropKept ==
    ASSUME Kept, NEW t, entries' = entries \ Found(t), recency' = Others(job[t].key)
    PROVE  Kept'
<1> DEFINE x == job[t].key
           r == RemoveFirst(recency, x)
<1>1. /\ Tidy(r, {e \in entries : e.key # x}) /\ Len(r) \in Nat
      /\ Len(r) = IF x \in KeysOf(recency) THEN Len(recency) - 1 ELSE Len(recency)
  BY RemoveTidy DEF Kept
<1>2. entries' = {e \in entries : e.key # x} /\ recency' = r
  BY DEF Found, Others
<1>3. Len(recency) \in Nat /\ MaxEntries \in Nat
  BY LenProperties, ConstantsAssumption DEF Kept, Tidy
<1> HIDE DEF r, x
<1>4. Len(r) <= MaxEntries
  BY <1>1, <1>3 DEF Kept
<1>5. Tidy(recency, entries)'
  BY <1>1, <1>2
<1> QED BY <1>2, <1>4, <1>5 DEF Kept

LEMMA InsertKept ==
    ASSUME Kept, NEW t, NewEntry(t) \in Entry, Insert(t)
    PROVE  Kept'
<1>1. PICK d \in Entry : d = NewEntry(t) /\ d.key = job[t].key /\ d.key \in Key
  BY DEF NewEntry, Entry
<1> DEFINE r == RemoveFirst(recency, d.key)
           rest == {e \in entries : e.key # d.key}
<1>2. /\ Tidy(r, rest) /\ d.key \notin KeysOf(r) /\ Len(r) \in Nat
      /\ Len(r) = IF d.key \in KeysOf(recency) THEN Len(recency) - 1 ELSE Len(recency)
  BY RemoveTidy DEF Kept
<1>3. Len(recency) \in Nat /\ MaxEntries \in Nat \ {0}
  BY LenProperties, ConstantsAssumption DEF Kept, Tidy
<1> DEFINE order == Append(r, d.key)
           kept == rest \cup {d}
<1>4. /\ recency' = IF Len(order) > MaxEntries THEN Tail(order) ELSE order
      /\ entries' = IF Len(order) > MaxEntries THEN {e \in kept : e.key # Head(order)}
                    ELSE kept
  BY <1>1 DEF Insert, Others, Evict
<1> HIDE DEF r, rest
<1>5. Tidy(order, kept) /\ Len(order) = Len(r) + 1
  BY <1>1, <1>2, AppendTidy
<1>6. Len(order) \in Nat /\ Len(order) <= MaxEntries + 1
  BY <1>2, <1>3, <1>5 DEF Kept
<1> HIDE DEF order, kept
<1>7. CASE Len(order) > MaxEntries
  <2>1. Tidy(Tail(order), {e \in kept : e.key # Head(order)})
        /\ Len(Tail(order)) = Len(order) - 1
    BY <1>3, <1>5, <1>6, <1>7, TailTidy
  <2>2. Len(Tail(order)) <= MaxEntries
    BY <1>3, <1>6, <2>1
  <2> QED BY <1>4, <1>7, <2>1, <2>2 DEF Kept
<1>8. CASE ~(Len(order) > MaxEntries)
  BY <1>3, <1>4, <1>5, <1>6, <1>8 DEF Kept
<1> QED BY <1>7, <1>8

LEMMA AskKept ==
    ASSUME CInv, NEW t \in Threads, Ask(t)
    PROVE  Kept'
<1>1. Typed /\ Kept /\ \A e \in entries : e.key \in Key
  BY DEF CInv, IInv, Typed, Entry
<1>2. CASE Hit(t)
  <2>1. PICK e \in entries : recency' = Append(Others(e.key), e.key) /\ UNCHANGED entries
    BY <1>2 DEF Hit, Found
  <2> QED BY <1>1, <2>1, HitKept
<1>3. CASE Miss(t)
  BY <1>1, <1>3, DropKept DEF Miss
<1>4. CASE \E fits \in BOOLEAN : Store(t, fits)
  <2>1. PICK fits \in BOOLEAN : Store(t, fits)
    BY <1>4
  <2>2. CASE fits
    <3>1. pc[t] # "idle" /\ Insert(t)
      BY <2>1, <2>2 DEF Store, Step
    <3>2. NewEntry(t) \in Entry
      BY <3>1, JobInFlight, ConstantsAssumption DEF CInv, IInv, Typed, NewEntry, Entry
    <3> QED BY <1>1, <3>1, <3>2, InsertKept
  <2>3. CASE ~fits
    BY <1>1, <2>1, <2>3, DropKept DEF Store
  <2> QED BY <2>2, <2>3
<1>5. CASE UNCHANGED cache
  BY <1>1, <1>5 DEF cache, Kept
<1> QED BY <1>2, <1>3, <1>4, <1>5
        DEF Ask, ReadRevision, BuildKey, ReadFacts, ReadDocuments, Answer

LEMMA CacheStep ==
    ASSUME CInv, [Next]_vars
    PROVE  CInv'
<1>1. IInv'
  BY InvStep DEF CInv
<1>2. CASE \E w \in Writers : Write(w)
  <2>1. PICK w \in Writers : Write(w)
    BY <1>2
  <2>2. /\ UNCHANGED <<entries, recency, asks>> /\ torn' \subseteq torn \cup {revision}
        /\ writes' \in {writes, writes + 1} /\ faults' \in {faults, faults + 1}
    BY <2>1 DEF Write, FundamentalBump, FundamentalBumpFails, FundamentalCommit,
         ObservationCommit, CompanyFactsCommit, DocumentCommit, DocumentEmbed,
         DocumentEmbedFails, RetentionPurge, RetentionExpire, RetentionFindsNothing,
         WriterDies, stores, Requests, cache, Begin, Fault
  <2> QED BY <1>1, <2>2 DEF CInv, Kept, IInv, Typed
<1>3. CASE \E t \in Threads : Ask(t)
  <2>1. PICK t \in Threads : Ask(t)
    BY <1>3
  <2>2. UNCHANGED <<torn, writes, faults>> /\ asks' \in {asks, asks + 1}
    BY <2>1 DEF Ask, ReadRevision, BuildKey, Hit, Miss, ReadFacts, ReadDocuments, Store,
                Answer, Database, stores
  <2> QED BY <1>1, <2>1, <2>2, AskKept DEF CInv
<1>4. CASE Tick \/ UNCHANGED vars
  BY <1>1, <1>4 DEF Tick, vars, stores, cache, spent, CInv, Kept
<1> QED BY <1>2, <1>3, <1>4 DEF Next

(* The cache never holds more than its limit, its order lists every key it  *)
(* holds once and no other, and every reachable state has its types.        *)
THEOREM TypeCorrect == Spec => []TypeOK
<1>1. Init => CInv
  <2> SUFFICES ASSUME Init PROVE CInv
    OBVIOUS
  <2>1. Kept
    <3>1. <<>> \in Seq(Key) /\ Len(<<>>) = 0
      BY EmptySeq
    <3>2. Distinct(<<>>) /\ KeysOf(<<>>) = {}
      BY <3>1 DEF Distinct, KeysOf
    <3> QED BY <3>1, <3>2, ConstantsAssumption DEF Init, Kept, Tidy
  <2> QED BY <2>1, InvBegins DEF Init, CInv
<1>2. CInv => TypeOK
  <2> SUFFICES ASSUME CInv PROVE TypeOK
    OBVIOUS
  <2>1. /\ recency \in Seq(Key) /\ Len(recency) = Cardinality(entries)
        /\ Len(recency) <= MaxEntries
        /\ {recency[n] : n \in DOMAIN recency} = {e.key : e \in entries}
    BY TidyCounts, LenProperties DEF CInv, Kept, Tidy, KeysOf
  <2> QED BY <2>1 DEF CInv, IInv, Typed, TypeOK
<1> QED BY <1>1, <1>2, CacheStep, PTL DEF Spec

=============================================================================
