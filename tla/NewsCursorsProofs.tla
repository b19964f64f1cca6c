-------------------------- MODULE NewsCursorsProofs --------------------------
(***************************************************************************)
(* Theorems about NewsCursors, for any articles and tickers, any lengths   *)
(* of days, pages and budgets, and any number of passes and faults.        *)
(***************************************************************************)
EXTENDS NewsCursors, SequenceTheorems, WellFoundedInduction, TLAPS

(* The article a is indexed, or a fetch from the cursor c asks for it.      *)
Covered(a, c) == a \in indexed \/ StartOfDay(c - Overlap) <= Published[a]
News(t) == {a \in listed \ Malformed : Of[a] = t}

Types ==
    /\ now \in Nat /\ listed \subseteq Articles
    /\ cursor \in [Symbols -> Cursors] /\ origin \in [Symbols -> Int]
    /\ fetch \in [Processes -> Fetch]

(* Nothing is stamped further ahead than the provider does.                 *)
Stamped(c) == c # NoCursor => c <= now + Ahead
Stamps ==
    /\ \A a \in listed : Published[a] <= now + Ahead
    /\ \A t \in Symbols : Stamped(cursor[t])
    /\ \A p \in Processes : Stamped(fetch[p].before) /\ Stamped(fetch[p].newest)

(* A cursor leaves nothing behind, wherever it is: in the row, read by a    *)
(* process that will write it back, or read by one that fetches after it.  *)
Safe(t, c) ==
    c # NoCursor => \A a \in News(t) : origin[t] <= Published[a] => Covered(a, c)
RowsSafe == \A t \in Symbols : Safe(t, cursor[t])
BeforeSafe == \A p \in Processes : Safe(fetch[p].ticker, fetch[p].before)

(* What a fetch has read lies in its window, and is indexed if all could be *)
(* stored.                                                                  *)
Reading(f) ==
    /\ f.before # NoCursor => f.newest # NoCursor /\ f.from = StartOfDay(f.before - Overlap)
    /\ f.phase = "fetching" =>
          /\ f.newest = f.before \/ (f.newest # NoCursor /\ f.newest <= f.to)
          /\ f.stored => f.read \ Malformed \subseteq indexed

(* A complete fetch leaves nothing behind in its window.                    *)
Finished(f) ==
    f.phase = "complete" =>
        /\ f.newest # NoCursor
        /\ \A a \in News(f.ticker) : f.from <= Published[a] => Covered(a, f.newest)

FetchesSafe ==
    \A p \in Processes :
        fetch[p].phase \in {"fetching", "complete"} => Reading(fetch[p]) /\ Finished(fetch[p])

IInv == Types /\ Stamps /\ RowsSafe /\ BeforeSafe /\ FetchesSafe

-----------------------------------------------------------------------------
LEMMA StartBefore ==
    ASSUME ConstantsAssumption, NEW x \in Int
    PROVE  StartOfDay(x) \in Int /\ StartOfDay(x) <= x
  <1>1. Day \in Nat \ {0}
    BY DEF ConstantsAssumption
  <1>2. x % Day \in 0..(Day - 1)
    BY <1>1
  <1> QED BY <1>1, <1>2 DEF StartOfDay

LEMMA FromTypes ==
    ASSUME ConstantsAssumption, now \in Nat, NEW c \in Cursors, NEW p \in Processes
    PROVE  /\ From(c, p) \in Int
           /\ c # NoCursor => From(c, p) = StartOfDay(c - Overlap)
  <1>1. Lookback[p] \in Nat /\ Overlap \in Nat
    BY DEF ConstantsAssumption
  <1>2. CASE c = NoCursor
    BY <1>1, <1>2, StartBefore DEF From
  <1>3. CASE c # NoCursor
    <2>1. c \in Int
      BY <1>3 DEF Cursors
    <2> QED BY <1>1, <1>3, <2>1, StartBefore DEF From
  <1> QED BY <1>2, <1>3

LEMMA NoFetchTypes ==
    ASSUME ConstantsAssumption
    PROVE  NoFetch \in Fetch /\ NoFetch.before = NoCursor /\ NoFetch.newest = NoCursor
           /\ NoFetch.phase = "idle"
  <1>1. Tickers[1] \in Symbols
    BY LenProperties DEF ConstantsAssumption, Coverage, Symbols, Range
  <1> QED BY <1>1 DEF NoFetch, Fetch, Phases, Cursors

LEMMA CompleteTypes ==
    ASSUME ConstantsAssumption, NEW g \in Fetch
    PROVE  /\ Complete(g) \in Fetch /\ Complete(g).phase = "complete"
           /\ Complete(g).ticker = g.ticker /\ Complete(g).before = g.before
           /\ Complete(g).from = g.from /\ Complete(g).newest = g.newest
  BY NoFetchTypes DEF Complete, NoFetch, Fetch, Phases

(* What a cursor leaves to be asked for, it still does when an article is   *)
(* listed: the provider lists none older than the overlap reaches.         *)
LEMMA ListedLate ==
    ASSUME ConstantsAssumption, OverlapCovers, now \in Nat, NEW a \in Articles,
           now <= Published[a] + Late, NEW c \in Int, c <= now + Ahead
    PROVE  StartOfDay(c - Overlap) <= Published[a]
  <1>1. /\ {Overlap, Late, Ahead} \subseteq Nat /\ Published[a] \in Nat
        /\ Late + Ahead <= Overlap
    BY DEF ConstantsAssumption, OverlapCovers
  <1>2. c - Overlap \in Int /\ c - Overlap <= Published[a]
    BY <1>1
  <1>3. StartOfDay(c - Overlap) \in Int /\ StartOfDay(c - Overlap) <= c - Overlap
    BY <1>2, StartBefore
  <1> QED BY <1>1, <1>2, <1>3

-----------------------------------------------------------------------------
(* The provider and the cursors a step leaves alone stay safe, for articles *)
(* only join the index and first windows only grow later.                  *)
LEMMA SafeKept ==
    ASSUME UNCHANGED listed, indexed \subseteq indexed', ConstantsAssumption, Types,
           origin' \in [Symbols -> Int], NEW t \in Symbols, origin[t] <= origin'[t],
           NEW c \in Cursors, Safe(t, c)
    PROVE  Safe(t, c)'
  <1> SUFFICES ASSUME c # NoCursor, NEW a \in News(t)', origin'[t] <= Published[a]
               PROVE  Covered(a, c)'
    BY DEF Safe
  <1>1. a \in News(t) /\ Published[a] \in Nat
    BY DEF News, ConstantsAssumption, Types
  <1>2. origin[t] <= Published[a]
    BY <1>1 DEF Types
  <1>3. Covered(a, c)
    BY <1>1, <1>2 DEF Safe
  <1> QED BY <1>3 DEF Covered, StartOfDay

LEMMA FetchKept ==
    ASSUME UNCHANGED listed, indexed \subseteq indexed', NEW f \in Fetch
    PROVE  /\ Reading(f) => Reading(f)'
           /\ Finished(f) => Finished(f)'
  BY DEF Reading, Finished, Covered, News, StartOfDay

(* A step that gives one fetch new locals, or a row a new cursor, is safe   *)
(* if what is new is.                                                       *)
LEMMA OneFetch ==
    ASSUME ConstantsAssumption, IInv, NEW p \in Processes, NEW f \in Fetch,
           fetch' = [fetch EXCEPT ![p] = f],
           UNCHANGED <<now, listed>>, indexed \subseteq indexed',
           cursor' \in [Symbols -> Cursors], origin' \in [Symbols -> Int],
           \A t \in Symbols : origin[t] <= origin'[t],
           \A t \in Symbols : cursor'[t] = cursor[t] \/ (Stamped(cursor[t]) /\ Safe(t, cursor[t]))',
           Stamped(f.before), Stamped(f.newest), Safe(f.ticker, f.before)',
           f.phase \in {"fetching", "complete"} => (Reading(f) /\ Finished(f))'
    PROVE  IInv'
  <1> USE DEF IInv
  <1>1. Types'
    BY DEF Types
  <1>2. \A q \in Processes : fetch'[q] = (IF q = p THEN f ELSE fetch[q]) /\ fetch[q] \in Fetch
    BY DEF Types
  <1>3. Stamps'
    BY <1>2 DEF Stamps, Stamped
  <1>4. RowsSafe'
    <2> SUFFICES ASSUME NEW t \in Symbols PROVE Safe(t, cursor[t])'
      BY DEF RowsSafe
    <2>1. CASE cursor'[t] = cursor[t]
      <3>1. cursor[t] \in Cursors /\ Safe(t, cursor[t])
        BY DEF Types, RowsSafe
      <3>2. ASSUME NEW c \in Cursors, c = cursor[t] PROVE Safe(t, c)'
        BY <3>1, <3>2, SafeKept
      <3>3. PICK c \in Cursors : c = cursor[t]
        BY <3>1
      <3> QED BY <2>1, <3>2, <3>3
    <2> QED BY <2>1
  <1>5. BeforeSafe'
    <2> SUFFICES ASSUME NEW q \in Processes, q # p
                 PROVE  Safe(fetch[q].ticker, fetch[q].before)'
      BY <1>2 DEF BeforeSafe
    <2>1. PICK g \in Fetch : g = fetch[q]
      BY <1>2
    <2>2. Safe(g.ticker, g.before)
      BY <2>1 DEF BeforeSafe
    <2>3. g.ticker \in Symbols /\ g.before \in Cursors
      BY DEF Fetch
    <2>4. Safe(g.ticker, g.before)'
      BY <2>2, <2>3, SafeKept
    <2> QED BY <2>1, <2>4, <1>2
  <1>6. FetchesSafe'
    <2> SUFFICES ASSUME NEW q \in Processes, q # p,
                        fetch[q].phase \in {"fetching", "complete"}
                 PROVE  Reading(fetch[q])' /\ Finished(fetch[q])'
      BY <1>2 DEF FetchesSafe
    <2>1. PICK g \in Fetch : g = fetch[q]
      BY <1>2
    <2>2. Reading(g)' /\ Finished(g)'
      BY <2>1, FetchKept DEF FetchesSafe
    <2> QED BY <2>1, <2>2, <1>2
  <1> QED BY <1>1, <1>3, <1>4, <1>5, <1>6

LEMMA RowsUnchanged ==
    ASSUME ConstantsAssumption, IInv, UNCHANGED <<cursor, origin>>
    PROVE  /\ cursor' \in [Symbols -> Cursors] /\ origin' \in [Symbols -> Int]
           /\ \A t \in Symbols : cursor'[t] = cursor[t] /\ origin[t] <= origin'[t]
  BY DEF IInv, Types

LEMMA NotingSafe ==
    ASSUME ConstantsAssumption, IInv, NEW p \in Processes, NEW f \in Fetch,
           NEW status \in {"ok", "error", "denied"},
           fetch' = [fetch EXCEPT ![p] = Noting(f, status)],
           UNCHANGED <<now, listed, cursor, origin>>, indexed \subseteq indexed'
    PROVE  IInv'
  <1>1. f.ticker \in Symbols /\ cursor[f.ticker] \in Cursors
    BY DEF Fetch, IInv, Types
  <1>2. PICK c \in Cursors : c = cursor[f.ticker]
    BY <1>1
  <1> DEFINE n == Noting(f, status)
  <1>a. /\ n \in Fetch /\ n.phase = "noting" /\ n.ticker = f.ticker
        /\ n.before = c /\ n.newest = NoCursor
    BY <1>1, <1>2, NoFetchTypes DEF Noting, NoFetch, Fetch, Phases
  <1>3. PICK g \in Fetch :
        /\ g = Noting(f, status) /\ g.phase = "noting" /\ g.ticker = f.ticker
        /\ g.before = c /\ g.newest = NoCursor
    BY <1>a
  <1>4. Stamped(g.before) /\ Stamped(g.newest)
    BY <1>1, <1>2, <1>3 DEF IInv, Stamps, Stamped
  <1>5. Safe(f.ticker, c)
    BY <1>1, <1>2 DEF IInv, RowsSafe
  <1>6. Types /\ origin' \in [Symbols -> Int] /\ origin[f.ticker] <= origin'[f.ticker]
    BY <1>1, RowsUnchanged DEF IInv
  <1>7. Safe(f.ticker, c)'
    BY <1>1, <1>5, <1>6, SafeKept
  <1>8. Safe(g.ticker, g.before)'
    BY <1>3, <1>7
  <1>9. fetch' = [fetch EXCEPT ![p] = g]
    BY <1>3
  <1> QED BY <1>3, <1>4, <1>8, <1>9, OneFetch, RowsUnchanged

LEMMA ReturnSafe ==
    ASSUME ConstantsAssumption, IInv, NEW p \in Processes,
           fetch' = [fetch EXCEPT ![p] = NoFetch],
           UNCHANGED <<now, listed, indexed>>,
           cursor' \in [Symbols -> Cursors], origin' \in [Symbols -> Int],
           \A t \in Symbols : origin[t] <= origin'[t],
           \A t \in Symbols : cursor'[t] = cursor[t] \/ (Stamped(cursor[t]) /\ Safe(t, cursor[t]))'
    PROVE  IInv'
  <1> DEFINE f == NoFetch
  <1>1. f \in Fetch /\ f.before = NoCursor /\ f.newest = NoCursor /\ f.phase = "idle"
    BY NoFetchTypes
  <1>2. Stamped(f.before) /\ Stamped(f.newest) /\ Safe(f.ticker, f.before)'
    BY <1>1 DEF Stamped, Safe
  <1> HIDE DEF f
  <1>3. fetch' = [fetch EXCEPT ![p] = f]
    BY DEF f
  <1> QED BY <1>1, <1>2, <1>3, OneFetch

LEMMA BeginSafe ==
    ASSUME ConstantsAssumption, IInv, NEW p \in Processes, NEW t \in Symbols,
           fetch' = [fetch EXCEPT ![p] = Fetching(p, t)],
           UNCHANGED <<now, listed, indexed, cursor, origin>>
    PROVE  IInv'
  <1>1. PICK c \in Cursors : c = cursor[t]
    BY DEF IInv, Types
  <1>2. now \in Nat /\ Day \in Nat /\ StartOfDay(now) \in Int
    BY StartBefore DEF IInv, Types, ConstantsAssumption
  <1>3. From(c, p) \in Int /\ (c # NoCursor => From(c, p) = StartOfDay(c - Overlap))
    BY <1>2, FromTypes
  <1>4. EndOfDay(now) \in Int
    BY <1>2 DEF EndOfDay
  <1> DEFINE n == Fetching(p, t)
  <1>a. /\ n \in Fetch /\ n.phase = "fetching" /\ n.ticker = t /\ n.before = c
        /\ n.from = From(c, p) /\ n.newest = c /\ n.read = {}
    BY <1>1, <1>3, <1>4, NoFetchTypes DEF Fetching, NoFetch, Fetch, Phases
  <1>5. PICK f \in Fetch :
        /\ f = Fetching(p, t) /\ f.phase = "fetching" /\ f.ticker = t /\ f.before = c
        /\ f.from = From(c, p) /\ f.newest = c /\ f.read = {}
    BY <1>a
  <1>6. Stamped(c) /\ Safe(t, c)
    BY <1>1 DEF IInv, Stamps, RowsSafe
  <1>7. Safe(t, c)'
    BY <1>6 DEF Safe, News, Covered, StartOfDay
  <1>8. Reading(f) /\ Finished(f)
    BY <1>3, <1>5 DEF Reading, Finished
  <1>9. Stamped(f.before) /\ Stamped(f.newest) /\ Safe(f.ticker, f.before)'
    BY <1>5, <1>6, <1>7
  <1>10. Reading(f)' /\ Finished(f)'
    BY <1>5, <1>8, FetchKept
  <1>11. fetch' = [fetch EXCEPT ![p] = f]
    BY <1>5
  <1> QED BY <1>5, <1>9, <1>10, <1>11, OneFetch, RowsUnchanged

-----------------------------------------------------------------------------
(* After a page: more of the window to read, nothing to commit, or a fetch  *)
(* that read its whole window and stored it.                               *)
LEMMA PageSafe ==
    ASSUME ConstantsAssumption, IInv, NEW p \in Processes, Page(p)
    PROVE  IInv'
  <1>1. PICK f \in Fetch : f = fetch[p]
    BY DEF IInv, Types
  <1>2. UNCHANGED <<now, listed, cursor, origin>> /\ f.phase = "fetching"
    BY <1>1 DEF Page, provider, rows
  <1>3. PICK new \in SUBSET (Window(f) \ f.read) :
               \E bad \in SUBSET (new \ Malformed) : Store(p, new, bad)
    BY <1>1 DEF Page
  <1>4. PICK bad \in SUBSET (new \ Malformed) : Store(p, new, bad)
    BY <1>3
  <1> DEFINE good == (new \ Malformed) \ bad
             stamps == {Published[a] : a \in good} \cup ({f.newest} \ {NoCursor})
             more == ~(Window(f) \subseteq f.read \cup new)
  <1>5. PICK newest \in IF stamps = {} THEN {NoCursor} ELSE stamps :
          Becomes(p, AfterPage(
              [f EXCEPT !.read = @ \cup new, !.newest = newest, !.pages = @ + 1,
                        !.stored = @ /\ bad = {}], more))
    BY <1>1, <1>4 DEF Store
  <1>6. indexed \subseteq indexed' /\ good \subseteq indexed' /\ new \subseteq Window(f)
    BY <1>3, <1>4 DEF Store
  <1>7. /\ listed \subseteq Articles /\ Published \in [Articles -> Nat] /\ now \in Nat
        /\ \A a \in listed : Published[a] <= now + Ahead
    BY DEF IInv, Types, Stamps, ConstantsAssumption
  <1>8. Reading(f) /\ Stamped(f.before) /\ Stamped(f.newest) /\ Safe(f.ticker, f.before)
    BY <1>1, <1>2 DEF IInv, FetchesSafe, Stamps, BeforeSafe
  <1>9. new \subseteq listed /\ \A a \in new : f.from <= Published[a] /\ Published[a] <= f.to
    BY <1>6 DEF Window
  <1>10. /\ newest \in Cursors /\ Stamped(newest)
         /\ newest = f.newest \/ (newest # NoCursor /\ newest <= f.to)
         /\ f.newest # NoCursor => newest # NoCursor
    <2>1. CASE stamps = {}
      BY <2>1, <1>5 DEF Cursors, Stamped
    <2>2. CASE newest = f.newest
      BY <2>2, <1>8 DEF Fetch
    <2>3. CASE \E a \in good : newest = Published[a]
      <3>1. PICK a \in good : newest = Published[a]
        BY <2>3
      <3>2. a \in new /\ a \in listed /\ Published[a] \in Nat
        BY <1>7, <1>9
      <3> QED BY <3>1, <3>2, <1>7, <1>9 DEF ConstantsAssumption, Cursors, Stamped
    <2> QED BY <2>1, <2>2, <2>3, <1>5
  <1>11. PICK g \in Fetch :
           /\ g = [f EXCEPT !.read = @ \cup new, !.newest = newest, !.pages = @ + 1,
                            !.stored = @ /\ bad = {}]
           /\ g.phase = "fetching" /\ g.ticker = f.ticker /\ g.before = f.before
           /\ g.from = f.from /\ g.to = f.to /\ g.read = f.read \cup new
           /\ g.newest = newest /\ g.stored = (f.stored /\ bad = {})
    <2>1. f.pages + 1 \in Nat /\ f.read \cup new \subseteq Articles /\ newest \in Cursors
          /\ (f.stored /\ bad = {}) \in BOOLEAN
      BY <1>7, <1>9, <1>10 DEF Fetch
    <2> DEFINE n == [f EXCEPT !.read = @ \cup new, !.newest = newest, !.pages = @ + 1,
                              !.stored = @ /\ bad = {}]
    <2>2. /\ n \in Fetch
          /\ n.phase = "fetching" /\ n.ticker = f.ticker /\ n.before = f.before
          /\ n.from = f.from /\ n.to = f.to /\ n.read = f.read \cup new
          /\ n.newest = newest /\ n.stored = (f.stored /\ bad = {})
      BY <1>2, <2>1 DEF Fetch
    <2> QED BY <2>2
  <1>12. Reading(g)'
    <2>1. g.before # NoCursor => g.newest # NoCursor /\ g.from = StartOfDay(g.before - Overlap)
      BY <1>8, <1>10, <1>11 DEF Reading
    <2>2. g.newest = g.before \/ (g.newest # NoCursor /\ g.newest <= g.to)
      BY <1>2, <1>8, <1>10, <1>11 DEF Reading
    <2>3. ASSUME g.stored, NEW a \in g.read \ Malformed
          PROVE  a \in indexed'
      BY <2>3, <1>2, <1>6, <1>8, <1>11 DEF Reading
    <2> QED BY <2>1, <2>2, <2>3 DEF Reading, StartOfDay
  <1>13. Becomes(p, AfterPage(g, more))
    BY <1>5, <1>11
  <1>14. g.before \in Cursors /\ g.ticker \in Symbols /\ g.to \in Int /\ g.from \in Int
    BY DEF Fetch
  <1>15. Stamped(g.before) /\ Stamped(g.newest)
    BY <1>8, <1>10, <1>11
  <1>16. Safe(g.ticker, g.before)'
    BY <1>2, <1>6, <1>8, <1>11, <1>14, SafeKept, RowsUnchanged DEF IInv
  <1>17. CASE more /\ g.pages < MaxPages
    <2>1. fetch' = [fetch EXCEPT ![p] = g]
      BY <1>13, <1>17 DEF Becomes, AfterPage
    <2>2. Finished(g)'
      BY <1>11 DEF Finished
    <2> QED BY <2>1, <2>2, <1>2, <1>6, <1>12, <1>15, <1>16, OneFetch, RowsUnchanged
  <1>18. CASE \E status \in {"ok", "error", "denied"} :
                 fetch' = [fetch EXCEPT ![p] = Noting(g, status)]
    BY <1>18, <1>2, <1>6, NotingSafe
  <1>19. CASE ~more /\ g.stored /\ g.newest # NoCursor
    <2> DEFINE h == Complete(g)
    <2>1. fetch' = [fetch EXCEPT ![p] = h]
      BY <1>13, <1>19 DEF Becomes, AfterPage
    <2>2. /\ h \in Fetch /\ h.phase = "complete" /\ h.ticker = g.ticker
          /\ h.before = g.before /\ h.from = g.from /\ h.newest = g.newest
      BY <1>11, CompleteTypes
    <2> HIDE DEF h
    <2>3. Reading(h)'
      BY <2>2, <1>12 DEF Reading, StartOfDay
    <2>4. ASSUME NEW a \in News(h.ticker)', h.from <= Published[a]
          PROVE  Covered(a, h.newest)'
      <3>1. a \in listed \ Malformed /\ Of[a] = f.ticker /\ f.from <= Published[a]
        BY <2>2, <2>4, <1>2, <1>11 DEF News
      <3>2. CASE Published[a] <= f.to
        <4>1. a \in g.read \ Malformed
          BY <3>1, <3>2, <1>11, <1>19 DEF Window
        <4> QED BY <4>1, <1>12, <1>11, <1>19 DEF Reading, Covered
      <3>3. CASE f.to < Published[a]
        <4>1. Published[a] \in Nat /\ Overlap \in Nat
          BY <3>1, <1>7 DEF ConstantsAssumption
        <4>2. CASE g.newest = f.before
          BY <4>2, <3>1, <2>2, <1>8, <1>11, <1>19 DEF Reading, Covered, StartOfDay
        <4>3. CASE g.newest <= f.to
          <5>1. PICK n \in Int, to \in Int, o \in Nat, at \in Nat :
                    n = g.newest /\ to = f.to /\ o = Overlap /\ at = Published[a]
            BY <1>19, <4>1, <1>11, <1>14 DEF Fetch, Cursors
          <5>2. n <= to /\ to < at
            BY <5>1, <4>3, <3>3
          <5>3. n - o \in Int /\ n - o <= at
            BY <5>2
          <5>4. PICK s \in Int : s = StartOfDay(n - o) /\ s <= n - o
            BY <5>3, StartBefore
          <5>5. s <= at
            BY <5>3, <5>4
          <5>6. StartOfDay(g.newest - Overlap) <= Published[a]
            BY <5>1, <5>4, <5>5
          <5> QED BY <5>6, <2>2 DEF Covered, StartOfDay
        <4> QED BY <4>2, <4>3, <1>2, <1>8, <1>10, <1>11 DEF Reading
      <3> QED BY <3>2, <3>3, <3>1, <1>7, <1>11, <1>14
    <2>5. Finished(h)'
      BY <2>2, <2>4, <1>19 DEF Finished
    <2>6. Stamped(h.before) /\ Stamped(h.newest) /\ Safe(h.ticker, h.before)'
      BY <2>2, <1>15, <1>16
    <2> QED BY <2>1, <2>2, <2>3, <2>5, <2>6, <1>2, <1>6, OneFetch, RowsUnchanged
  <1>20. AfterPage(g, more) =
           IF more /\ g.pages < MaxPages THEN g
           ELSE IF more \/ ~g.stored THEN Noting(g, "error")
           ELSE IF g.newest = NoCursor THEN Noting(g, "ok")
           ELSE Complete(g)
    BY DEF AfterPage
  <1> HIDE DEF more, good, stamps
  <1> QED BY <1>13, <1>17, <1>18, <1>19, <1>20 DEF Becomes

-----------------------------------------------------------------------------
LEMMA CommitSafe ==
    ASSUME ConstantsAssumption, IInv, NEW p \in Processes, Commit(p)
    PROVE  IInv'
  <1>1. PICK f \in Fetch : f = fetch[p]
    BY DEF IInv, Types
  <1>2. /\ UNCHANGED <<now, listed, indexed>> /\ fetch' = [fetch EXCEPT ![p] = NoFetch]
        /\ f.phase = "complete" /\ cursor' = [cursor EXCEPT ![f.ticker] = f.newest]
        /\ origin' = [origin EXCEPT ![f.ticker] =
                          IF f.before = NoCursor THEN Later(@, f.from) ELSE @]
    BY <1>1 DEF Commit, provider, Done, Becomes
  <1>3. f.ticker \in Symbols /\ f.newest \in Cursors /\ f.before \in Cursors /\ f.from \in Int
    BY DEF Fetch
  <1>4. /\ cursor' \in [Symbols -> Cursors] /\ origin' \in [Symbols -> Int]
        /\ \A t \in Symbols : origin[t] <= origin'[t]
        /\ \A t \in Symbols : cursor'[t] = (IF t = f.ticker THEN f.newest ELSE cursor[t])
        /\ f.before = NoCursor => f.from <= origin'[f.ticker]
    <2>1. cursor \in [Symbols -> Cursors] /\ origin \in [Symbols -> Int]
      BY DEF IInv, Types
    <2>2. PICK o \in Int : o = origin[f.ticker]
      BY <2>1, <1>3
    <2>3. PICK n \in Int : /\ n = IF f.before = NoCursor THEN Later(o, f.from) ELSE o
                           /\ o <= n /\ (f.before = NoCursor => f.from <= n)
      BY <1>3 DEF Later
    <2>4. origin' = [origin EXCEPT ![f.ticker] = n]
      BY <1>2, <2>2, <2>3
    <2>5. \A t \in Symbols : origin[t] \in Int /\ origin[t] <= origin[t]
      BY <2>1
    <2>6. \A t \in Symbols : origin'[t] = IF t = f.ticker THEN n ELSE origin[t]
      BY <2>1, <2>4
    <2>7. \A t \in Symbols : origin[t] <= origin'[t]
      BY <2>2, <2>3, <2>5, <2>6
    <2> QED BY <1>2, <1>3, <2>1, <2>3, <2>4, <2>6, <2>7
  <1>5. /\ Reading(f) /\ Finished(f) /\ Stamped(f.newest) /\ Safe(f.ticker, f.before)
    BY <1>1, <1>2 DEF IInv, FetchesSafe, Stamps, BeforeSafe
  <1>6. Stamped(f.newest)'
    BY <1>2, <1>5 DEF Stamped
  <1>7. Safe(f.ticker, f.newest)'
    <2> SUFFICES ASSUME NEW a \in News(f.ticker)', origin'[f.ticker] <= Published[a]
                 PROVE  Covered(a, f.newest)'
      BY DEF Safe
    <2>1. a \in News(f.ticker) /\ Published[a] \in Nat
      BY <1>2 DEF News, IInv, Types, ConstantsAssumption
    <2>0. PICK o \in Int, n \in Int, at \in Nat, from \in Int :
              o = origin[f.ticker] /\ n = origin'[f.ticker] /\ at = Published[a]
              /\ from = f.from
      BY <1>3, <1>4, <2>1 DEF IInv, Types
    <2>9. o <= n /\ n <= at
      BY <1>3, <1>4, <2>0
    <2>2. origin[f.ticker] <= Published[a]
      BY <2>0, <2>9
    <2>3. CASE f.from <= Published[a]
      BY <2>1, <2>3, <1>2, <1>5 DEF Finished, Covered, StartOfDay
    <2>4. CASE Published[a] < f.from
      <3>0. at < from
        BY <2>0, <2>4
      <3>1. f.before # NoCursor
        BY <1>4, <2>0, <2>9, <3>0
      <3>2. Covered(a, f.before) /\ f.from = StartOfDay(f.before - Overlap)
        BY <3>1, <2>1, <2>2, <1>5 DEF Safe, Reading
      <3>3. a \in indexed
        BY <3>2, <2>1, <2>4, <1>3 DEF Covered
      <3> QED BY <3>3, <1>2 DEF Covered
    <2> QED BY <2>3, <2>4, <2>1, <1>3
  <1>8. \A t \in Symbols :
            cursor'[t] = cursor[t] \/ (Stamped(cursor[t]) /\ Safe(t, cursor[t]))'
    BY <1>4, <1>6, <1>7, <1>3
  <1> QED BY <1>2, <1>4, <1>8, ReturnSafe

LEMMA NoteSafe ==
    ASSUME ConstantsAssumption, IInv, NEW p \in Processes, Note(p)
    PROVE  IInv'
  <1>1. PICK f \in Fetch : f = fetch[p]
    BY DEF IInv, Types
  <1>2. /\ UNCHANGED <<now, listed, indexed, origin>> /\ fetch' = [fetch EXCEPT ![p] = NoFetch]
        /\ cursor' = [cursor EXCEPT ![f.ticker] = f.before]
    BY <1>1 DEF Note, provider, Done, Becomes
  <1>3. f.ticker \in Symbols /\ f.before \in Cursors
    BY DEF Fetch
  <1>4. /\ cursor' \in [Symbols -> Cursors] /\ origin' \in [Symbols -> Int]
        /\ \A t \in Symbols : origin[t] <= origin'[t]
        /\ \A t \in Symbols : cursor'[t] = (IF t = f.ticker THEN f.before ELSE cursor[t])
    BY <1>2, <1>3 DEF IInv, Types
  <1>5. Stamped(f.before) /\ Safe(f.ticker, f.before)
    BY <1>1 DEF IInv, Stamps, BeforeSafe
  <1>6. Stamped(f.before)' /\ Safe(f.ticker, f.before)'
    BY <1>2, <1>3, <1>4, <1>5, SafeKept DEF IInv, Stamped
  <1>7. \A t \in Symbols :
            cursor'[t] = cursor[t] \/ (Stamped(cursor[t]) /\ Safe(t, cursor[t]))'
    BY <1>4, <1>6, <1>3
  <1> QED BY <1>2, <1>4, <1>7, ReturnSafe

LEMMA ListSafe ==
    ASSUME ConstantsAssumption, OverlapCovers, IInv, NEW a \in Articles, List(a)
    PROVE  IInv'
  <1>1. /\ now \in Nat /\ now <= Published[a] + Late /\ Published[a] <= now + Ahead
        /\ UNCHANGED <<now, indexed, cursor, origin, fetch>>
        /\ listed' = listed \cup {a} /\ Published[a] \in Nat
    BY DEF List, IInv, Types, rows, ConstantsAssumption
  <1>2. ASSUME NEW c \in Cursors, c # NoCursor, Stamped(c) PROVE Covered(a, c)
    BY <1>1, <1>2, ListedLate DEF Stamped, Covered, Cursors
  <1>3. ASSUME NEW t \in Symbols, NEW c \in Cursors, Stamped(c), Safe(t, c)
        PROVE  Safe(t, c)'
    BY <1>1, <1>2, <1>3 DEF Safe, News, Covered, StartOfDay
  <1>4. ASSUME NEW f \in Fetch, Stamped(f.newest), Reading(f) /\ Finished(f)
        PROVE  Reading(f)' /\ Finished(f)'
    <2>1. Reading(f)'
      BY <1>1, <1>4 DEF Reading, StartOfDay
    <2>2. f.newest \in Cursors
      BY DEF Fetch
    <2>3. ASSUME f.newest # NoCursor PROVE Covered(a, f.newest)
      BY <1>2, <1>4, <2>2, <2>3
    <2>4. Finished(f)'
      BY <1>1, <1>4, <2>3 DEF Finished, News, Covered, StartOfDay
    <2> QED BY <2>1, <2>4
  <1>5. Types' /\ Stamps'
    BY <1>1 DEF IInv, Types, Stamps, Stamped
  <1>6. RowsSafe'
    <2> SUFFICES ASSUME NEW t \in Symbols PROVE Safe(t, cursor[t])'
      BY DEF RowsSafe
    <2>1. PICK c \in Cursors : c = cursor[t]
      BY DEF IInv, Types
    <2>2. Stamped(c) /\ Safe(t, c)
      BY <2>1 DEF IInv, Stamps, RowsSafe
    <2>3. Safe(t, c)'
      BY <2>2, <1>3
    <2> QED BY <2>1, <2>3, <1>1
  <1>7. \A p \in Processes :
            /\ Safe(fetch[p].ticker, fetch[p].before)'
            /\ fetch[p].phase \in {"fetching", "complete"} =>
                   Reading(fetch[p])' /\ Finished(fetch[p])'
    <2> TAKE p \in Processes
    <2>1. PICK f \in Fetch : f = fetch[p]
      BY DEF IInv, Types
    <2>2. f.ticker \in Symbols /\ f.before \in Cursors
      BY DEF Fetch
    <2>3. /\ Stamped(f.before) /\ Stamped(f.newest) /\ Safe(f.ticker, f.before)
          /\ f.phase \in {"fetching", "complete"} => Reading(f) /\ Finished(f)
      BY <2>1 DEF IInv, Stamps, BeforeSafe, FetchesSafe
    <2>4. /\ Safe(f.ticker, f.before)'
          /\ f.phase \in {"fetching", "complete"} => Reading(f)' /\ Finished(f)'
      BY <2>2, <2>3, <1>3, <1>4
    <2> QED BY <2>1, <2>4, <1>1
  <1> QED BY <1>5, <1>6, <1>7, <1>1 DEF IInv, BeforeSafe, FetchesSafe

(* The steps that leave what the invariant speaks of alone.                 *)
LEMMA ElsewhereSafe ==
    ASSUME ConstantsAssumption, IInv,
           UNCHANGED <<listed, indexed, cursor, origin, fetch>>,
           now' \in Nat, now <= now'
    PROVE  IInv'
  <1>1. Ahead \in Nat /\ now \in Nat /\ Published \in [Articles -> Nat]
        /\ listed \subseteq Articles
    BY DEF ConstantsAssumption, IInv, Types
  <1>2. ASSUME NEW c \in Cursors, Stamped(c) PROVE Stamped(c)'
    <2>1. CASE c = NoCursor
      BY <2>1 DEF Stamped
    <2>2. CASE c # NoCursor
      <3>1. c \in Int /\ c <= now + Ahead
        BY <1>2, <2>2 DEF Stamped, Cursors
      <3>2. \A m, n, h, k \in Int : m <= n /\ k <= m + h => k <= n + h
        OBVIOUS
      <3>3. c <= now' + Ahead
        <4>1. now \in Int /\ now' \in Int /\ Ahead \in Int
          BY <1>1
        <4> QED BY <4>1, <3>1, <3>2, Zenon
      <3> QED BY <3>3 DEF Stamped
    <2> QED BY <2>1, <2>2
  <1>3. Types'
    BY DEF IInv, Types
  <1>4. \A a \in listed' : Published[a] <= now' + Ahead
    BY <1>1 DEF IInv, Stamps
  <1>5. \A t \in Symbols : cursor[t] \in Cursors
    BY DEF IInv, Types
  <1>6. \A p \in Processes : fetch[p].before \in Cursors /\ fetch[p].newest \in Cursors
    BY DEF IInv, Types, Fetch
  <1>7. \A t \in Symbols : Stamped(cursor[t])'
    <2> TAKE t \in Symbols
    <2>1. PICK c \in Cursors : c = cursor[t]
      BY <1>5
    <2>2. Stamped(c)
      BY <2>1 DEF IInv, Stamps
    <2> QED BY <2>1, <2>2, <1>2
  <1>8. \A p \in Processes : Stamped(fetch[p].before)' /\ Stamped(fetch[p].newest)'
    <2> TAKE p \in Processes
    <2>1. PICK b \in Cursors, n \in Cursors : b = fetch[p].before /\ n = fetch[p].newest
      BY <1>6
    <2>2. Stamped(b) /\ Stamped(n)
      BY <2>1 DEF IInv, Stamps
    <2>3. Stamped(b)' /\ Stamped(n)'
      BY <2>2, <1>2
    <2> QED BY <2>1, <2>3
  <1>9. Stamps'
    BY <1>4, <1>7, <1>8 DEF Stamps
  <1>10. RowsSafe' /\ BeforeSafe'
    BY DEF IInv, RowsSafe, BeforeSafe, Safe, News, Covered, StartOfDay
  <1>11. FetchesSafe'
    BY DEF IInv, FetchesSafe, Reading, Finished, News, Covered, StartOfDay
  <1> QED BY <1>3, <1>9, <1>10, <1>11 DEF IInv

-----------------------------------------------------------------------------
LEMMA Initially ==
    ASSUME ConstantsAssumption, Init
    PROVE  IInv
  <1>1. /\ NoFetch \in Fetch /\ NoFetch.before = NoCursor /\ NoFetch.newest = NoCursor
        /\ NoFetch.phase = "idle"
    BY NoFetchTypes
  <1>2. /\ \A t \in Symbols : cursor[t] = NoCursor
        /\ \A p \in Processes : fetch[p] = NoFetch
        /\ listed = {} /\ now = 0
    BY DEF Init
  <1>3. Types
    BY <1>1 DEF Init, Types, Cursors
  <1>4. Stamps /\ RowsSafe
    BY <1>1, <1>2 DEF Stamps, Stamped, RowsSafe, Safe
  <1>5. BeforeSafe /\ FetchesSafe
    BY <1>1, <1>2 DEF BeforeSafe, Safe, FetchesSafe
  <1> QED BY <1>3, <1>4, <1>5 DEF IInv

LEMMA FetchStepSafe ==
    ASSUME ConstantsAssumption, IInv, NEW p \in Processes, FetchStep(p)
    PROVE  IInv'
  <1>1. PICK f \in Fetch : f = fetch[p]
    BY DEF IInv, Types
  <1>2. CASE Page(p)
    BY <1>2, PageSafe
  <1>3. CASE Retry(p)
    BY <1>3, ElsewhereSafe DEF Retry, provider, rows, IInv, Types
  <1>4. CASE Refused(p)
    <2>1. fetch' = [fetch EXCEPT ![p] = Noting(f, "error")]
          /\ UNCHANGED <<now, listed, cursor, origin, indexed>>
      BY <1>1, <1>4 DEF Refused, Becomes, provider, rows
    <2> QED BY <2>1, NotingSafe
  <1>5. CASE Denied(p)
    <2>1. fetch' = [fetch EXCEPT ![p] = Noting(f, "denied")]
          /\ UNCHANGED <<now, listed, cursor, origin, indexed>>
      BY <1>1, <1>5 DEF Denied, Becomes, provider, rows
    <2> QED BY <2>1, NotingSafe
  <1>6. CASE Raises(p) \/ CommitFails(p) \/ Crash(p)
    <2>1. fetch' = [fetch EXCEPT ![p] = NoFetch]
          /\ UNCHANGED <<now, listed, cursor, origin, indexed>>
      BY <1>6 DEF Raises, CommitFails, Crash, Done, Becomes, provider, rows
    <2> QED BY <2>1, ReturnSafe, RowsUnchanged
  <1>7. CASE Commit(p)
    BY <1>7, CommitSafe
  <1>8. CASE Note(p)
    BY <1>8, NoteSafe
  <1> QED BY <1>2, <1>3, <1>4, <1>5, <1>6, <1>7, <1>8 DEF FetchStep

LEMMA Preserved ==
    ASSUME ConstantsAssumption, OverlapCovers, IInv, [Next]_vars
    PROVE  IInv'
  <1>0. now \in Nat /\ now <= now
    BY DEF IInv, Types
  <1>1. CASE Tick
    BY <1>0, <1>1, ElsewhereSafe DEF Tick, rows
  <1>2. CASE \E a \in Articles : List(a)
    BY <1>2, ListSafe
  <1>3. CASE \E t \in Delistable : Delist(t)
    BY <1>0, <1>3, ElsewhereSafe DEF Delist, rows
  <1>4. CASE StartRun \/ EndRun \/ Expire \/ Reset
    <2>1. UNCHANGED <<now, listed, indexed, cursor, origin, fetch>> /\ now \in Nat
      BY <1>4 DEF StartRun, EndRun, Expire, Reset, provider, rows, IInv, Types
    <2> QED BY <2>1, ElsewhereSafe
  <1>5. CASE \E t \in Refreshable : StartRefresh(t)
    <2>1. PICK t \in Symbols : StartRefresh(t)
      BY <1>5 DEF ConstantsAssumption
    <2>2. fetch' = [fetch EXCEPT !["refresh"] = Fetching("refresh", t)]
          /\ UNCHANGED <<now, listed, indexed, cursor, origin>>
      BY <2>1 DEF StartRefresh, Becomes, provider, rows
    <2> QED BY <2>2, BeginSafe DEF Processes
  <1>6. CASE \E t \in Symbols : NextTicker(t)
    <2>1. PICK t \in Symbols : NextTicker(t)
      BY <1>6
    <2>2. fetch' = [fetch EXCEPT !["run"] = Fetching("run", t)]
          /\ UNCHANGED <<now, listed, indexed, cursor, origin>>
      BY <2>1 DEF NextTicker, Becomes, provider, rows
    <2> QED BY <2>2, BeginSafe DEF Processes
  <1>7. CASE \E p \in Processes : FetchStep(p)
    BY <1>7, FetchStepSafe
  <1>8. CASE UNCHANGED vars
    BY <1>0, <1>8, ElsewhereSafe DEF vars, provider, rows
  <1> QED BY <1>1, <1>2, <1>3, <1>4, <1>5, <1>6, <1>7, <1>8 DEF Next

(* NothingSkipped of every reachable state: no article of a ticker with a   *)
(* cursor, no older than its first window, is left behind, whichever pages *)
(* and processes fail and in whatever order the two write their cursors.   *)
THEOREM Safety == Spec => []NothingSkipped
  <1>1. Init => IInv
    BY Initially, ConstantsAssumption
  <1>2. IInv /\ [Next]_vars => IInv'
    BY Preserved, ConstantsAssumption, OverlapCovers
  <1>3. IInv => NothingSkipped
    <2> SUFFICES ASSUME IInv, NEW a \in listed \ Malformed,
                        cursor[Of[a]] # NoCursor, origin[Of[a]] <= Published[a]
                 PROVE  a \in indexed \/ From(cursor[Of[a]], "run") <= Published[a]
      BY DEF NothingSkipped
    <2>1. a \in Articles /\ Of[a] \in Symbols /\ now \in Nat /\ "run" \in Processes
      BY ConstantsAssumption DEF IInv, Types, ConstantsAssumption, Processes
    <2>2. PICK c \in Cursors : c = cursor[Of[a]]
      BY <2>1 DEF IInv, Types
    <2>3. Covered(a, c)
      BY <2>1, <2>2 DEF IInv, RowsSafe, Safe, News
    <2>4. From(c, "run") = StartOfDay(c - Overlap)
      BY <2>1, <2>2, FromTypes, ConstantsAssumption
    <2> QED BY <2>2, <2>3, <2>4 DEF Covered
  <1> QED BY <1>1, <1>2, <1>3, PTL DEF Spec
-----------------------------------------------------------------------------
(* The order of the tickers: each has one place, however often it moves.    *)

Distinct(s) == \A m, n \in 1..Len(s) : s[m] = s[n] => m = n
KeysOf(s) == {s[n] : n \in 1..Len(s)}

LEMMA Places ==
    ASSUME NEW S, NEW s \in Seq(S)
    PROVE  (Distinct(s) <=> IsInjective(s)) /\ KeysOf(s) = Range(s)
BY LenProperties DEF Distinct, IsInjective, KeysOf, Range

(* Taking a ticker out of an order that holds each once.                    *)
LEMMA Removed ==
    ASSUME NEW S, NEW s \in Seq(S), Distinct(s), NEW x
    PROVE  LET r == RemoveFirst(s, x)
           IN /\ r \in Seq(S) /\ Distinct(r) /\ KeysOf(r) = KeysOf(s) \ {x}
              /\ Len(r) \in Nat
              /\ Len(r) = IF x \in KeysOf(s) THEN Len(s) - 1 ELSE Len(s)
<1> DEFINE r == RemoveFirst(s, x)
<1>0. PICK n \in Nat : n = Len(s)
  BY LenProperties
<1>1. CASE x \notin KeysOf(s)
  <2>1. r = s
    BY <1>1 DEF RemoveFirst, KeysOf
  <2> QED BY <1>0, <1>1, <2>1 DEF KeysOf
<1>2. CASE x \in KeysOf(s)
  <2>1. PICK m \in 1..n : s[m] = x
    BY <1>0, <1>2 DEF KeysOf
  <2>2. {i \in 1..Len(s) : s[i] = x} = {m}
    BY <1>0, <2>1 DEF Distinct
  <2>3. Min({m}) = m
    BY <2>1 DEF Min
  <2>4. r = SubSeq(s, 1, m - 1) \o SubSeq(s, m + 1, n)
    BY <1>0, <2>1, <2>2, <2>3 DEF RemoveFirst, RemoveAt, SelectInSeq
  <2>5. \A i \in 1..n : s[i] \in S
    BY <1>0, ElementOfSeq
  <2> DEFINE a == SubSeq(s, 1, m - 1)
             b == SubSeq(s, m + 1, n)
  <2>6. /\ a \in Seq(S) /\ Len(a) = m - 1
        /\ \A i \in 1..(m - 1) : a[i] = s[i]
    <3>1. 1 \in Int /\ m - 1 \in Int /\ \A i \in 1..(m - 1) : s[i] \in S
      BY <2>1, <2>5
    <3>2. /\ a \in Seq(S) /\ Len(a) = IF 1 <= m - 1 THEN (m - 1) - 1 + 1 ELSE 0
          /\ \A i \in 1..((m - 1) - 1 + 1) : a[i] = s[1 + i - 1]
      BY <3>1, SubSeqProperties
    <3> HIDE DEF a
    <3> QED BY <3>2
  <2>7. /\ b \in Seq(S) /\ Len(b) = n - m
        /\ \A i \in 1..(n - m) : b[i] = s[m + i]
    <3>1. m + 1 \in Int /\ n \in Int /\ \A i \in (m + 1)..n : s[i] \in S
      BY <2>1, <2>5
    <3>2. /\ b \in Seq(S) /\ Len(b) = IF m + 1 <= n THEN n - (m + 1) + 1 ELSE 0
          /\ \A i \in 1..(n - (m + 1) + 1) : b[i] = s[(m + 1) + i - 1]
      BY <3>1, SubSeqProperties
    <3> HIDE DEF b
    <3> QED BY <3>2
  <2> HIDE DEF a, b
  <2>8. /\ r \in Seq(S) /\ Len(r) = n - 1
        /\ \A i \in 1..(n - 1) : r[i] = IF i < m THEN s[i] ELSE s[i + 1]
    <3>1. /\ r \in Seq(S) /\ Len(r) = (m - 1) + (n - m)
          /\ \A i \in 1..((m - 1) + (n - m)) :
               r[i] = IF i <= m - 1 THEN a[i] ELSE b[i - (m - 1)]
      <4>1. r = a \o b
        BY <2>4 DEF a, b
      <4> HIDE DEF r
      <4>2. /\ r \in Seq(S) /\ Len(r) = Len(a) + Len(b)
            /\ \A i \in 1..(Len(a) + Len(b)) :
                 r[i] = IF i <= Len(a) THEN a[i] ELSE b[i - Len(a)]
        BY <2>6, <2>7, <4>1, ConcatProperties
      <4> QED BY <2>6, <2>7, <4>2
    <3>2. (m - 1) + (n - m) = n - 1
      OBVIOUS
    <3> HIDE DEF r
    <3>3. ASSUME NEW i \in 1..(n - 1) PROVE r[i] = IF i < m THEN s[i] ELSE s[i + 1]
      <4>1. CASE i < m
        <5>1. i <= m - 1 /\ i \in 1..(m - 1)
          BY <4>1
        <5> QED BY <2>6, <3>1, <3>2, <4>1, <5>1
      <4>2. CASE ~(i < m)
        <5>1. ~(i <= m - 1) /\ i - (m - 1) \in 1..(n - m) /\ m + (i - (m - 1)) = i + 1
          BY <4>2
        <5>2. b[i - (m - 1)] = s[i + 1]
          BY <2>7, <5>1
        <5> QED BY <3>1, <3>2, <4>2, <5>1, <5>2
      <4> QED BY <4>1, <4>2
    <3> QED BY <3>1, <3>2, <3>3
  <2> HIDE DEF r
  <2>9. Distinct(r)
    <3> SUFFICES ASSUME NEW i \in 1..(n - 1), NEW j \in 1..(n - 1), r[i] = r[j]
                 PROVE  i = j
      BY <2>8 DEF Distinct
    <3>1. PICK k \in 1..n : k = (IF i < m THEN i ELSE i + 1) /\ r[i] = s[k]
      BY <2>8
    <3>2. PICK l \in 1..n : l = (IF j < m THEN j ELSE j + 1) /\ r[j] = s[l]
      BY <2>8
    <3>3. k = l
      BY <1>0, <3>1, <3>2 DEF Distinct
    <3> QED BY <3>1, <3>2, <3>3
  <2>10. KeysOf(r) = KeysOf(s) \ {x}
    <3>1. ASSUME NEW i \in 1..(n - 1) PROVE r[i] \in KeysOf(s) \ {x}
      <4>1. PICK k \in 1..n : k # m /\ r[i] = s[k]
        BY <2>8
      <4> QED BY <1>0, <2>1, <4>1 DEF KeysOf, Distinct
    <3>2. ASSUME NEW k \in 1..n, k # m PROVE s[k] \in KeysOf(r)
      <4>1. PICK i \in 1..(n - 1) : i = IF k < m THEN k ELSE k - 1
        BY <3>2
      <4>2. r[i] = s[k]
        BY <2>8, <3>2, <4>1
      <4> QED BY <2>8, <4>2 DEF KeysOf
    <3> QED BY <1>0, <2>1, <2>8, <3>1, <3>2 DEF KeysOf
  <2> QED BY <1>0, <1>2, <2>8, <2>9, <2>10 DEF r
<1> QED BY <1>1, <1>2

LEMMA Appended ==
    ASSUME NEW S, NEW s \in Seq(S), Distinct(s), NEW x \in S, x \notin KeysOf(s)
    PROVE  /\ Append(s, x) \in Seq(S) /\ Distinct(Append(s, x))
           /\ KeysOf(Append(s, x)) = KeysOf(s) \cup {x}
<1> DEFINE r == Append(s, x)
<1>1. PICK n \in Nat : n = Len(s)
  BY LenProperties
<1>2. r \in Seq(S) /\ Len(r) = n + 1 /\ r[n + 1] = x /\ \A i \in 1..n : r[i] = s[i]
  BY <1>1, AppendProperties
<1> HIDE DEF r
<1>3. KeysOf(r) = KeysOf(s) \cup {x}
  BY <1>1, <1>2 DEF KeysOf
<1>4. \A i \in 1..n : s[i] # x
  BY <1>1 DEF KeysOf
<1>5. Distinct(r)
  BY <1>1, <1>2, <1>4 DEF Distinct
<1> QED BY <1>2, <1>3, <1>5 DEF r

LEMMA Joined ==
    ASSUME NEW S, NEW s \in Seq(S), NEW u \in Seq(S), Distinct(s), Distinct(u),
           KeysOf(s) \cap KeysOf(u) = {}
    PROVE  s \o u \in Seq(S) /\ Distinct(s \o u)
<1> DEFINE r == s \o u
<1>1. PICK m \in Nat, n \in Nat : m = Len(s) /\ n = Len(u)
  BY LenProperties
<1>2. /\ r \in Seq(S) /\ Len(r) = m + n
      /\ \A i \in 1..(m + n) : r[i] = IF i <= m THEN s[i] ELSE u[i - m]
  BY <1>1, ConcatProperties
<1> HIDE DEF r
<1>3. \A i \in 1..m, j \in 1..n : s[i] # u[j]
  BY <1>1 DEF KeysOf
<1>4. ASSUME NEW i \in 1..(m + n), NEW j \in 1..(m + n), r[i] = r[j]
      PROVE  i = j
  <2>1. CASE i <= m /\ j <= m
    BY <1>1, <1>2, <1>4, <2>1 DEF Distinct
  <2>2. CASE ~(i <= m) /\ ~(j <= m)
    <3>1. i - m \in 1..n /\ j - m \in 1..n /\ u[i - m] = u[j - m]
      BY <1>2, <1>4, <2>2
    <3>2. i - m = j - m
      BY <1>1, <3>1 DEF Distinct
    <3> QED BY <3>2
  <2>3. CASE i <= m /\ ~(j <= m)
    <3>1. j - m \in 1..n /\ s[i] = u[j - m]
      BY <1>2, <1>4, <2>3
    <3> QED BY <1>3, <2>3, <3>1
  <2>4. CASE ~(i <= m) /\ j <= m
    <3>1. i - m \in 1..n /\ s[j] = u[i - m]
      BY <1>2, <1>4, <2>4
    <3> QED BY <1>3, <2>4, <3>1
  <2> QED BY <2>1, <2>2, <2>3, <2>4
<1> QED BY <1>2, <1>4 DEF Distinct, r

(* A recursive function exists, for there is one as far as any n.           *)
Unserving(n, f) ==
    f = [k \in 0..n |->
            IF k = 0 THEN <<>>
            ELSE IF Tickers[k] \in Range(served) THEN f[k - 1]
            ELSE Append(f[k - 1], Tickers[k])]

Below == {p \in Nat \X Nat : p[1] < p[2]}

LEMMA HasLeast ==
    ASSUME NEW S \in SUBSET Nat, S # {}
    PROVE  \E n \in S : \A m \in S : n <= m
<1>1. IsWellFoundedOn(Below, Nat)
  BY NatLessThanWellFounded, Zenon DEF OpToRel, Below
<1>2. PICK x \in S : \A y \in S : ~(<<y, x>> \in Below)
  BY <1>1, WFMin, Zenon
<1>3. ASSUME NEW m \in S
      PROVE  x <= m
  <2>1. <<m, x>> \in Nat \X Nat /\ m \in Nat /\ x \in Nat
    OBVIOUS
  <2>2. ~(m < x)
    BY <1>2, <2>1 DEF Below
  <2> QED BY <2>1, <2>2
<1> QED BY <1>3

LEMMA UnservingExists ==
    ASSUME NEW n \in Nat
    PROVE  \E f : Unserving(n, f)
<1> DEFINE bad == {k \in Nat : ~\E f : Unserving(k, f)}
<1>1. bad = {}
  <2> SUFFICES ASSUME bad # {} PROVE FALSE
    OBVIOUS
  <2>1. PICK k \in bad : \A m \in bad : k <= m
    <3>1. bad \in SUBSET Nat
      OBVIOUS
    <3> HIDE DEF bad
    <3> QED BY <3>1, HasLeast
  <2>2. k \in Nat /\ ~\E f : Unserving(k, f)
    BY <2>1
  <2>3. CASE k = 0
    <3> DEFINE f == [i \in 0..0 |-> <<>>]
    <3>1. Unserving(0, f)
      BY DEF Unserving
    <3> QED BY <2>2, <2>3, <3>1
  <2>4. CASE k # 0
    <3>1. k - 1 \in Nat /\ ~(k <= k - 1)
      BY <2>2, <2>4
    <3>2. PICK f : Unserving(k - 1, f)
      <4>1. k - 1 \notin bad
        BY <2>1, <3>1
      <4> QED BY <3>1, <4>1
    <3> DEFINE g == [i \in 0..k |->
                        IF i < k THEN f[i]
                        ELSE IF Tickers[k] \in Range(served) THEN f[k - 1]
                        ELSE Append(f[k - 1], Tickers[k])]
               h == [i \in 0..k |->
                        IF i = 0 THEN <<>>
                        ELSE IF Tickers[i] \in Range(served) THEN g[i - 1]
                        ELSE Append(g[i - 1], Tickers[i])]
    <3>3. ASSUME NEW i \in 0..k PROVE g[i] = h[i]
      <4>1. CASE i = k
        <5>1. g[k - 1] = f[k - 1] /\ k \in 0..k /\ k - 1 \in 0..k
          BY <2>2, <3>1
        <5> QED BY <2>4, <4>1, <5>1
      <4>2. CASE i = 0
        <5>1. f[0] = <<>> /\ 0 < k /\ 0 \in 0..k
          BY <2>2, <3>1, <3>2, <2>4 DEF Unserving
        <5> QED BY <4>2, <5>1
      <4>3. CASE i \in 1..(k - 1)
        <5>1. /\ i \in 0..(k - 1) /\ i - 1 \in 0..(k - 1) /\ i < k /\ i - 1 < k
              /\ i # 0 /\ i - 1 \in 0..k
          BY <2>2, <4>3
        <5>2. g[i] = f[i] /\ g[i - 1] = f[i - 1]
          BY <5>1
        <5>3. f[i] = IF Tickers[i] \in Range(served) THEN f[i - 1]
                     ELSE Append(f[i - 1], Tickers[i])
          BY <3>2, <5>1 DEF Unserving
        <5> HIDE DEF g
        <5> QED BY <5>1, <5>2, <5>3
      <4> QED BY <2>2, <4>1, <4>2, <4>3
    <3>4. g = h
      BY <3>3
    <3>5. Unserving(k, g)
      <4> HIDE DEF g
      <4> QED BY <3>4 DEF Unserving
    <3> QED BY <2>2, <3>5
  <2> QED BY <2>3, <2>4
<1> QED BY <1>1

LEMMA UnservedIs == ConstantsAssumption => Unserving(Len(Tickers), Unserved)
<1> SUFFICES ASSUME ConstantsAssumption PROVE Unserving(Len(Tickers), Unserved)
  OBVIOUS
<1>1. Len(Tickers) \in Nat
  BY LenProperties DEF ConstantsAssumption, Coverage
<1>2. PICK f : Unserving(Len(Tickers), f)
  BY <1>1, UnservingExists
<1> QED BY <1>2 DEF Unserving, Unserved

(* The first n of the coverage, without those that have a row.              *)
Lacking(u, n) ==
    /\ u \in Seq(Symbols) /\ Distinct(u)
    /\ KeysOf(u) = {Tickers[i] : i \in 1..n} \ Range(served)

LEMMA UnservedLacking ==
    ASSUME ConstantsAssumption, NEW n \in 0..Len(Tickers)
    PROVE  Lacking(Unserved[n], n)
<1>1. PICK l \in Nat : l = Len(Tickers)
  BY LenProperties DEF ConstantsAssumption, Coverage
<1>2. PICK f : f = Unserved /\ Unserving(l, f)
  BY <1>1, UnservedIs
<1>3. /\ \A i \in 1..l : Tickers[i] \in Symbols
      /\ \A i, j \in 1..l : Tickers[i] = Tickers[j] => i = j
  BY <1>1, Places, ElementOfSeq DEF ConstantsAssumption, Coverage, Distinct
<1> DEFINE bad == {k \in 0..l : ~Lacking(f[k], k)}
<1>4. bad = {}
  <2> SUFFICES ASSUME bad # {} PROVE FALSE
    OBVIOUS
  <2>1. PICK k \in bad : \A m \in bad : k <= m
    <3>1. bad \in SUBSET Nat
      OBVIOUS
    <3> HIDE DEF bad
    <3> QED BY <3>1, HasLeast
  <2>2. k \in 0..l /\ ~Lacking(f[k], k)
    BY <2>1
  <2>3. CASE k = 0
    <3>1. f[0] = <<>>
      BY <1>2 DEF Unserving
    <3>2. Lacking(<<>>, 0)
      <4>1. <<>> \in Seq(Symbols) /\ Len(<<>>) = 0 /\ 1..0 = {}
        OBVIOUS
      <4> QED BY <4>1 DEF Lacking, Distinct, KeysOf
    <3> QED BY <2>2, <2>3, <3>1, <3>2
  <2>4. CASE k # 0
    <3>1. k - 1 \in 0..l /\ ~(k <= k - 1) /\ k \in 1..l
      BY <2>2, <2>4
    <3>2. PICK u : u = f[k - 1] /\ Lacking(u, k - 1)
      <4>1. k - 1 \notin bad
        BY <2>1, <3>1
      <4> QED BY <3>1, <4>1
    <3>3. f[k] = IF Tickers[k] \in Range(served) THEN u ELSE Append(u, Tickers[k])
      BY <1>2, <2>2, <2>4, <3>2 DEF Unserving
    <3>4. PICK t \in Symbols : t = Tickers[k]
      BY <1>3, <3>1
    <3>5. {Tickers[i] : i \in 1..k} = {Tickers[i] : i \in 1..(k - 1)} \cup {t}
      <4>1. 1..k = (1..(k - 1)) \cup {k}
        BY <3>1
      <4> QED BY <3>4, <4>1
    <3>6. CASE t \in Range(served)
      BY <2>2, <3>2, <3>3, <3>4, <3>5, <3>6 DEF Lacking
    <3>7. CASE t \notin Range(served)
      <4>1. t \notin {Tickers[i] : i \in 1..(k - 1)}
        <5>1. \A i \in 1..(k - 1) : i \in 1..l /\ i # k
          BY <3>1
        <5> QED BY <1>3, <3>1, <3>4, <5>1
      <4>2. u \in Seq(Symbols) /\ Distinct(u) /\ t \notin KeysOf(u)
        BY <3>2, <4>1 DEF Lacking
      <4>3. /\ Append(u, t) \in Seq(Symbols) /\ Distinct(Append(u, t))
            /\ KeysOf(Append(u, t)) = KeysOf(u) \cup {t}
        BY <4>2, Appended
      <4>4. Lacking(Append(u, t), k)
        BY <3>2, <3>5, <3>7, <4>3 DEF Lacking
      <4> QED BY <2>2, <3>3, <3>4, <3>7, <4>4
    <3> QED BY <3>6, <3>7
  <2> QED BY <2>3, <2>4
<1> QED BY <1>1, <1>2, <1>4

(* A pass asks for no ticker twice: those without a row and those with one  *)
(* have none in common.                                                    *)
LEMMA OrderDistinct ==
    ASSUME ConstantsAssumption, served \in Seq(Symbols), IsInjective(served)
    PROVE  Order \in Seq(Symbols) /\ Distinct(Order)
<1>1. Len(Tickers) \in 0..Len(Tickers)
  BY LenProperties DEF ConstantsAssumption, Coverage
<1>2. PICK u : u = Unserved[Len(Tickers)] /\ Lacking(u, Len(Tickers))
  BY <1>1, UnservedLacking
<1>3. Distinct(served) /\ KeysOf(served) = Range(served)
  BY Places
<1>4. u \in Seq(Symbols) /\ Distinct(u) /\ KeysOf(u) \cap KeysOf(served) = {}
  BY <1>2, <1>3 DEF Lacking
<1>5. u \o served \in Seq(Symbols) /\ Distinct(u \o served)
  BY <1>3, <1>4, Joined
<1> QED BY <1>2, <1>5 DEF Order

LEMMA Started ==
    ASSUME NEW S, NEW s \in Seq(S), Distinct(s), NEW n \in 0..Len(s)
    PROVE  SubSeq(s, 1, n) \in Seq(S) /\ Distinct(SubSeq(s, 1, n))
<1> DEFINE r == SubSeq(s, 1, n)
<1>1. PICK l \in Nat : l = Len(s)
  BY LenProperties
<1>2. n \in Nat /\ n <= l /\ \A i \in 1..n : s[i] \in S
  BY <1>1, ElementOfSeq
<1>3. r \in Seq(S) /\ Len(r) = n /\ \A i \in 1..n : r[i] = s[i]
  <2>1. /\ r \in Seq(S) /\ Len(r) = IF 1 <= n THEN n - 1 + 1 ELSE 0
        /\ \A i \in 1..(n - 1 + 1) : r[i] = s[1 + i - 1]
    BY <1>2, SubSeqProperties
  <2> HIDE DEF r
  <2> QED BY <1>2, <2>1
<1> HIDE DEF r
<1>4. Distinct(r)
  BY <1>1, <1>2, <1>3 DEF Distinct
<1> QED BY <1>3, <1>4 DEF r

LEMMA Rest ==
    ASSUME NEW S, NEW s \in Seq(S), s # <<>>, Distinct(s)
    PROVE  /\ Tail(s) \in Seq(S) /\ Distinct(Tail(s))
           /\ Head(s) \in S /\ Head(s) \notin KeysOf(Tail(s))
<1> DEFINE r == Tail(s)
<1>1. PICK n \in Nat : n = Len(s)
  BY LenProperties
<1>2. /\ r \in Seq(S) /\ Len(r) = n - 1 /\ Head(s) = s[1] /\ Head(s) \in S /\ n > 0
      /\ \A i \in 1..(n - 1) : r[i] = s[i + 1]
  BY <1>1, HeadTailProperties, EmptySeq
<1> HIDE DEF r
<1>3. Distinct(r) /\ \A i \in 1..(n - 1) : r[i] # s[1]
  BY <1>1, <1>2 DEF Distinct
<1> QED BY <1>2, <1>3 DEF KeysOf, r

LEMMA BackMoved ==
    ASSUME served \in Seq(Symbols), IsInjective(served), NEW t \in Symbols
    PROVE  /\ MovedBack(t) \in Seq(Symbols) /\ IsInjective(MovedBack(t))
           /\ Range(MovedBack(t)) = Range(served) \cup {t}
<1>1. Distinct(served) /\ KeysOf(served) = Range(served)
  BY Places
<1>2. PICK r : /\ r = RemoveFirst(served, t) /\ r \in Seq(Symbols) /\ Distinct(r)
              /\ KeysOf(r) = KeysOf(served) \ {t}
  BY <1>1, Removed
<1>3. PICK m : /\ m = Append(r, t) /\ m \in Seq(Symbols) /\ Distinct(m)
              /\ KeysOf(m) = KeysOf(r) \cup {t}
  <2>1. t \notin KeysOf(r)
    BY <1>2
  <2>2. /\ Append(r, t) \in Seq(Symbols) /\ Distinct(Append(r, t))
        /\ KeysOf(Append(r, t)) = KeysOf(r) \cup {t}
    BY <1>2, <2>1, Appended
  <2> QED BY <2>2
<1>4. m = MovedBack(t) /\ IsInjective(m) /\ KeysOf(m) = Range(m)
  BY <1>2, <1>3, Places DEF MovedBack
<1> QED BY <1>1, <1>2, <1>3, <1>4

-----------------------------------------------------------------------------
(* The types.  A cursor, in its row or read by a process, is of a ticker    *)
(* that succeeded; a pass works on no ticker that is still ahead of it.    *)
Ranked == served \in Seq(Symbols) /\ IsInjective(served) /\ succeeded \subseteq Range(served)

Known(t, c) == c # NoCursor => t \in succeeded
CursorsKnown ==
    /\ \A t \in Symbols : Known(t, cursor[t])
    /\ \A p \in Processes : Known(fetch[p].ticker, fetch[p].before)

PassOrdered ==
    /\ queue \in Seq(Symbols) /\ IsInjective(queue) /\ (queue # <<>> => running)
    /\ fetch["run"].phase # "idle" => running /\ fetch["run"].ticker \notin Range(queue)

Flags ==
    running \in BOOLEAN /\ clean \in BOOLEAN /\ fresh \in BOOLEAN /\ cooldown \in BOOLEAN

Books ==
    /\ faults \in 0..MaxFaults /\ refreshes \in 0..MaxRefreshes
    /\ requests \in [Processes -> 0..RequestLimit]
    /\ dead \subseteq Symbols /\ indexed \subseteq listed \ Malformed

TInv == IInv /\ Ranked /\ CursorsKnown /\ PassOrdered /\ Flags /\ Books

(* What a step of a fetch makes of its locals: they are gone, or still of   *)
(* the same ticker, with the cursor it read or the one it now finds.       *)
Follows(g, f) ==
    \/ g = NoFetch
    \/ f.phase # "idle" /\ g.ticker = f.ticker /\ g.before \in {f.before, cursor[f.ticker]}

Moves(p, g) == fetch' = [fetch EXCEPT ![p] = g] /\ Follows(g, fetch[p])

LEMMA Returned ==
    ASSUME NEW f
    PROVE  /\ \A status : /\ Noting(f, status).ticker = f.ticker
                          /\ Noting(f, status).before = cursor[f.ticker]
           /\ Complete(f).ticker = f.ticker /\ Complete(f).before = f.before
BY DEF Noting, Complete, NoFetch

LEMMA PageFollows ==
    ASSUME ConstantsAssumption, Types, NEW p \in Processes, Page(p)
    PROVE  \E g : Moves(p, g)
<1>1. PICK f \in Fetch : f = fetch[p] /\ f.phase = "fetching"
  BY DEF Types, Page
<1>2. PICK new, bad : Store(p, new, bad)
  BY DEF Page
<1>3. PICK newest, h, more :
        /\ h = [f EXCEPT !.read = @ \cup new, !.newest = newest, !.pages = @ + 1,
                         !.stored = @ /\ bad = {}]
        /\ Becomes(p, AfterPage(h, more))
  BY <1>1, <1>2 DEF Store
<1>4. h.ticker = f.ticker /\ h.before = f.before
  BY <1>3 DEF Fetch
<1>5. \E g : g = AfterPage(h, more) /\ Follows(g, f)
  <2>1. Follows(h, f) /\ Follows(Complete(h), f)
        /\ \A status : Follows(Noting(h, status), f)
    BY <1>1, <1>4, Returned DEF Follows
  <2>2. AfterPage(h, more) \in {h, Complete(h), Noting(h, "ok"), Noting(h, "error")}
    BY DEF AfterPage
  <2> QED BY <2>1, <2>2
<1> QED BY <1>1, <1>3, <1>5 DEF Moves, Becomes

LEMMA StepFollows ==
    ASSUME ConstantsAssumption, Types, NEW p \in Processes, FetchStep(p)
    PROVE  \E g : Moves(p, g)
<1>1. CASE Page(p)
  BY <1>1, PageFollows
<1>2. CASE Retry(p)
  <2>1. fetch' = [fetch EXCEPT ![p] = fetch[p]] /\ fetch[p].phase = "fetching"
    BY <1>2 DEF Retry, Types
  <2> QED BY <2>1 DEF Moves, Follows
<1>3. CASE Refused(p) \/ Denied(p)
  <2>1. PICK status : fetch' = [fetch EXCEPT ![p] = Noting(fetch[p], status)]
                      /\ fetch[p].phase = "fetching"
    BY <1>3 DEF Refused, Denied, Becomes
  <2>2. Follows(Noting(fetch[p], status), fetch[p])
    BY <2>1, Returned DEF Follows
  <2> QED BY <2>1, <2>2 DEF Moves
<1>4. CASE Raises(p) \/ Commit(p) \/ CommitFails(p) \/ Note(p) \/ Crash(p)
  <2>1. fetch' = [fetch EXCEPT ![p] = NoFetch]
    BY <1>4 DEF Raises, Commit, CommitFails, Note, Crash, Done, Becomes
  <2> QED BY <2>1 DEF Moves, Follows
<1> QED BY <1>1, <1>2, <1>3, <1>4 DEF FetchStep

LEMMA RankedStep ==
    ASSUME ConstantsAssumption, Types, Ranked, [Next]_vars
    PROVE  Ranked' /\ succeeded \subseteq succeeded'
<1>1. ASSUME NEW t \in Symbols,
             served' = served \/ served' = MovedBack(t),
             succeeded' = succeeded \/ (succeeded' = succeeded \cup {t}
                                        /\ served' = MovedBack(t))
      PROVE  Ranked' /\ succeeded \subseteq succeeded'
  <2>1. /\ MovedBack(t) \in Seq(Symbols) /\ IsInjective(MovedBack(t))
        /\ Range(MovedBack(t)) = Range(served) \cup {t}
    BY BackMoved DEF Ranked
  <2>2. PICK s : s = served' /\ s \in Seq(Symbols) /\ IsInjective(s)
                 /\ Range(served) \subseteq Range(s) /\ succeeded' \subseteq Range(s)
    BY <1>1, <2>1 DEF Ranked
  <2> QED BY <1>1, <2>2 DEF Ranked
<1>2. CASE UNCHANGED <<served, succeeded>>
  BY <1>2 DEF Ranked
<1>3. CASE \E p \in Processes : Commit(p) \/ Note(p)
  <2>1. PICK p \in Processes : Commit(p) \/ Note(p)
    BY <1>3
  <2>2. PICK t \in Symbols : t = fetch[p].ticker
    BY DEF Types, Fetch
  <2>3. CASE Commit(p)
    BY <1>1, <2>2, <2>3 DEF Commit
  <2>4. CASE Note(p)
    BY <1>1, <2>2, <2>4 DEF Note
  <2> QED BY <2>1, <2>3, <2>4
<1> QED
  <2>1. CASE Next
    <3>1. \/ UNCHANGED rows \/ \E p \in Processes : Commit(p) \/ Note(p)
      BY <2>1 DEF Next, FetchStep, Tick, List, Delist, StartRefresh, StartRun, NextTicker,
         EndRun, Expire, Reset, Page, Retry, Refused, Denied, Raises, CommitFails, Crash
    <3> QED BY <3>1, <1>2, <1>3 DEF rows
  <2>2. CASE UNCHANGED vars
    BY <2>2, <1>2 DEF vars, rows
  <2> QED BY <2>1, <2>2

LEMMA KnownKept ==
    ASSUME Types, CursorsKnown, succeeded \subseteq succeeded', NEW p \in Processes, NEW g,
           fetch' = [fetch EXCEPT ![p] = g], Known(g.ticker, g.before)',
           \A t \in Symbols : cursor'[t] = cursor[t] \/ Known(t, cursor[t])'
    PROVE  CursorsKnown'
<1>1. \A q \in Processes : fetch'[q] = IF q = p THEN g ELSE fetch[q]
  BY DEF Types
<1>2. ASSUME NEW t, NEW c, Known(t, c) PROVE Known(t, c)'
  BY <1>2 DEF Known
<1>3. ASSUME NEW t \in Symbols PROVE Known(t, cursor[t])'
  BY DEF CursorsKnown, Known
<1>4. ASSUME NEW q \in Processes PROVE Known(fetch[q].ticker, fetch[q].before)'
  BY <1>1 DEF CursorsKnown, Known
<1> QED BY <1>3, <1>4 DEF CursorsKnown

LEMMA KnownStep ==
    ASSUME ConstantsAssumption, Types, Ranked, CursorsKnown, [Next]_vars
    PROVE  CursorsKnown'
<1>1. succeeded \subseteq succeeded'
  BY RankedStep
<1>2. NoFetch.before = NoCursor
  BY NoFetchTypes
<1>3. CASE UNCHANGED <<fetch, cursor>>
  BY <1>1, <1>3 DEF CursorsKnown, Known
<1>4. ASSUME NEW p \in Processes, NEW t \in Symbols, UNCHANGED cursor,
             fetch' = [fetch EXCEPT ![p] = Fetching(p, t)]
      PROVE  CursorsKnown'
  <2>1. Fetching(p, t).ticker = t /\ Fetching(p, t).before = cursor[t]
    BY DEF Fetching, NoFetch
  <2>2. PICK g : g = Fetching(p, t) /\ g.ticker = t /\ g.before = cursor[t]
    BY <2>1
  <2>3. Known(g.ticker, g.before)'
    BY <1>1, <2>2 DEF CursorsKnown, Known
  <2>4. fetch' = [fetch EXCEPT ![p] = g]
    BY <1>4, <2>2
  <2> QED BY <1>1, <1>4, <2>3, <2>4, KnownKept
<1>5. ASSUME NEW p \in Processes, FetchStep(p)
      PROVE  CursorsKnown'
  <2>1. PICK g : Moves(p, g)
    BY <1>5, StepFollows
  <2>2. PICK f \in Fetch : f = fetch[p]
    BY DEF Types
  <2>3. f.ticker \in Symbols
    BY DEF Fetch
  <2>4. Known(f.ticker, f.before) /\ Known(f.ticker, cursor[f.ticker])
    BY <2>2, <2>3 DEF CursorsKnown
  <2>5. Known(g.ticker, g.before)'
    BY <1>1, <1>2, <2>1, <2>2, <2>4 DEF Moves, Follows, Known
  <2>6. \A t \in Symbols : cursor'[t] = cursor[t] \/ Known(t, cursor[t])'
    <3>1. CASE UNCHANGED cursor
      BY <3>1
    <3>2. CASE Commit(p)
      BY <3>2, <2>2, <2>3 DEF Commit, Known, Types
    <3>3. CASE Note(p)
      BY <3>3, <1>1, <2>2, <2>3, <2>4 DEF Note, Known, Types
    <3> QED BY <1>5, <3>1, <3>2, <3>3 DEF FetchStep, rows, Page, Retry, Refused, Denied,
               Raises, CommitFails, Crash
  <2>7. fetch' = [fetch EXCEPT ![p] = g]
    BY <2>1 DEF Moves
  <2> QED BY <1>1, <2>5, <2>6, <2>7, KnownKept
<1>6. CASE Tick \/ (\E a \in Articles : List(a)) \/ (\E t \in Delistable : Delist(t))
           \/ StartRun \/ EndRun \/ Expire \/ Reset
  BY <1>3, <1>6 DEF Tick, List, Delist, StartRun, EndRun, Expire, Reset, rows
<1>7. CASE \E t \in Refreshable : StartRefresh(t)
  <2>1. PICK t \in Symbols : StartRefresh(t)
    BY <1>7 DEF ConstantsAssumption
  <2> QED BY <2>1, <1>4 DEF StartRefresh, Becomes, rows, Processes
<1>8. CASE \E t \in Symbols : NextTicker(t)
  BY <1>8, <1>4 DEF NextTicker, Becomes, rows, Processes
<1>9. CASE UNCHANGED vars
  BY <1>3, <1>9 DEF vars, rows
<1> QED BY <1>5, <1>6, <1>7, <1>8, <1>9 DEF Next

(* A step of a fetch leaves the tickers ahead as they are, or leaves none.  *)
LEMMA PassMoves ==
    ASSUME Flags, NEW p \in Processes, FetchStep(p)
    PROVE  \/ UNCHANGED <<running, queue>>
           \/ p = "run" /\ UNCHANGED running /\ queue' = <<>>
           \/ p = "run" /\ fetch' = [fetch EXCEPT ![p] = NoFetch] /\ queue' = <<>>
<1>1. CASE Page(p) \/ Retry(p) \/ Refused(p) \/ Commit(p) \/ CommitFails(p) \/ Note(p)
  BY <1>1 DEF Page, Retry, Refused, Commit, CommitFails, Note, pass
<1>2. CASE Denied(p) \/ Raises(p)
  BY <1>2 DEF Denied, Raises, Abandon
<1>3. CASE Crash(p)
  <2>1. CASE p = "run"
    BY <1>3, <2>1 DEF Crash, Abandon, Becomes
  <2>2. CASE p # "run"
    <3>1. queue' = IF p = "run" THEN <<>> ELSE queue
      BY <1>3 DEF Crash, Abandon
    <3>2. running' = (running /\ p # "run") /\ running \in BOOLEAN
      BY <1>3, Zenon DEF Crash, Flags
    <3>3. running' = running
      BY <2>2, <3>2, Zenon
    <3> QED BY <2>2, <3>1, <3>3
  <2> QED BY <2>1, <2>2
<1> QED BY <1>1, <1>2, <1>3 DEF FetchStep

LEMMA FetchPass ==
    ASSUME ConstantsAssumption, Types, PassOrdered, Flags, NEW p \in Processes, FetchStep(p)
    PROVE  PassOrdered'
<1>1. PICK g : fetch' = [fetch EXCEPT ![p] = g] /\ Follows(g, fetch[p])
  BY StepFollows DEF Moves
<1>2. "run" \in Processes /\ NoFetch.phase = "idle"
  BY NoFetchTypes DEF Processes
<1>3. /\ <<>> \in Seq(Symbols) /\ IsInjective(<<>>) /\ Range(<<>>) = {}
  BY DEF IsInjective, Range
<1>4. fetch'["run"] = IF p = "run" THEN g ELSE fetch["run"]
  BY <1>1, <1>2 DEF Types
<1>5. fetch'["run"].phase # "idle" =>
         fetch["run"].phase # "idle" /\ fetch'["run"].ticker = fetch["run"].ticker
  BY <1>1, <1>2, <1>4 DEF Follows
<1>6. CASE UNCHANGED <<running, queue>>
  BY <1>5, <1>6 DEF PassOrdered
<1>7. CASE UNCHANGED running /\ queue' = <<>>
  BY <1>3, <1>5, <1>7 DEF PassOrdered
<1>8. CASE p = "run" /\ fetch' = [fetch EXCEPT ![p] = NoFetch] /\ queue' = <<>>
  <2>1. fetch'["run"].phase = "idle"
    BY <1>2, <1>8 DEF Types
  <2> QED BY <1>3, <1>8, <2>1 DEF PassOrdered
<1> QED BY <1>6, <1>7, <1>8, PassMoves

LEMMA PassStep ==
    ASSUME ConstantsAssumption, Types, Ranked, PassOrdered, Flags, [Next]_vars
    PROVE  PassOrdered'
<1>1. "run" \in Processes /\ "refresh" \in Processes /\ "run" # "refresh"
  BY DEF Processes
<1>2. CASE UNCHANGED <<fetch, running, queue>>
  BY <1>2 DEF PassOrdered
<1>3. CASE StartRun
  <2>1. PICK o : o = Order /\ o \in Seq(Symbols) /\ Distinct(o)
    BY OrderDistinct DEF Ranked
  <2>2. PICK n \in 0..Len(o) : queue' = SubSeq(o, 1, n)
    <3>1. WorkLimit \in Nat /\ Len(o) \in Nat
      BY <2>1, LenProperties DEF ConstantsAssumption
    <3>2. PICK n \in 0..Len(o) : n = IF WorkLimit < Len(o) THEN WorkLimit ELSE Len(o)
      BY <3>1
    <3>3. queue' = SubSeq(o, 1, IF WorkLimit < Len(o) THEN WorkLimit ELSE Len(o))
      BY <1>3, <2>1, Zenon DEF StartRun
    <3> QED BY <3>2, <3>3
  <2>3. queue' \in Seq(Symbols) /\ Distinct(queue')
    BY <2>1, <2>2, Started
  <2>4. PICK q \in Seq(Symbols) : q = queue' /\ IsInjective(q)
    BY <2>3, Places
  <2>5. UNCHANGED fetch /\ running' /\ ~running
    BY <1>3 DEF StartRun
  <2>6. fetch["run"].phase = "idle"
    BY <2>5 DEF PassOrdered
  <2> QED BY <2>4, <2>5, <2>6 DEF PassOrdered
<1>4. CASE EndRun
  BY <1>4 DEF EndRun, PassOrdered
<1>5. CASE \E t \in Symbols : NextTicker(t)
  <2>1. PICK t \in Symbols : NextTicker(t)
    BY <1>5
  <2>2. /\ running /\ UNCHANGED running /\ queue # <<>> /\ t = Head(queue)
        /\ fetch' = [fetch EXCEPT !["run"] = Fetching("run", t)] /\ queue' = Tail(queue)
    BY <2>1 DEF NextTicker, Becomes
  <2>3. Distinct(queue) /\ queue \in Seq(Symbols)
    BY Places DEF PassOrdered
  <2>4. PICK q : q = Tail(queue) /\ q \in Seq(Symbols) /\ Distinct(q) /\ t \notin KeysOf(q)
    BY <2>2, <2>3, Rest
  <2>5. IsInjective(q) /\ t \notin Range(q)
    BY <2>4, Places
  <2>6. Fetching("run", t).ticker = t
    BY DEF Fetching, NoFetch
  <2>7. fetch'["run"].ticker = t
    BY <1>1, <2>2, <2>6 DEF Types
  <2> QED BY <2>2, <2>4, <2>5, <2>7 DEF PassOrdered
<1>6. CASE \E t \in Refreshable : StartRefresh(t)
  <2>1. PICK f : UNCHANGED <<running, queue>> /\ fetch' = [fetch EXCEPT !["refresh"] = f]
    BY <1>6 DEF StartRefresh, Becomes, pass
  <2>2. fetch'["run"] = fetch["run"]
    BY <1>1, <2>1 DEF Types
  <2> QED BY <2>1, <2>2 DEF PassOrdered
<1>7. CASE \E p \in Processes : FetchStep(p)
  BY <1>7, FetchPass
<1>8. CASE Tick \/ (\E a \in Articles : List(a)) \/ (\E t \in Delistable : Delist(t))
           \/ Expire \/ Reset
  BY <1>2, <1>8 DEF Tick, List, Delist, Expire, Reset, pass
<1>9. CASE UNCHANGED vars
  BY <1>2, <1>9 DEF vars, pass
<1> QED BY <1>3, <1>4, <1>5, <1>6, <1>7, <1>8, <1>9 DEF Next

LEMMA FlagsStep ==
    ASSUME Flags, [Next]_vars
    PROVE  Flags'
<1>1. ASSUME NEW p \in Processes, FetchStep(p)
      PROVE  Flags'
  <2>1. running' \in BOOLEAN
    BY <1>1, Zenon DEF FetchStep, Page, Retry, Refused, Denied, Raises, Commit, CommitFails,
       Note, Crash, pass, Flags
  <2>2. clean' \in BOOLEAN
    BY <1>1, Zenon DEF FetchStep, Page, Store, Retry, Refused, Denied, Raises, Commit,
       CommitFails, Note, Crash, Mark, pass, Flags
  <2>3. fresh' \in BOOLEAN
    BY <1>1, Zenon DEF FetchStep, Page, Retry, Refused, Denied, Raises, Commit, CommitFails,
       Note, Crash, Flags
  <2>4. cooldown' \in BOOLEAN
    BY <1>1, Zenon DEF FetchStep, Page, Retry, Refused, Denied, Raises, Commit, CommitFails,
       Note, Crash, Flags
  <2> QED BY <2>1, <2>2, <2>3, <2>4 DEF Flags
<1>2. CASE StartRun \/ EndRun \/ Expire \/ Reset
  BY <1>2 DEF StartRun, EndRun, Expire, Reset, Flags, pass
<1>3. CASE Tick \/ (\E a \in Articles : List(a)) \/ (\E t \in Delistable : Delist(t))
           \/ (\E t \in Refreshable : StartRefresh(t)) \/ (\E t \in Symbols : NextTicker(t))
  BY <1>3 DEF Tick, List, Delist, StartRefresh, NextTicker, Flags, pass
<1>4. CASE UNCHANGED vars
  BY <1>4 DEF vars, pass, Flags
<1> QED BY <1>1, <1>2, <1>3, <1>4 DEF Next

LEMMA FaultsBounded ==
    ASSUME ConstantsAssumption, faults \in 0..MaxFaults, faults' = faults \/ Faulty
    PROVE  faults' \in 0..MaxFaults
<1>1. MaxFaults \in Nat
  BY DEF ConstantsAssumption
<1> QED BY <1>1 DEF Faulty

LEMMA RequestsBounded ==
    ASSUME ConstantsAssumption, requests \in [Processes -> 0..RequestLimit],
           \/ UNCHANGED requests
           \/ \E p \in Processes : Spend(p)
           \/ \E p \in Processes, n \in {0, RequestLimit} :
                 requests' = [requests EXCEPT ![p] = n]
    PROVE  requests' \in [Processes -> 0..RequestLimit]
<1>1. RequestLimit \in Nat
  BY DEF ConstantsAssumption
<1>2. CASE \E p \in Processes : Spend(p)
  <2>1. PICK p \in Processes, n \in 0..RequestLimit :
            n = requests[p] /\ n > 0 /\ requests' = [requests EXCEPT ![p] = n - 1]
    BY <1>2 DEF Spend
  <2>2. n - 1 \in 0..RequestLimit
    BY <1>1, <2>1
  <2> QED BY <2>1, <2>2
<1>3. CASE \E p \in Processes, n \in {0, RequestLimit} :
              requests' = [requests EXCEPT ![p] = n]
  <2>1. PICK p \in Processes, n \in {0, RequestLimit} :
            requests' = [requests EXCEPT ![p] = n]
    BY <1>3
  <2>2. n \in 0..RequestLimit
    BY <1>1
  <2> QED BY <2>1, <2>2
<1> QED BY <1>2, <1>3

LEMMA FetchBooks ==
    ASSUME ConstantsAssumption, Types, Books, NEW p \in Processes, FetchStep(p)
    PROVE  Books'
<1>1. faults' = faults \/ Faulty
  BY DEF FetchStep, Page, Store, Retry, Refused, Denied, Raises, Commit, CommitFails, Note,
     Crash, spent
<1>2. \/ UNCHANGED requests \/ Spend(p)
      \/ requests' = [requests EXCEPT ![p] = 0]
  BY DEF FetchStep, Page, Retry, Refused, Denied, Raises, Commit, CommitFails, Note, Crash,
     Done
<1>3. UNCHANGED <<listed, dead, refreshes>>
  BY DEF FetchStep, Page, Retry, Refused, Denied, Raises, Commit, CommitFails, Note, Crash,
     provider, spent
<1>4. indexed' \subseteq listed \ Malformed
  <2>1. CASE UNCHANGED indexed
    BY <2>1 DEF Books
  <2>2. CASE Page(p)
    <3>1. PICK new, bad : Store(p, new, bad) /\ new \subseteq Window(fetch[p])
      BY <2>2 DEF Page
    <3>2. indexed' = indexed \cup ((new \ Malformed) \ bad) /\ new \subseteq listed
      BY <3>1 DEF Store, Window
    <3> QED BY <3>2 DEF Books
  <2> QED BY <2>1, <2>2 DEF FetchStep, Retry, Refused, Denied, Raises, Commit, CommitFails,
             Note, Crash
<1>5. faults' \in 0..MaxFaults
  BY <1>1, FaultsBounded DEF Books
<1>6. requests' \in [Processes -> 0..RequestLimit]
  BY <1>2, RequestsBounded DEF Books
<1> QED BY <1>3, <1>4, <1>5, <1>6 DEF Books

LEMMA BooksStep ==
    ASSUME ConstantsAssumption, Types, Books, [Next]_vars
    PROVE  Books'
<1>1. \A n \in {0, RequestLimit}, p \in Processes :
          requests' = [requests EXCEPT ![p] = n] => requests' \in [Processes -> 0..RequestLimit]
  BY RequestsBounded DEF Books
<1>2. "run" \in Processes /\ "refresh" \in Processes
  BY DEF Processes
<1>3. CASE StartRun \/ EndRun
  <2>1. UNCHANGED <<faults, refreshes, dead, indexed, listed>>
    BY <1>3 DEF StartRun, EndRun, provider, spent
  <2>2. requests' \in [Processes -> 0..RequestLimit]
    BY <1>1, <1>2, <1>3 DEF StartRun, EndRun
  <2> QED BY <2>1, <2>2 DEF Books
<1>4. CASE \E t \in Refreshable : StartRefresh(t)
  <2>1. /\ UNCHANGED <<faults, dead, indexed, listed>>
        /\ refreshes < MaxRefreshes /\ refreshes' = refreshes + 1
        /\ requests' = [requests EXCEPT !["refresh"] = RequestLimit]
    BY <1>4 DEF StartRefresh, provider
  <2>2. MaxRefreshes \in Nat /\ refreshes \in 0..MaxRefreshes
    BY DEF ConstantsAssumption, Books
  <2>3. refreshes' \in 0..MaxRefreshes
    BY <2>1, <2>2
  <2>4. requests' \in [Processes -> 0..RequestLimit]
    BY <1>1, <1>2, <2>1
  <2> QED BY <2>1, <2>3, <2>4 DEF Books
<1>5. CASE Tick \/ (\E t \in Symbols : NextTicker(t)) \/ Expire \/ Reset
  BY <1>5 DEF Tick, NextTicker, Expire, Reset, Books, provider, spent
<1>6. CASE \E a \in Articles : List(a)
  BY <1>6 DEF List, Books, spent
<1>7. CASE \E t \in Delistable : Delist(t)
  <2>1. PICK t \in Symbols : Delist(t)
    BY <1>7 DEF ConstantsAssumption
  <2> QED BY <2>1 DEF Delist, Books, spent
<1>8. CASE \E p \in Processes : FetchStep(p)
  BY <1>8, FetchBooks
<1>9. CASE UNCHANGED vars
  BY <1>9 DEF vars, provider, spent, Books
<1> QED BY <1>3, <1>4, <1>5, <1>6, <1>7, <1>8, <1>9 DEF Next

LEMMA TypesBegin ==
    ASSUME ConstantsAssumption, Init
    PROVE  TInv
<1>1. /\ NoFetch.before = NoCursor /\ NoFetch.phase = "idle"
      /\ \A p \in Processes : fetch[p] = NoFetch
  BY NoFetchTypes DEF Init
<1>2. <<>> \in Seq(Symbols) /\ IsInjective(<<>>) /\ Range(<<>>) = {}
  BY DEF IsInjective, Range
<1>3. Ranked
  BY <1>2 DEF Init, Ranked
<1>4. CursorsKnown
  BY <1>1 DEF Init, CursorsKnown, Known
<1>5. PassOrdered
  BY <1>1, <1>2 DEF Init, PassOrdered, Processes
<1>6. Flags
  BY DEF Init, Flags
<1>7. Books
  <2>1. {RequestLimit, MaxFaults, MaxRefreshes} \subseteq Nat
    BY DEF ConstantsAssumption
  <2> QED BY <2>1 DEF Init, Books
<1> QED BY <1>3, <1>4, <1>5, <1>6, <1>7, Initially DEF TInv

LEMMA TypesStep ==
    ASSUME ConstantsAssumption, OverlapCovers, TInv, [Next]_vars
    PROVE  TInv'
<1>1. Types /\ Ranked /\ CursorsKnown /\ PassOrdered /\ Flags /\ Books
  BY DEF TInv, IInv
<1>2. IInv'
  BY Preserved DEF TInv
<1>3. Ranked' /\ CursorsKnown'
  BY <1>1, RankedStep, KnownStep
<1>4. PassOrdered' /\ Flags' /\ Books'
  BY <1>1, PassStep, FlagsStep, BooksStep
<1> QED BY <1>2, <1>3, <1>4 DEF TInv

(* TypeOK of every reachable state, with what it says of the order of the   *)
(* tickers: each has one place among the rows, however often fetches move  *)
(* it back; no pass asks for a ticker twice; a cursor is of a ticker that   *)
(* succeeded, though two processes write the rows and either may die.      *)
THEOREM TypeCorrect == Spec => []TypeOK
<1>1. Init => TInv
  BY TypesBegin, ConstantsAssumption
<1>2. TInv /\ [Next]_vars => TInv'
  BY TypesStep, ConstantsAssumption, OverlapCovers
<1>3. TInv => TypeOK
  <2> SUFFICES ASSUME TInv PROVE TypeOK
    OBVIOUS
  <2>1. succeeded \subseteq Symbols
    <3>1. Range(served) \subseteq Symbols
      BY Places, ElementOfSeq, LenProperties DEF TInv, Ranked, Range
    <3> QED BY <3>1 DEF TInv, Ranked
  <2>2. {running, clean, fresh, cooldown} \subseteq BOOLEAN
    BY DEF TInv, Flags
  <2>3. \A t \in Symbols : cursor[t] # NoCursor => t \in succeeded
    BY DEF TInv, CursorsKnown, Known
  <2>4. Types /\ Ranked /\ PassOrdered /\ Books
    BY DEF TInv, IInv
  <2> QED BY <2>1, <2>2, <2>3, <2>4 DEF TypeOK, Types, Ranked, PassOrdered, Books
<1> QED BY <1>1, <1>2, <1>3, PTL DEF Spec
=============================================================================
