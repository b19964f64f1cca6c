------------------------ MODULE ProviderBudgetProofs ------------------------
(***************************************************************************)
(* Theorems about ProviderBudget, for any sources, accounts, limits, clock *)
(* and number of faults.                                                   *)
(***************************************************************************)
EXTENDS ProviderBudget, FiniteSetTheorems, NaturalsInduction, WellFoundedInduction, TLAPS

(* The budget of a run was loaded from the window it will be added to.      *)
BaseIsLoaded ==
    \A p \in Processes : Known(run[p]) =>
        run[p].dayBase = dayUsed[Bucket[run[p].source]][run[p].day]

(* Nothing is known of a provider for the days after the current one, nor,  *)
(* while a run is in progress, for the days after the one it started on.   *)
DaysAheadUnknown ==
    \A b \in Buckets, d \in Time :
        (d > today \/ \E p \in Processes : Known(run[p]) /\ d > run[p].day)
            => limits[b][d] = NoLimit

Holds(limit, until) == limit.remaining = 0 /\ Known(limit.reset) /\ limit.reset >= until

(* The open circuit of a source is in the run that is about to be recorded, *)
(* or in the day's window, or the window leaves it to the cursor.          *)
Open(s) == Private(s) /\ s \notin torn /\ Known(circuit[s]) /\ circuit[s] > now
RunsOf(s) == {p \in Processes : Known(run[p]) /\ run[p].source = s}

OpenIsHeld ==
    \A s \in Sources : Open(s) =>
        /\ \A p \in RunsOf(s) : run[p].place = "remember" /\ Holds(run[p].limit, circuit[s])
        /\ RunsOf(s) = {} =>
               \/ ~Known(limits[Bucket[s]][today].remaining)
               \/ Holds(limits[Bucket[s]][today], circuit[s])

IInv == TypeOK /\ LedgerWithinDay /\ BaseIsLoaded /\ DaysAheadUnknown /\ OpenIsHeld

-----------------------------------------------------------------------------
LEMMA AddTypes ==
    ASSUME NEW w \in [Buckets -> [Time -> Nat]], NEW b \in Buckets, NEW t \in Time,
           NEW n \in Nat
    PROVE  /\ Add(w, b, t, n) \in [Buckets -> [Time -> Nat]]
           /\ Add(w, b, t, n)[b][t] = w[b][t] + n
           /\ \A c \in Buckets, u \in Time :
                  (c # b \/ u # t) => Add(w, b, t, n)[c][u] = w[c][u]
  BY DEF Add

LEMMA LoadedTypes ==
    ASSUME ConstantsAssumption, TypeOK, NEW s \in Sources
    PROVE  LoadedLimit(s) \in Limit /\ NewRun(s) \in Run
  <1>1. Bucket[s] \in Buckets /\ today \in Time /\ now \in Time
    BY DEF ConstantsAssumption, TypeOK, Time
  <1>2. limits[Bucket[s]][today] \in Limit /\ circuit[s] \in Optional
    BY <1>1 DEF TypeOK
  <1>3. LoadedLimit(s) \in Limit
    BY <1>2 DEF LoadedLimit, Limit, NoLimit, Optional, Known
  <1>4. dayUsed[Bucket[s]][today] \in Nat /\ minuteUsed[Bucket[s]][now] \in Nat
    BY <1>1 DEF TypeOK
  <1> QED BY <1>1, <1>3, <1>4 DEF NewRun, Run

LEMMA RunTypes ==
    ASSUME ConstantsAssumption, TypeOK, NEW p \in Processes, Known(run[p])
    PROVE  run[p] \in Run /\ run[p] # Unknown /\ Bucket[run[p].source] \in Buckets
  BY DEF ConstantsAssumption, TypeOK, Known, Run

-----------------------------------------------------------------------------
(* The budget after one request: the same run, one more attempt.            *)
LEMMA RequestShape ==
    ASSUME ConstantsAssumption, TypeOK, NEW p \in Processes, NEW rolled \in BOOLEAN,
           NEW answer \in Answers, Request(p, rolled, answer)
    PROVE  \E new \in Run :
             /\ run' = [run EXCEPT ![p] = new]
             /\ new.source = run[p].source /\ new.day = run[p].day /\ new.minute = run[p].minute
             /\ new.dayBase = run[p].dayBase /\ new.attempted = run[p].attempted + 1
             /\ new.windowStart \in {now, run[p].windowStart}
  <1> DEFINE r == run[p]
             left == IF Known(r.limit.remaining) THEN r.limit.remaining - 1 ELSE Unknown
             limit == [remaining |-> Coalesce(answer.remaining, left),
                       reset |-> Coalesce(answer.reset, r.limit.reset)]
             count == IF rolled THEN 0 ELSE r.windowCount
             new == [r EXCEPT !.attempted = @ + 1, !.windowCount = count + 1,
                              !.windowStart = IF rolled THEN now ELSE @,
                              !.limit = [remaining |-> Coalesce(answer.remaining, left),
                                         reset |-> Coalesce(answer.reset, @.reset)]]
  <1>1. r \in Run /\ Bucket[r.source] \in Buckets
    BY RunTypes DEF Request, Active
  <1>2. left \in Optional
    <2>1. Known(r.limit.remaining) => r.limit.remaining \in Nat /\ r.limit.remaining >= 1
      BY <1>1 DEF Request, HasCapacity, Run, Limit, Optional, Known
    <2> QED BY <2>1 DEF Optional
  <1>3. answer.remaining \in Optional /\ answer.reset \in Optional
    BY DEF Answers, Announced, Optional, ConstantsAssumption
  <1>4. limit \in Limit
    BY <1>1, <1>2, <1>3 DEF Limit, Coalesce, Run
  <1>5. /\ new \in Run /\ new.source = r.source /\ new.day = r.day /\ new.minute = r.minute
        /\ new.dayBase = r.dayBase /\ new.attempted = r.attempted + 1
        /\ new.windowStart \in {now, r.windowStart}
    <2>1. new.limit = limit
      BY <1>1 DEF Run, TypeOK
    <2>2. r.attempted + 1 \in Nat /\ count + 1 \in Nat /\ now \in Time
      BY <1>1 DEF Run, TypeOK
    <2> HIDE DEF limit, count
    <2> QED BY <1>1, <1>4, <2>1, <2>2 DEF Run
  <1>6. run' = [run EXCEPT ![p] = new]
    BY DEF Request
  <1> HIDE DEF new
  <1> QED BY <1>5, <1>6

LEMMA TypeInit == ASSUME ConstantsAssumption, Init PROVE TypeOK
  <1>1. NoLimit \in Limit
    BY DEF NoLimit, Limit, Optional
  <1>2. 0 \in Time /\ Windows \in [Buckets -> [Time -> Nat]]
    BY DEF ConstantsAssumption, Time, Windows
  <1> QED BY <1>1, <1>2 DEF ConstantsAssumption, Init, TypeOK, Optional

LEMMA TypeStep == ASSUME ConstantsAssumption, TypeOK, [Next]_vars PROVE TypeOK'
  <1> USE DEF TypeOK
  <1>1. ASSUME NEW p \in Processes, NEW s \in Sources, StartRun(p, s) PROVE TypeOK'
    <2> DEFINE new == IF HasCapacity(NewRun(s), NewRun(s).windowCount)
                      THEN NewRun(s) ELSE [NewRun(s) EXCEPT !.place = "remember"]
    <2>1. NewRun(s) \in Run /\ NewRun(s).day = today /\ NewRun(s).minute = now
          /\ NewRun(s).windowStart = now
      BY LoadedTypes DEF NewRun
    <2>2. new \in Run /\ new.day = today /\ new.minute = now /\ new.windowStart = now
      BY <2>1 DEF Run
    <2>3. run' = [run EXCEPT ![p] = new]
      BY <1>1 DEF StartRun
    <2> HIDE DEF new
    <2>4. run' \in [Processes -> Run \cup {Unknown}]
      BY <2>2, <2>3
    <2>5. \A q \in Processes : run'[q] # Unknown =>
              run'[q].day <= today /\ run'[q].minute <= now /\ run'[q].windowStart <= now
      BY <2>2, <2>3 DEF Time
    <2> QED BY <1>1, <2>4, <2>5 DEF StartRun, clock, tables
  <1>2. ASSUME NEW p \in Processes, NEW rolled \in BOOLEAN, NEW answer \in Answers,
               Request(p, rolled, answer)
        PROVE  TypeOK'
    <2> DEFINE r == run[p]
    <2>1. r \in Run /\ Bucket[r.source] \in Buckets /\ Known(r)
      BY <1>2, RunTypes DEF Request, Active
    <2>2. PICK new \in Run :
             /\ run' = [run EXCEPT ![p] = new]
             /\ new.day = r.day /\ new.minute = r.minute
             /\ new.windowStart \in {now, r.windowStart}
      BY <1>2, RequestShape
    <2>7. sentDay' = Add(sentDay, Bucket[r.source], today, 1)
      BY <1>2 DEF Request
    <2>8. today \in Time
      BY DEF Time
    <2>9. sentDay' \in [Buckets -> [Time -> Nat]]
      BY <2>1, <2>7, <2>8, AddTypes
    <2>11. run' \in [Processes -> Run \cup {Unknown}]
      BY <2>2
    <2>12. \A q \in Processes : run'[q] # Unknown =>
              run'[q].day <= today /\ run'[q].minute <= now /\ run'[q].windowStart <= now
      BY <2>1, <2>2 DEF Time, Known
    <2> QED BY <1>2, <2>9, <2>11, <2>12 DEF Request, clock, tables
  <1>3. ASSUME NEW p \in Processes, NEW closes \in BOOLEAN, EndRun(p, closes) PROVE TypeOK'
    <2>1. run[p] \in Run /\ run[p] # Unknown
      BY <1>3, RunTypes DEF EndRun, Active
    <2>2. run'[p] \in Run /\ run'[p] = [run[p] EXCEPT !.place = "remember"]
      BY <1>3, <2>1 DEF EndRun, Run
    <2>3. run' \in [Processes -> Run \cup {Unknown}]
      BY <1>3, <2>1, <2>2 DEF EndRun
    <2>4. \A q \in Processes : run'[q] # Unknown =>
              run'[q].day <= today /\ run'[q].minute <= now /\ run'[q].windowStart <= now
      BY <1>3, <2>1, <2>2 DEF EndRun, Run
    <2>5. circuit' \in [Sources -> Optional]
      BY <1>3 DEF EndRun, Optional
    <2> QED BY <1>3, <2>3, <2>4, <2>5 DEF EndRun, clock, tables
  <1>4. ASSUME NEW p \in Processes, NEW until \in Announced, NEW recorded \in BOOLEAN,
               OpenCircuit(p, until, recorded)
        PROVE  TypeOK'
    <2> DEFINE limit == [remaining |-> 0, reset |-> Coalesce(until, run[p].limit.reset)]
    <2>1. run[p] \in Run /\ run[p] # Unknown
      BY <1>4, RunTypes DEF OpenCircuit, Active
    <2>2. until \in Optional
      BY DEF Announced, Optional, ConstantsAssumption
    <2>3. limit \in Limit
      BY <2>1, <2>2 DEF Limit, Coalesce, Run, Optional
    <2> DEFINE new == [run[p] EXCEPT !.place = "remember",
                              !.limit = [remaining |-> 0, reset |-> Coalesce(until, @.reset)]]
    <2>4. run' = [run EXCEPT ![p] = new]
      BY <1>4 DEF OpenCircuit
    <2>5. new \in Run /\ new.day = run[p].day /\ new.minute = run[p].minute
          /\ new.windowStart = run[p].windowStart
      BY <2>1, <2>3 DEF Run
    <2> HIDE DEF new
    <2>6. run' \in [Processes -> Run \cup {Unknown}]
      BY <2>4, <2>5
    <2>7. \A q \in Processes : run'[q] # Unknown =>
              run'[q].day <= today /\ run'[q].minute <= now /\ run'[q].windowStart <= now
      BY <2>1, <2>4, <2>5
    <2>8. circuit' \in [Sources -> Optional] /\ torn' \subseteq Sources /\ faults' \in 0..MaxFaults
      <3>1. CASE recorded
        BY <1>4, <2>2, <3>1 DEF OpenCircuit
      <3>2. CASE ~recorded
        BY <1>4, <3>2 DEF OpenCircuit, ConstantsAssumption
      <3> QED BY <3>1, <3>2
    <2> QED BY <1>4, <2>6, <2>7, <2>8 DEF OpenCircuit, clock, tables
  <1>5. ASSUME NEW p \in Processes, Remember(p) PROVE TypeOK'
    <2> DEFINE r == run[p]
    <2>1. r \in Run /\ r # Unknown /\ Bucket[r.source] \in Buckets
      BY <1>5, RunTypes DEF Remember
    <2>2. r.day \in Time /\ r.minute \in Time /\ r.attempted \in Nat /\ r.limit \in Limit
      BY <2>1 DEF Run
    <2>3. dayUsed' \in [Buckets -> [Time -> Nat]] /\ minuteUsed' \in [Buckets -> [Time -> Nat]]
      BY <1>5, <2>1, <2>2, AddTypes DEF Remember
    <2>4. limits[Bucket[r.source]][r.day] \in Limit
      BY <2>1, <2>2
    <2>5. limits' \in [Buckets -> [Time -> Limit]]
      BY <1>5, <2>1, <2>2, <2>4 DEF Remember, Limit, Coalesce
    <2>6. run' = [run EXCEPT ![p] = Unknown]
      BY <1>5 DEF Remember
    <2> QED BY <1>5, <2>3, <2>5, <2>6 DEF Remember, clock
  <1>6. ASSUME NEW p \in Processes, Forget(p) PROVE TypeOK'
    <2>1. run[p] \in Run /\ Bucket[run[p].source] \in Buckets
      BY <1>6, RunTypes DEF Forget
    <2>2. lost' \in [Buckets -> Nat] /\ torn' \subseteq Sources /\ faults' \in 0..MaxFaults
      BY <1>6, <2>1 DEF Forget, Run, ConstantsAssumption
    <2> QED BY <1>6, <2>2 DEF Forget, clock, tables
  <1>7. ASSUME NEW midnight \in BOOLEAN, Tick(midnight) PROVE TypeOK'
    <2>1. now' \in Time /\ today' \in 0..now' /\ today' >= today /\ now' >= now
      BY <1>7 DEF Tick, Time, ConstantsAssumption
    <2>3. ASSUME NEW p \in Processes, run[p] # Unknown
          PROVE  run[p].day <= today' /\ run[p].minute <= now' /\ run[p].windowStart <= now'
      <3>1. run[p] \in Run
        BY <2>3
      <3>2. run[p].day \in Nat /\ run[p].minute \in Nat /\ run[p].windowStart \in Nat
        BY <3>1 DEF Run, Time
      <3>3. now \in Nat /\ today \in Nat /\ now' \in Nat /\ today' \in Nat
        BY <2>1 DEF Time
      <3> QED BY <2>1, <2>3, <3>2, <3>3
    <2> QED BY <1>7, <2>1, <2>3 DEF Tick, tables
  <1>8. CASE UNCHANGED vars
    BY <1>8 DEF vars, clock, tables
  <1> QED BY <1>1, <1>2, <1>3, <1>4, <1>5, <1>6, <1>7, <1>8 DEF Next

-----------------------------------------------------------------------------
(* With one process, the run that takes a step is the only one there is.    *)
LEMMA Only ==
    ASSUME SingleProcess, NEW p \in Processes, NEW q \in Processes
    PROVE  p = q
  BY DEF SingleProcess

Ledger == LedgerWithinDay /\ BaseIsLoaded

LEMMA LedgerStep ==
    ASSUME ConstantsAssumption, SingleProcess, TypeOK, Ledger, [Next]_vars
    PROVE  Ledger'
  <1> USE DEF Ledger, LedgerWithinDay, BaseIsLoaded
  <1>1. ASSUME NEW p \in Processes, NEW s \in Sources, StartRun(p, s) PROVE Ledger'
    <2> DEFINE new == IF HasCapacity(NewRun(s), NewRun(s).windowCount)
                      THEN NewRun(s) ELSE [NewRun(s) EXCEPT !.place = "remember"]
    <2>1. NewRun(s) \in Run
      BY LoadedTypes
    <2>2. new.source = s /\ new.day = today /\ new.attempted = 0
          /\ new.dayBase = dayUsed[Bucket[s]][today]
      BY <2>1 DEF Run, NewRun
    <2>3. run' = [run EXCEPT ![p] = new] /\ dayUsed' = dayUsed
      BY <1>1 DEF StartRun, tables
    <2> HIDE DEF new
    <2>4. \A q \in Processes : run'[q] = new
      BY <2>3, Only DEF TypeOK
    <2>5. Bucket[s] \in Buckets /\ today \in Time
      BY DEF ConstantsAssumption, TypeOK, Time
    <2>6. dayUsed[Bucket[s]][today] \in Nat
      BY <2>5 DEF TypeOK
    <2> QED BY <2>2, <2>3, <2>4, <2>5, <2>6
  <1>2. ASSUME NEW p \in Processes, NEW rolled \in BOOLEAN, NEW answer \in Answers,
               Request(p, rolled, answer)
        PROVE  Ledger'
    <2> DEFINE r == run[p]
    <2>1. r \in Run /\ Known(r) /\ Bucket[r.source] \in Buckets
      BY <1>2, RunTypes DEF Request, Active
    <2>2. /\ run'[p].source = r.source /\ run'[p].day = r.day
          /\ run'[p].dayBase = r.dayBase /\ run'[p].attempted = r.attempted + 1
      BY <1>2, <2>1 DEF Request, TypeOK, Run
    <2>3. r.dayBase + r.attempted + 1 <= PerDay
      BY <1>2 DEF Request, HasCapacity
    <2>4. dayUsed' = dayUsed
      BY <1>2 DEF Request, tables
    <2>5. r.dayBase = dayUsed[Bucket[r.source]][r.day]
      BY <2>1
    <2>6. \A q \in Processes : q = p
      BY Only
    <2>7. run'[p].dayBase = dayUsed'[Bucket[run'[p].source]][run'[p].day]
          /\ dayUsed'[Bucket[run'[p].source]][run'[p].day] + run'[p].attempted <= PerDay
      BY <2>1, <2>2, <2>3, <2>4, <2>5 DEF Run
    <2> QED BY <2>4, <2>6, <2>7
  <1>3. ASSUME NEW p \in Processes, Known(run[p]),
               Known(run'[p]) => /\ run'[p].source = run[p].source /\ run'[p].day = run[p].day
                                 /\ run'[p].dayBase = run[p].dayBase
                                 /\ run'[p].attempted = run[p].attempted,
               dayUsed' = dayUsed
        PROVE  Ledger'
    BY <1>3, Only
  <1>4. ASSUME NEW p \in Processes, NEW closes \in BOOLEAN, EndRun(p, closes) PROVE Ledger'
    <2>1. run[p] \in Run /\ Known(run[p])
      BY <1>4, RunTypes DEF EndRun, Active
    <2>2. /\ run'[p].source = run[p].source /\ run'[p].day = run[p].day
          /\ run'[p].dayBase = run[p].dayBase /\ run'[p].attempted = run[p].attempted
      BY <1>4, <2>1 DEF EndRun, TypeOK, Run
    <2> QED BY <1>3, <1>4, <2>1, <2>2 DEF EndRun, tables
  <1>5. ASSUME NEW p \in Processes, NEW until \in Announced, NEW recorded \in BOOLEAN,
               OpenCircuit(p, until, recorded)
        PROVE  Ledger'
    <2>1. run[p] \in Run /\ Known(run[p])
      BY <1>5, RunTypes DEF OpenCircuit, Active
    <2>2. /\ run'[p].source = run[p].source /\ run'[p].day = run[p].day
          /\ run'[p].dayBase = run[p].dayBase /\ run'[p].attempted = run[p].attempted
      BY <1>5, <2>1 DEF OpenCircuit, TypeOK, Run
    <2> QED BY <1>3, <1>5, <2>1, <2>2 DEF OpenCircuit, tables
  <1>6. ASSUME NEW p \in Processes, Remember(p) PROVE Ledger'
    <2> DEFINE r == run[p]
    <2>1. r \in Run /\ Known(r) /\ Bucket[r.source] \in Buckets
      BY <1>6, RunTypes DEF Remember
    <2>2. /\ r.day \in Time /\ r.attempted \in Nat
          /\ dayUsed \in [Buckets -> [Time -> Nat]]
      BY <2>1 DEF Run, TypeOK
    <2>3. dayUsed' = Add(dayUsed, Bucket[r.source], r.day, r.attempted)
      BY <1>6 DEF Remember
    <2>4. dayUsed'[Bucket[r.source]][r.day] = dayUsed[Bucket[r.source]][r.day] + r.attempted
      BY <2>1, <2>2, <2>3, AddTypes
    <2>5. dayUsed'[Bucket[r.source]][r.day] <= PerDay
      BY <2>1, <2>4
    <2>6. \A b \in Buckets, d \in Time :
              (b # Bucket[r.source] \/ d # r.day) => dayUsed'[b][d] = dayUsed[b][d]
      BY <2>1, <2>2, <2>3 DEF Add
    <2>7. \A b \in Buckets, d \in Time : dayUsed'[b][d] <= PerDay
      BY <2>5, <2>6
    <2>8. \A q \in Processes : ~Known(run'[q])
      BY <1>6, Only DEF Remember, TypeOK, Known
    <2> QED BY <2>7, <2>8
  <1>7. ASSUME NEW p \in Processes, Forget(p) PROVE Ledger'
    <2>1. \A q \in Processes : ~Known(run'[q])
      BY <1>7, Only DEF Forget, TypeOK, Known
    <2> QED BY <1>7, <2>1 DEF Forget, tables
  <1>8. ASSUME NEW midnight \in BOOLEAN, Tick(midnight) PROVE Ledger'
    BY <1>8 DEF Tick, tables
  <1>9. CASE UNCHANGED vars
    BY <1>9 DEF vars, tables
  <1> QED BY <1>1, <1>2, <1>4, <1>5, <1>6, <1>7, <1>8, <1>9 DEF Next

LEMMA DaysAheadStep ==
    ASSUME ConstantsAssumption, SingleProcess, TypeOK, DaysAheadUnknown, [Next]_vars
    PROVE  DaysAheadUnknown'
  <1> USE DEF DaysAheadUnknown
  <1>1. ASSUME NEW p \in Processes, NEW s \in Sources, StartRun(p, s)
        PROVE  DaysAheadUnknown'
    <2>1. NewRun(s) \in Run /\ NewRun(s).day = today
      BY LoadedTypes DEF NewRun
    <2>2. run'[p].day = today
      BY <1>1, <2>1 DEF StartRun, TypeOK, Run
    <2>3. \A q \in Processes : run'[q].day = today
      BY <2>2, Only
    <2> QED BY <1>1, <2>3 DEF StartRun, tables, clock
  <1>2. ASSUME NEW p \in Processes, Known(run[p]),
               Known(run'[p]) => run'[p].day = run[p].day,
               limits' = limits, today' = today
        PROVE  DaysAheadUnknown'
    <2>1. \A q \in Processes : q = p
      BY Only
    <2> QED BY <1>2, <2>1
  <1>3. ASSUME NEW p \in Processes, NEW rolled \in BOOLEAN, NEW answer \in Answers,
               Request(p, rolled, answer)
        PROVE  DaysAheadUnknown'
    <2>1. run[p] \in Run /\ Known(run[p])
      BY <1>3, RunTypes DEF Request, Active
    <2>2. run'[p].day = run[p].day
      BY <1>3, <2>1 DEF Request, TypeOK, Run
    <2> QED BY <1>2, <1>3, <2>1, <2>2 DEF Request, tables, clock
  <1>4. ASSUME NEW p \in Processes, NEW closes \in BOOLEAN, EndRun(p, closes)
        PROVE  DaysAheadUnknown'
    <2>1. run[p] \in Run /\ Known(run[p])
      BY <1>4, RunTypes DEF EndRun, Active
    <2>2. run'[p].day = run[p].day
      BY <1>4, <2>1 DEF EndRun, TypeOK, Run
    <2> QED BY <1>2, <1>4, <2>1, <2>2 DEF EndRun, tables, clock
  <1>5. ASSUME NEW p \in Processes, NEW until \in Announced, NEW recorded \in BOOLEAN,
               OpenCircuit(p, until, recorded)
        PROVE  DaysAheadUnknown'
    <2>1. run[p] \in Run /\ Known(run[p])
      BY <1>5, RunTypes DEF OpenCircuit, Active
    <2>2. run'[p].day = run[p].day
      BY <1>5, <2>1 DEF OpenCircuit, TypeOK, Run
    <2> QED BY <1>2, <1>5, <2>1, <2>2 DEF OpenCircuit, tables, clock
  <1>6. ASSUME NEW p \in Processes, Remember(p) PROVE DaysAheadUnknown'
    <2> DEFINE r == run[p]
    <2>1. r \in Run /\ Known(r) /\ r.day <= today
      BY <1>6, RunTypes DEF Remember, TypeOK
    <2>2. r.day \in Nat /\ today \in Nat
      BY <2>1 DEF Run, Time, TypeOK
    <2>3. \A q \in Processes : ~Known(run'[q])
      BY <1>6, Only DEF Remember, TypeOK, Known
    <2>4. ASSUME NEW b \in Buckets, NEW d \in Time, d > today
          PROVE  limits'[b][d] = limits[b][d]
      <3>1. d # r.day /\ d \in Nat
        BY <2>1, <2>2, <2>4 DEF Time
      <3> QED BY <1>6, <3>1 DEF Remember, TypeOK
    <2>5. today' = today
      BY <1>6 DEF Remember, clock
    <2> QED BY <2>3, <2>4, <2>5
  <1>7. ASSUME NEW p \in Processes, Forget(p) PROVE DaysAheadUnknown'
    <2>1. ~Known(run'[p]) /\ Known(run[p])
      BY <1>7 DEF Forget, TypeOK, Known
    <2> QED BY <1>2, <1>7, <2>1 DEF Forget, tables, clock
  <1>8. ASSUME NEW midnight \in BOOLEAN, Tick(midnight) PROVE DaysAheadUnknown'
    <2>1. today' >= today /\ today \in Nat /\ today' \in Nat
      BY <1>8 DEF Tick, TypeOK
    <2>2. limits' = limits /\ run' = run
      BY <1>8 DEF Tick, tables
    <2>3. \A d \in Time : d > today' => d > today
      BY <2>1 DEF Time
    <2> QED BY <2>2, <2>3
  <1>9. CASE UNCHANGED vars
    BY <1>9 DEF vars, tables, clock
  <1> QED BY <1>1, <1>3, <1>4, <1>5, <1>6, <1>7, <1>8, <1>9 DEF Next

-----------------------------------------------------------------------------
(* A run in progress is proof that its source's circuit is not open.        *)
LEMMA ActiveIsClosed ==
    ASSUME OpenIsHeld, NEW p \in Processes, Active(p), run[p].source \in Sources
    PROVE  ~Open(run[p].source)
  <1> SUFFICES ASSUME Open(run[p].source) PROVE FALSE
    OBVIOUS
  <1>1. p \in RunsOf(run[p].source)
    BY DEF Active, RunsOf
  <1>2. run[p].place = "remember"
    BY <1>1 DEF OpenIsHeld
  <1> QED BY <1>2 DEF Active

LEMMA CooldownStep ==
    ASSUME ConstantsAssumption, SingleProcess, TypeOK, DaysAheadUnknown, OpenIsHeld,
           [Next]_vars
    PROVE  OpenIsHeld'
  <1> SUFFICES ASSUME NEW s \in Sources, Open(s)'
               PROVE  /\ \A q \in RunsOf(s)' :
                             run'[q].place = "remember" /\ Holds(run'[q].limit, circuit'[s])
                      /\ RunsOf(s)' = {} =>
                             \/ ~Known(limits'[Bucket[s]][today'].remaining)
                             \/ Holds(limits'[Bucket[s]][today'], circuit'[s])
    BY DEF OpenIsHeld, Holds
  <1> DEFINE b == Bucket[s]
             row == limits[b][today]
             RunsHold == \A q \in RunsOf(s)' :
                 run'[q].place = "remember" /\ Holds(run'[q].limit, circuit'[s])
             RowHolds == \/ ~Known(limits'[b][today'].remaining)
                         \/ Holds(limits'[b][today'], circuit'[s])
  <1> SUFFICES RunsHold /\ (RunsOf(s)' = {} => RowHolds)
    OBVIOUS
  <1>a. b \in Buckets /\ today \in Time /\ now \in Nat /\ today \in Nat /\ row \in Limit
    BY DEF ConstantsAssumption, TypeOK, Time
  <1>b. Open(s) => /\ \A q \in RunsOf(s) : run[q].place = "remember" /\ Holds(run[q].limit, circuit[s])
                   /\ RunsOf(s) = {} => ~Known(row.remaining) \/ Holds(row, circuit[s])
    BY DEF OpenIsHeld
  <1>c. circuit[s] \in Optional
    BY DEF TypeOK
  <1>d. b = Bucket[s] /\ row = limits[b][today]
    OBVIOUS
  <1> HIDE DEF b, row
  <1>1. ASSUME NEW p \in Processes, NEW t \in Sources, StartRun(p, t)
        PROVE  RunsHold /\ RowHolds
    <2>1. /\ circuit' = circuit /\ limits' = limits /\ today' = today /\ now' = now
          /\ torn' = torn /\ ~Known(run[p])
      BY <1>1 DEF StartRun, tables, clock
    <2>2. Open(s) /\ circuit[s] \in Nat /\ circuit[s] > now
      BY <1>c, <2>1 DEF Open, Optional, Known
    <2>3. RunsOf(s) = {}
      BY <2>1, Only DEF RunsOf
    <2>4. ~Known(row.remaining) \/ Holds(row, circuit[s])
      BY <1>b, <2>2, <2>3
    <2>5. RowHolds
      BY <1>d, <2>1, <2>4
    <2>6. CASE t # s
      <3>1. NewRun(t) \in Run /\ NewRun(t).source = t
        BY LoadedTypes DEF NewRun
      <3>2. run'[p].source = t
        BY <1>1, <3>1 DEF StartRun, TypeOK, Run
      <3>3. RunsOf(s)' = {}
        BY <2>6, <3>2, Only DEF RunsOf
      <3> QED BY <2>5, <3>3
    <2>7. CASE t = s
      <3>1. LoadedLimit(s).remaining = 0 /\ Known(LoadedLimit(s).reset)
            /\ LoadedLimit(s).reset >= circuit[s] /\ LoadedLimit(s).reset > now
        <4>1. CASE ~Known(row.remaining)
          <5>1. LoadedLimit(s) = [remaining |-> 0, reset |-> circuit[s]]
            BY <1>a, <1>d, <2>2, <4>1
               DEF LoadedLimit, Known, Optional, ConstantsAssumption
          <5> QED BY <2>2, <5>1 DEF Known, ConstantsAssumption
        <4>2. CASE Known(row.remaining)
          <5>1. row.remaining = 0 /\ Known(row.reset) /\ row.reset >= circuit[s]
            BY <2>4, <4>2 DEF Holds
          <5>2. row.reset \in Nat
            BY <1>a, <5>1 DEF Limit, Optional, Known
          <5>3. row.reset > now
            BY <1>a, <2>2, <5>1, <5>2
          <5>4. LoadedLimit(s) = row
            BY <1>a, <1>d, <4>2, <5>2, <5>3 DEF LoadedLimit
          <5> QED BY <5>1, <5>3, <5>4
        <4> QED BY <4>1, <4>2
      <3>2. NewRun(s).limit = LoadedLimit(s) /\ NewRun(s) \in Run
        BY LoadedTypes DEF NewRun
      <3>3. ~HasCapacity(NewRun(s), NewRun(s).windowCount)
        BY <3>1, <3>2 DEF HasCapacity, Cooling
      <3>4. run'[p] = [NewRun(s) EXCEPT !.place = "remember"]
        BY <1>1, <2>7, <3>3 DEF StartRun, TypeOK
      <3>5. run'[p].place = "remember" /\ run'[p].limit = LoadedLimit(s)
        BY <3>2, <3>4 DEF Run
      <3>6. \A q \in RunsOf(s)' : q = p
        BY Only DEF RunsOf
      <3>7. RunsHold
        BY <2>1, <3>1, <3>5, <3>6 DEF Holds
      <3> QED BY <2>5, <3>7
    <2> QED BY <2>6, <2>7
  <1>2. ASSUME NEW p \in Processes, Known(run[p]), run[p].source = s, Open(s),
               run[p].place = "running"
        PROVE  FALSE
    BY <1>2, <1>b DEF RunsOf
  <1>3. ASSUME NEW p \in Processes, Known(run[p]), run[p].source # s,
               run'[p].source = run[p].source \/ ~Known(run'[p]),
               circuit'[s] = circuit[s], now' >= now, now' \in Nat, today' = today,
               s \notin torn' => s \notin torn, limits'[b] = limits[b]
        PROVE  RunsHold /\ RowHolds
    <2>1. Open(s)
      BY <1>3, <1>a, <1>c DEF Open, Optional, Known
    <2>2. RunsOf(s) = {} /\ RunsOf(s)' = {}
      BY <1>3, Only DEF RunsOf
    <2> QED BY <1>b, <1>d, <1>3, <2>1, <2>2
  <1>4. ASSUME NEW p \in Processes, NEW rolled \in BOOLEAN, NEW answer \in Answers,
               Request(p, rolled, answer)
        PROVE  RunsHold /\ RowHolds
    <2>1. run[p] \in Run /\ Known(run[p]) /\ run[p].place = "running"
      BY <1>4, RunTypes DEF Request, Active
    <2>2. run'[p].source = run[p].source
      BY <1>4, <2>1 DEF Request, TypeOK, Run
    <2>3. circuit' = circuit /\ now' = now /\ today' = today /\ torn' = torn /\ limits' = limits
      BY <1>4 DEF Request, tables, clock
    <2>4. Open(s)
      BY <2>3 DEF Open
    <2>5. run[p].source # s
      BY <1>2, <2>1, <2>4
    <2> QED BY <1>3, <1>a, <2>1, <2>2, <2>3, <2>5
  <1>5. ASSUME NEW p \in Processes, NEW closes \in BOOLEAN, EndRun(p, closes)
        PROVE  RunsHold /\ RowHolds
    <2>1. run[p] \in Run /\ Known(run[p]) /\ run[p].place = "running"
      BY <1>5, RunTypes DEF EndRun, Active
    <2>2. run'[p].source = run[p].source
      BY <1>5, <2>1 DEF EndRun, TypeOK, Run
    <2>3. now' = now /\ today' = today /\ torn' = torn /\ limits' = limits
      BY <1>5 DEF EndRun, tables, clock
    <2>4. circuit'[s] = circuit[s]
      BY <1>5 DEF EndRun, TypeOK, Open, Known
    <2>5. run[p].source # s
      BY <1>2, <2>1, <2>3, <2>4 DEF Open
    <2> QED BY <1>3, <1>a, <2>1, <2>2, <2>3, <2>4, <2>5
  <1>6. ASSUME NEW p \in Processes, NEW until \in Announced, NEW recorded \in BOOLEAN,
               OpenCircuit(p, until, recorded)
        PROVE  RunsHold /\ (RunsOf(s)' = {} => RowHolds)
    <2>1. run[p] \in Run /\ Known(run[p]) /\ run[p].place = "running"
      BY <1>6, RunTypes DEF OpenCircuit, Active
    <2>2. run'[p].source = run[p].source /\ run'[p].place = "remember"
          /\ run'[p].limit = [remaining |-> 0, reset |-> Coalesce(until, run[p].limit.reset)]
      BY <1>6, <2>1 DEF OpenCircuit, TypeOK, Run
    <2>3. now' = now /\ today' = today /\ limits' = limits
      BY <1>6 DEF OpenCircuit, tables, clock
    <2>4. CASE run[p].source # s
      <3>1. circuit'[s] = circuit[s] /\ (s \notin torn' => s \notin torn)
        BY <1>6, <2>4 DEF OpenCircuit, TypeOK
      <3> QED BY <1>3, <1>a, <2>1, <2>2, <2>3, <2>4, <3>1
    <2>5. CASE run[p].source = s
      <3>1. recorded
        <4> SUFFICES ASSUME ~recorded PROVE FALSE
          OBVIOUS
        <4>1. circuit' = circuit /\ torn' = torn
          BY <1>6 DEF OpenCircuit
        <4>2. Open(s)
          BY <2>3, <4>1 DEF Open
        <4> QED BY <1>2, <2>1, <2>5, <4>2
      <3>2. circuit'[s] = until
        BY <1>6, <2>5, <3>1 DEF OpenCircuit, TypeOK
      <3>3. Known(until)
        BY <3>2 DEF Open
      <3>4. until \in Nat
        BY <3>3 DEF Announced, Known, ConstantsAssumption
      <3>5. Holds(run'[p].limit, circuit'[s])
        BY <2>2, <3>2, <3>3, <3>4 DEF Holds, Coalesce
      <3>6. RunsHold
        BY <2>2, <3>5, Only DEF RunsOf
      <3>7. RowHolds \/ RunsOf(s)' # {}
        <4>1. run[p].limit.reset \in Optional /\ until \in Optional
          BY <2>1, <3>4 DEF Run, Limit, Optional
        <4>2. run'[p] = [run[p] EXCEPT !.place = "remember",
                             !.limit = [remaining |-> 0, reset |-> Coalesce(until, @.reset)]]
          BY <1>6 DEF OpenCircuit, TypeOK
        <4>3. run'[p].limit \in Limit
          BY <2>2, <4>1 DEF Limit, Coalesce, Optional
        <4>4. run'[p] = [run[p] EXCEPT !.place = "remember", !.limit = run'[p].limit]
          BY <2>1, <2>2, <4>2 DEF Run
        <4>5. run'[p] \in Run
          BY <2>1, <4>3, <4>4 DEF Run
        <4> QED BY <2>2, <2>5, <4>5, UnknownIsNoRun DEF RunsOf, Known
      <3> QED BY <3>6, <3>7
    <2> QED BY <2>4, <2>5
  <1>7. ASSUME NEW p \in Processes, Remember(p)
        PROVE  RunsHold /\ RowHolds
    <2> DEFINE r == run[p]
    <2>1. r \in Run /\ Known(r) /\ r.place = "remember" /\ Bucket[r.source] \in Buckets
      BY <1>7, RunTypes DEF Remember
    <2>2. /\ circuit' = circuit /\ now' = now /\ today' = today /\ torn' = torn
          /\ ~Known(run'[p])
      BY <1>7 DEF Remember, clock, TypeOK, Known
    <2>3. Open(s)
      BY <2>2 DEF Open
    <2>4. RunsOf(s)' = {} /\ RunsHold
      BY <2>2, Only DEF RunsOf
    <2>5. CASE r.source # s
      <3>1. Bucket[r.source] # b
        BY <1>d, <2>1, <2>3, <2>5 DEF Open, Private, Run
      <3>2. limits'[b] = limits[b]
        BY <1>7, <1>a, <2>1, <3>1 DEF Remember, TypeOK
      <3> QED BY <1>3, <1>a, <2>1, <2>2, <2>5, <3>2
    <2>6. CASE r.source = s
      <3>1. Holds(r.limit, circuit[s])
        BY <1>b, <2>1, <2>3, <2>6 DEF RunsOf
      <3>2. r.day \in Time /\ r.day <= today
        BY <2>1 DEF Run, TypeOK, Known
      <3>3. limits' = [limits EXCEPT ![b][r.day] =
                [remaining |-> Coalesce(r.limit.remaining, @.remaining),
                 reset     |-> Coalesce(r.limit.reset, @.reset)]]
        BY <1>7, <1>d, <2>6 DEF Remember
      <3>4. Known(r.limit.remaining)
        BY <3>1 DEF Holds, Known, ConstantsAssumption
      <3>5. CASE r.day = today
        <4>1. limits'[b][today] = [remaining |-> r.limit.remaining, reset |-> r.limit.reset]
          BY <1>a, <3>1, <3>3, <3>4, <3>5 DEF Holds, Coalesce, TypeOK
        <4> QED BY <2>2, <2>4, <3>1, <4>1 DEF Holds
      <3>6. CASE r.day # today
        <4>1. today > r.day
          BY <1>a, <3>2, <3>6 DEF Time
        <4>2. limits[b][today] = NoLimit
          BY <1>a, <2>1, <4>1 DEF DaysAheadUnknown
        <4>3. limits'[b][today] = limits[b][today]
          BY <1>a, <3>3, <3>6 DEF TypeOK
        <4> QED BY <2>2, <2>4, <4>2, <4>3 DEF NoLimit, Known
      <3> QED BY <3>5, <3>6
    <2> QED BY <2>5, <2>6
  <1>8. ASSUME NEW p \in Processes, Forget(p)
        PROVE  RunsHold /\ RowHolds
    <2>1. run[p] \in Run /\ Known(run[p]) /\ ~Known(run'[p])
      BY <1>8, RunTypes DEF Forget, TypeOK, Known
    <2>2. /\ circuit' = circuit /\ now' = now /\ today' = today /\ limits' = limits
          /\ torn \subseteq torn'
      BY <1>8 DEF Forget, tables, clock
    <2>3. Open(s)
      BY <2>2 DEF Open
    <2>4. run[p].source # s
      <3> SUFFICES ASSUME run[p].source = s PROVE FALSE
        OBVIOUS
      <3>1. run[p].place = "remember"
        BY <1>b, <2>1, <2>3 DEF RunsOf
      <3>2. s \in torn'
        BY <1>8, <3>1 DEF Forget
      <3> QED BY <3>2 DEF Open
    <2> QED BY <1>3, <1>a, <2>1, <2>2, <2>4
  <1>9. ASSUME NEW midnight \in BOOLEAN, Tick(midnight)
        PROVE  RunsHold /\ (RunsOf(s)' = {} => RowHolds)
    <2>1. /\ circuit' = circuit /\ torn' = torn /\ limits' = limits /\ run' = run
          /\ now' = now + 1 /\ today' \in {today, today + 1} /\ now' \in Time
      <3>1. now < MaxClock /\ now' = now + 1 /\ MaxClock \in Nat
        BY <1>9 DEF Tick, ConstantsAssumption
      <3>2. now' \in Time
        BY <1>a, <3>1 DEF Time
      <3> QED BY <1>9, <3>1, <3>2 DEF Tick, tables
    <2>2. circuit[s] \in Nat
      BY <1>c, <2>1 DEF Open, Optional, Known
    <2>3. Open(s)
      BY <1>a, <2>1, <2>2 DEF Open
    <2>4. RunsHold
      BY <1>b, <2>1, <2>3 DEF RunsOf
    <2>5. ASSUME RunsOf(s) = {} PROVE RowHolds
      <3>1. CASE today' = today
        BY <1>b, <1>d, <2>1, <2>3, <2>5, <3>1
      <3>2. CASE today' # today
        <4>1. today' \in Time /\ today' > today
          <5>1. today <= now /\ today' = today + 1 /\ now + 1 \in 0..MaxClock
            BY <1>a, <2>1, <3>2 DEF TypeOK, Time
          <5> QED BY <1>a, <5>1, ConstantsAssumption DEF Time, ConstantsAssumption
        <4>2. limits[b][today'] = NoLimit
          BY <1>a, <4>1 DEF DaysAheadUnknown
        <4> QED BY <2>1, <4>2 DEF NoLimit, Known
      <3> QED BY <3>1, <3>2
    <2> QED BY <2>1, <2>4, <2>5 DEF RunsOf
  <1>10. CASE UNCHANGED vars
    <2>1. /\ circuit' = circuit /\ torn' = torn /\ limits' = limits /\ run' = run
          /\ now' = now /\ today' = today
      BY <1>10 DEF vars, tables, clock
    <2> QED BY <1>b, <1>d, <2>1 DEF Open, RunsOf
  <1> QED BY <1>1, <1>4, <1>5, <1>6, <1>7, <1>8, <1>9, <1>10 DEF Next

-----------------------------------------------------------------------------
(* Sums over finite sets, which take their elements one at a time in an     *)
(* order of their own.  Facts about all of them hold by the smallest set   *)
(* that would be a counterexample.                                         *)
Below == {p \in Nat \X Nat : p[1] < p[2]}

LEMMA HasLeast ==
    ASSUME NEW S \in SUBSET Nat, S # {}
    PROVE  \E n \in S : \A m \in S : n <= m
  <1>1. IsWellFoundedOn(Below, Nat)
    BY NatLessThanWellFounded, Zenon DEF OpToRel, Below
  <1>2. PICK x \in S : \A y \in S : ~(<<y, x>> \in Below)
    BY <1>1, WFMin, Zenon
  <1>3. ASSUME NEW m \in S PROVE x <= m
    <2>1. <<m, x>> \in Nat \X Nat /\ m \in Nat /\ x \in Nat
      OBVIOUS
    <2>2. ~(m < x)
      BY <1>2, <2>1 DEF Below
    <2> QED BY <2>1, <2>2
  <1> QED BY <1>3

(* A set of finite subsets has one that contains no other.                  *)
LEMMA HasSmallest ==
    ASSUME NEW S, IsFiniteSet(S), NEW C \in SUBSET SUBSET S, C # {}
    PROVE  \E T \in C : \A x \in T : T \ {x} \notin C
  <1> DEFINE sizes == {Cardinality(T) : T \in C}
  <1>1. \A T \in SUBSET S : IsFiniteSet(T) /\ Cardinality(T) \in Nat
    BY FS_Subset, FS_CardinalityType
  <1>2. sizes \in SUBSET Nat /\ sizes # {}
    BY <1>1
  <1>3. PICK n \in sizes : \A m \in sizes : n <= m
    BY <1>2, HasLeast
  <1>4. PICK T \in C : Cardinality(T) = n
    BY <1>3
  <1>5. ASSUME NEW x \in T, T \ {x} \in C PROVE FALSE
    <2>1. Cardinality(T \ {x}) = Cardinality(T) - 1
      BY <1>1, <1>4, FS_RemoveElement
    <2>2. n <= Cardinality(T \ {x})
      BY <1>3, <1>5
    <2> QED BY <1>1, <1>4, <2>1, <2>2
  <1> QED BY <1>5

One(s) == CHOOSE x \in s : TRUE
Body(f, g, s) == IF s = {} THEN 0 ELSE f[One(s)] + g[s \ {One(s)}]
Sums(f, S) == CHOOSE g : g = [s \in SUBSET S |-> Body(f, g, s)]

LEMMA SumIsLast ==
    ASSUME NEW f, NEW S PROVE SumFunctionOnSet(f, S) = Sums(f, S)[S]
  BY DEF SumFunctionOnSet, FoldFunctionOnSet, MapThenFoldSet, Sums, Body, One

Upto(S, n) == {s \in SUBSET S : Cardinality(s) <= n}
Defines(f, S, n, g) == g = [s \in Upto(S, n) |-> Body(f, g, s)]

(* A sum is well defined: the recursion has a solution at each size of set. *)
LEMMA SumsExist ==
    ASSUME NEW f, NEW S, IsFiniteSet(S)
    PROVE  \E g : g = [s \in SUBSET S |-> Body(f, g, s)]
  <1> DEFINE bad == {n \in Nat : ~ \E g : Defines(f, S, n, g)}
  <1>1. \A s \in SUBSET S : IsFiniteSet(s) /\ Cardinality(s) \in Nat /\ Cardinality(s) <= Cardinality(S)
    BY FS_Subset, FS_CardinalityType
  <1>2. bad = {}
    <2> SUFFICES ASSUME bad # {} PROVE FALSE
      OBVIOUS
    <2>1. PICK n \in bad : \A m \in bad : n <= m
      <3>1. bad \in SUBSET Nat
        OBVIOUS
      <3> QED BY <3>1, HasLeast
    <2>2. CASE n = 0
      <3> DEFINE g == [s \in Upto(S, 0) |-> 0]
      <3>1. \A s \in Upto(S, 0) : s = {}
        BY <1>1, FS_EmptySet DEF Upto
      <3>2. Defines(f, S, 0, g)
        BY <3>1 DEF Defines, Body
      <3> QED BY <2>1, <2>2, <3>2
    <2>3. CASE n # 0
      <3>1. n - 1 \in Nat /\ n - 1 \notin bad
        BY <2>1, <2>3
      <3>2. PICK g : Defines(f, S, n - 1, g)
        BY <3>1
      <3> DEFINE h == [s \in Upto(S, n) |-> Body(f, g, s)]
      <3>3. \A s \in Upto(S, n - 1) : s \in Upto(S, n) /\ g[s] = Body(f, g, s)
        BY <1>1, <2>1, <3>2 DEF Defines, Upto
      <3>4. \A s \in Upto(S, n - 1) : h[s] = g[s]
        BY <3>3
      <3>5. ASSUME NEW s \in Upto(S, n), s # {}
            PROVE  s \ {One(s)} \in Upto(S, n - 1)
        <4>1. One(s) \in s /\ s \in SUBSET S /\ Cardinality(s) <= n
          BY <3>5 DEF One, Upto
        <4>2. Cardinality(s \ {One(s)}) = Cardinality(s) - 1
          BY <1>1, <4>1, FS_RemoveElement
        <4> QED BY <1>1, <2>1, <4>1, <4>2 DEF Upto
      <3> HIDE DEF h
      <3>6. \A s \in Upto(S, n) : Body(f, g, s) = Body(f, h, s)
        BY <3>4, <3>5 DEF Body
      <3>7. Defines(f, S, n, h)
        BY <3>6 DEF Defines, h
      <3> QED BY <2>1, <3>7
    <2> QED BY <2>2, <2>3
  <1>3. Cardinality(S) \in Nat /\ Upto(S, Cardinality(S)) = SUBSET S
    BY <1>1, FS_CardinalityType DEF Upto
  <1>4. PICK g : Defines(f, S, Cardinality(S), g)
    BY <1>2, <1>3
  <1> QED BY <1>3, <1>4 DEF Defines

LEMMA SumsAre ==
    ASSUME NEW f, NEW S, IsFiniteSet(S), NEW s \in SUBSET S
    PROVE  Sums(f, S)[s] = Body(f, Sums(f, S), s)
  <1>1. Sums(f, S) = [t \in SUBSET S |-> Body(f, Sums(f, S), t)]
    BY SumsExist, Zenon DEF Sums
  <1> QED BY <1>1

(* What is added up to a subset does not depend on the set it is taken from. *)
LEMMA SumsAgree ==
    ASSUME NEW f, NEW S, IsFiniteSet(S), NEW T \in SUBSET S, NEW s \in SUBSET T
    PROVE  Sums(f, T)[s] = Sums(f, S)[s]
  <1> DEFINE bad == {t \in SUBSET T : Sums(f, T)[t] # Sums(f, S)[t]}
  <1>1. IsFiniteSet(T)
    BY FS_Subset
  <1>2. bad = {}
    <2> SUFFICES ASSUME bad # {} PROVE FALSE
      OBVIOUS
    <2>1. PICK t \in bad : \A x \in t : t \ {x} \notin bad
      <3>1. bad \in SUBSET SUBSET T
        OBVIOUS
      <3> HIDE DEF bad
      <3> QED BY <1>1, <3>1, HasSmallest
    <2>2. t \in SUBSET T /\ t \in SUBSET S /\ Sums(f, T)[t] # Sums(f, S)[t]
      BY <2>1
    <2>3. t # {} => Sums(f, T)[t \ {One(t)}] = Sums(f, S)[t \ {One(t)}]
      BY <2>1 DEF One
    <2>4. Body(f, Sums(f, T), t) = Body(f, Sums(f, S), t)
      BY <2>3 DEF Body
    <2> QED BY <1>1, <2>2, <2>4, SumsAre
  <1> QED BY <1>2

LEMMA SumOfNone ==
    ASSUME NEW f PROVE SumFunctionOnSet(f, {}) = 0
  <1>1. IsFiniteSet({}) /\ {} \in SUBSET {}
    BY FS_EmptySet
  <1> QED BY <1>1, SumsAre, SumIsLast DEF Body

LEMMA SumOfSome ==
    ASSUME NEW f, NEW S, IsFiniteSet(S), S # {}
    PROVE  /\ One(S) \in S
           /\ SumFunctionOnSet(f, S) = f[One(S)] + SumFunctionOnSet(f, S \ {One(S)})
  <1> DEFINE T == S \ {One(S)}
  <1>1. One(S) \in S /\ T \in SUBSET S /\ T \in SUBSET T /\ S \in SUBSET S
    BY DEF One
  <1>2. Sums(f, S)[S] = f[One(S)] + Sums(f, S)[T]
    BY <1>1, SumsAre DEF Body
  <1>3. Sums(f, S)[T] = Sums(f, T)[T]
    BY <1>1, SumsAgree
  <1> QED BY <1>1, <1>2, <1>3, SumIsLast

LEMMA SumNat ==
    ASSUME NEW f, NEW S, IsFiniteSet(S), \A x \in S : f[x] \in Nat
    PROVE  SumFunctionOnSet(f, S) \in Nat
  <1> DEFINE bad == {t \in SUBSET S : SumFunctionOnSet(f, t) \notin Nat}
  <1> SUFFICES ASSUME bad # {} PROVE FALSE
    OBVIOUS
  <1>1. PICK t \in bad : \A x \in t : t \ {x} \notin bad
    <2>1. bad \in SUBSET SUBSET S
      OBVIOUS
    <2> HIDE DEF bad
    <2> QED BY <2>1, HasSmallest
  <1>2. IsFiniteSet(t) /\ t \in SUBSET S
    BY <1>1, FS_Subset
  <1>3. t # {}
    BY <1>1, SumOfNone
  <1>4. SumFunctionOnSet(f, t \ {One(t)}) \in Nat /\ f[One(t)] \in Nat
    BY <1>1, <1>2, <1>3, SumOfSome
  <1> QED BY <1>1, <1>2, <1>3, <1>4, SumOfSome

(* Any element may be the one taken out.                                    *)
LEMMA SumWithout ==
    ASSUME NEW f, NEW S, IsFiniteSet(S), \A x \in S : f[x] \in Nat, NEW e \in S
    PROVE  /\ SumFunctionOnSet(f, S \ {e}) \in Nat
           /\ SumFunctionOnSet(f, S) = f[e] + SumFunctionOnSet(f, S \ {e})
  <1> DEFINE Sum(t) == SumFunctionOnSet(f, t)
             bad == {t \in SUBSET S : \E x \in t : Sum(t) # f[x] + Sum(t \ {x})}
  <1>1. \A t \in SUBSET S : IsFiniteSet(t) /\ Sum(t) \in Nat
    BY FS_Subset, SumNat
  <1>2. bad = {}
    <2> SUFFICES ASSUME bad # {} PROVE FALSE
      OBVIOUS
    <2>1. PICK t \in bad : \A x \in t : t \ {x} \notin bad
      <3>1. bad \in SUBSET SUBSET S
        OBVIOUS
      <3> HIDE DEF bad
      <3> QED BY <3>1, HasSmallest
    <2>2. PICK x \in t : Sum(t) # f[x] + Sum(t \ {x})
      BY <2>1
    <2> DEFINE c == One(t)
               rest == t \ {c, x}
    <2>3. c \in t /\ Sum(t) = f[c] + Sum(t \ {c})
      BY <1>1, <2>1, SumOfSome
    <2>4. x # c /\ t \in SUBSET S
      BY <2>1, <2>2, <2>3
    <2> HIDE DEF c
    <2>5. (t \ {c}) \ {x} = rest /\ (t \ {x}) \ {c} = rest
      OBVIOUS
    <2>6. x \in t \ {c} /\ c \in t \ {x} /\ t \ {c} \in SUBSET S /\ t \ {x} \in SUBSET S
      BY <2>2, <2>3, <2>4
    <2>7. Sum(t \ {c}) = f[x] + Sum(rest)
      BY <2>1, <2>3, <2>5, <2>6
    <2>8. Sum(t \ {x}) = f[c] + Sum(rest)
      BY <2>1, <2>2, <2>5, <2>6
    <2>9. f[x] \in Nat /\ f[c] \in Nat /\ Sum(rest) \in Nat
      BY <1>1, <2>4, <2>3
    <2> HIDE DEF Sum
    <2> QED BY <2>2, <2>3, <2>7, <2>8, <2>9
  <1>3. S \in SUBSET S /\ S \ {e} \in SUBSET S
    OBVIOUS
  <1> QED BY <1>1, <1>2, <1>3

LEMMA SumSame ==
    ASSUME NEW f, NEW g, NEW S, IsFiniteSet(S), \A x \in S : f[x] = g[x]
    PROVE  SumFunctionOnSet(f, S) = SumFunctionOnSet(g, S)
  <1> DEFINE bad == {t \in SUBSET S : SumFunctionOnSet(f, t) # SumFunctionOnSet(g, t)}
  <1> SUFFICES ASSUME bad # {} PROVE FALSE
    OBVIOUS
  <1>1. PICK t \in bad : \A x \in t : t \ {x} \notin bad
    <2>1. bad \in SUBSET SUBSET S
      OBVIOUS
    <2> HIDE DEF bad
    <2> QED BY <2>1, HasSmallest
  <1>2. IsFiniteSet(t) /\ t \in SUBSET S
    BY <1>1, FS_Subset
  <1>3. t # {}
    BY <1>1, SumOfNone
  <1>4. One(t) \in t
    BY <1>2, <1>3, SumOfSome
  <1>5. /\ SumFunctionOnSet(f, t) = f[One(t)] + SumFunctionOnSet(f, t \ {One(t)})
        /\ SumFunctionOnSet(g, t) = g[One(t)] + SumFunctionOnSet(g, t \ {One(t)})
    BY <1>2, <1>3, SumOfSome
  <1>6. SumFunctionOnSet(f, t \ {One(t)}) = SumFunctionOnSet(g, t \ {One(t)})
    BY <1>1, <1>2, <1>4
  <1> QED BY <1>1, <1>2, <1>4, <1>5, <1>6

LEMMA SumAdds ==
    ASSUME NEW f, NEW g, NEW S, IsFiniteSet(S), NEW e \in S, NEW n \in Int,
           \A x \in S : f[x] \in Nat /\ g[x] \in Nat,
           \A x \in S \ {e} : g[x] = f[x], g[e] = f[e] + n
    PROVE  SumFunctionOnSet(g, S) = SumFunctionOnSet(f, S) + n
  <1>1. IsFiniteSet(S \ {e})
    BY FS_RemoveElement
  <1>2. SumFunctionOnSet(g, S \ {e}) = SumFunctionOnSet(f, S \ {e})
    BY <1>1, SumSame
  <1>3. /\ SumFunctionOnSet(f, S \ {e}) \in Nat
        /\ SumFunctionOnSet(f, S) = f[e] + SumFunctionOnSet(f, S \ {e})
    BY SumWithout
  <1>4. SumFunctionOnSet(g, S) = g[e] + SumFunctionOnSet(g, S \ {e})
    BY SumWithout
  <1> QED BY <1>2, <1>3, <1>4

LEMMA SumBounded ==
    ASSUME NEW f, NEW S, IsFiniteSet(S), NEW k \in Nat,
           \A x \in S : f[x] \in Nat /\ f[x] <= k
    PROVE  /\ Cardinality(S) \in Nat /\ SumFunctionOnSet(f, S) \in Nat
           /\ SumFunctionOnSet(f, S) <= Cardinality(S) * k
  <1> DEFINE Sum(t) == SumFunctionOnSet(f, t)
             bad == {t \in SUBSET S : ~(Sum(t) <= Cardinality(t) * k)}
  <1>1. \A t \in SUBSET S : IsFiniteSet(t) /\ Sum(t) \in Nat /\ Cardinality(t) \in Nat
    BY FS_Subset, FS_CardinalityType, SumNat
  <1>2. bad = {}
    <2> SUFFICES ASSUME bad # {} PROVE FALSE
      OBVIOUS
    <2>1. PICK t \in bad : \A x \in t : t \ {x} \notin bad
      <3>1. bad \in SUBSET SUBSET S
        OBVIOUS
      <3> HIDE DEF bad
      <3> QED BY <3>1, HasSmallest
    <2>2. t # {}
      BY <2>1, SumOfNone, FS_EmptySet
    <2> DEFINE x == One(t)
    <2>3. x \in t /\ Sum(t) = f[x] + Sum(t \ {x})
      BY <1>1, <2>1, <2>2, SumOfSome
    <2> HIDE DEF x
    <2>4. Cardinality(t \ {x}) = Cardinality(t) - 1
      BY <1>1, <2>1, <2>3, FS_RemoveElement
    <2>5. t \ {x} \in SUBSET S /\ t \in SUBSET S
      BY <2>1
    <2>6. Sum(t \ {x}) <= (Cardinality(t) - 1) * k
      BY <2>1, <2>3, <2>4, <2>5
    <2>7. f[x] \in Nat /\ f[x] <= k /\ Sum(t \ {x}) \in Nat /\ Cardinality(t) \in Nat
      BY <1>1, <2>3, <2>5
    <2>8. (Cardinality(t) - 1) * k + k = Cardinality(t) * k
      BY <2>7
    <2>9. (Cardinality(t) - 1) * k \in Int /\ Cardinality(t) * k \in Int
      BY <2>7
    <2>10. ~(Sum(t) <= Cardinality(t) * k)
      BY <2>1
    <2> HIDE DEF Sum
    <2> QED BY <2>3, <2>6, <2>7, <2>8, <2>9, <2>10
  <1>3. S \in SUBSET S
    OBVIOUS
  <1> QED BY <1>1, <1>2, <1>3

-----------------------------------------------------------------------------
(* Every request is accounted for.                                          *)
LEMMA SumMoves ==
    ASSUME NEW S, IsFiniteSet(S), NEW f \in [S -> Nat], NEW g \in [S -> Nat],
           NEW e \in S, \A x \in S \ {e} : g[x] = f[x]
    PROVE  /\ SumFunction(f) \in Nat /\ SumFunction(g) \in Nat
           /\ SumFunction(g) = SumFunction(f) + g[e] - f[e]
  <1>1. DOMAIN f = S /\ DOMAIN g = S /\ g[e] - f[e] \in Int /\ g[e] = f[e] + (g[e] - f[e])
    OBVIOUS
  <1>2. SumFunctionOnSet(f, S) \in Nat /\ SumFunctionOnSet(g, S) \in Nat
    BY SumNat
  <1>3. SumFunctionOnSet(g, S) = SumFunctionOnSet(f, S) + (g[e] - f[e])
    BY <1>1, SumAdds
  <1>4. SumFunction(f) = SumFunctionOnSet(f, S) /\ SumFunction(g) = SumFunctionOnSet(g, S)
    BY <1>1 DEF SumFunction
  <1>5. f[e] \in Nat /\ g[e] \in Nat
    OBVIOUS
  <1> QED BY <1>2, <1>3, <1>4, <1>5

LEMMA SumOfZeros ==
    ASSUME NEW S, IsFiniteSet(S), NEW f \in [S -> {0}]
    PROVE  SumFunction(f) = 0
  <1>1. /\ Cardinality(S) \in Nat /\ SumFunctionOnSet(f, S) \in Nat
        /\ SumFunctionOnSet(f, S) <= Cardinality(S) * 0
    <2>1. 0 \in Nat /\ \A x \in S : f[x] \in Nat /\ f[x] <= 0
      OBVIOUS
    <2> QED BY ONLY <2>1, IsFiniteSet(S), SumBounded
  <1>2. SumFunctionOnSet(f, S) = 0
    BY <1>1
  <1> QED BY <1>2 DEF SumFunction

LEMMA TimeIsFinite == ASSUME ConstantsAssumption PROVE IsFiniteSet(Time)
  BY FS_Interval DEF ConstantsAssumption, Time

LEMMA PlusSums ==
    ASSUME ConstantsAssumption, NEW f \in [Time -> Nat], NEW t \in Time, NEW n \in Nat
    PROVE  /\ SumFunction(f) \in Nat
           /\ SumFunction([f EXCEPT ![t] = f[t] + n]) = SumFunction(f) + n
  <1> DEFINE g == [f EXCEPT ![t] = f[t] + n]
  <1>1. /\ g \in [Time -> Nat] /\ \A u \in Time \ {t} : g[u] = f[u]
        /\ g[t] = f[t] + n /\ f[t] \in Nat
    OBVIOUS
  <1> HIDE DEF g
  <1>2. /\ SumFunction(f) \in Nat /\ SumFunction(g) \in Nat
        /\ SumFunction(g) = SumFunction(f) + g[t] - f[t]
    BY <1>1, TimeIsFinite, SumMoves
  <1> QED BY <1>1, <1>2 DEF g

(* What one run holds of an account's requests.                             *)
Owes(r, b) == IF Known(r) /\ Bucket[r.source] = b THEN r.attempted ELSE 0

LEMMA HeldMoves ==
    ASSUME ConstantsAssumption, TypeOK, NEW p \in Processes, NEW b \in Buckets,
           NEW new \in Run \cup {Unknown}, run' = [run EXCEPT ![p] = new]
    PROVE  /\ SumFunction(Held(b)) \in Nat
           /\ SumFunction(Held(b)') = SumFunction(Held(b)) + Owes(new, b) - Owes(run[p], b)
           /\ Owes(new, b) \in Nat /\ Owes(run[p], b) \in Nat
  <1>1. \A r \in Run \cup {Unknown} : Owes(r, b) \in Nat
    BY DEF Owes, Known, Run
  <1>2. run \in [Processes -> Run \cup {Unknown}]
    BY DEF TypeOK
  <1>3. Held(b) = [q \in Processes |-> Owes(run[q], b)]
    BY DEF Held, Owes
  <1>4. Held(b)' = [q \in Processes |-> Owes(run'[q], b)]
    BY DEF Held, Owes
  <1> DEFINE f == [q \in Processes |-> Owes(run[q], b)]
             g == [q \in Processes |-> Owes(run'[q], b)]
  <1>5. f \in [Processes -> Nat] /\ g \in [Processes -> Nat]
    BY <1>1, <1>2
  <1>6. g[p] = Owes(new, b) /\ f[p] = Owes(run[p], b) /\ \A q \in Processes \ {p} : g[q] = f[q]
    BY <1>2
  <1> HIDE DEF f, g
  <1>7. SumFunction(f) \in Nat /\ SumFunction(g) = SumFunction(f) + g[p] - f[p]
    BY <1>5, <1>6, SumMoves DEF ConstantsAssumption
  <1> QED BY <1>1, <1>2, <1>3, <1>4, <1>6, <1>7 DEF f, g

LEMMA AccountStep ==
    ASSUME ConstantsAssumption, TypeOK, AllAccounted, [Next]_vars
    PROVE  AllAccounted'
  <1> SUFFICES ASSUME NEW b \in Buckets
               PROVE  SumFunction(sentDay'[b])
                        = SumFunction(dayUsed'[b]) + lost'[b] + SumFunction(Held(b)')
    BY DEF AllAccounted
  <1>a. SumFunction(sentDay[b]) = SumFunction(dayUsed[b]) + lost[b] + SumFunction(Held(b))
    BY DEF AllAccounted
  <1>b. /\ sentDay \in [Buckets -> [Time -> Nat]] /\ dayUsed \in [Buckets -> [Time -> Nat]]
        /\ lost[b] \in Nat /\ today \in Time /\ 0 \in Time
    BY DEF TypeOK, Time, ConstantsAssumption
  <1>c. SumFunction(sentDay[b]) \in Nat /\ SumFunction(dayUsed[b]) \in Nat
    <2>1. sentDay[b] \in [Time -> Nat] /\ dayUsed[b] \in [Time -> Nat] /\ 0 \in Nat
      BY <1>b
    <2> QED BY <1>b, <2>1, PlusSums
  <1>1. ASSUME NEW p \in Processes, NEW s \in Sources, StartRun(p, s)
        PROVE  SumFunction(sentDay'[b])
                 = SumFunction(dayUsed'[b]) + lost'[b] + SumFunction(Held(b)')
    <2> DEFINE new == IF HasCapacity(NewRun(s), NewRun(s).windowCount)
                      THEN NewRun(s) ELSE [NewRun(s) EXCEPT !.place = "remember"]
    <2>1. new \in Run /\ new.attempted = 0
      BY LoadedTypes DEF NewRun, Run
    <2>2. run' = [run EXCEPT ![p] = new] /\ ~Known(run[p])
      BY <1>1 DEF StartRun
    <2> HIDE DEF new
    <2>3. Owes(new, b) = 0 /\ Owes(run[p], b) = 0
      BY <2>1, <2>2 DEF Owes
    <2>4. SumFunction(Held(b)') = SumFunction(Held(b))
      <3>1. /\ SumFunction(Held(b)) \in Nat
            /\ SumFunction(Held(b)') = SumFunction(Held(b)) + Owes(new, b) - Owes(run[p], b)
        BY <2>1, <2>2, HeldMoves
      <3> QED BY <2>3, <3>1
    <2> QED BY <1>1, <1>a, <2>4 DEF StartRun, tables
  <1>2. ASSUME NEW p \in Processes, NEW rolled \in BOOLEAN, NEW answer \in Answers,
               Request(p, rolled, answer)
        PROVE  SumFunction(sentDay'[b])
                 = SumFunction(dayUsed'[b]) + lost'[b] + SumFunction(Held(b)')
    <2> DEFINE r == run[p]
    <2>1. r \in Run /\ Known(r) /\ Bucket[r.source] \in Buckets
      BY <1>2, RunTypes DEF Request, Active
    <2>2. PICK new \in Run :
             /\ run' = [run EXCEPT ![p] = new]
             /\ new.source = r.source /\ new.attempted = r.attempted + 1
      BY <1>2, RequestShape
    <2>5. Known(new)
      BY UnknownIsNoRun DEF Known
    <2>6. Owes(new, b) = Owes(r, b) + (IF b = Bucket[r.source] THEN 1 ELSE 0)
      BY <2>1, <2>2, <2>5 DEF Owes, Run
    <2>7. /\ SumFunction(Held(b)') = SumFunction(Held(b)) + Owes(new, b) - Owes(r, b)
          /\ SumFunction(Held(b)) \in Nat /\ Owes(r, b) \in Nat
      BY <2>2, HeldMoves
    <2>8. sentDay' = Add(sentDay, Bucket[r.source], today, 1) /\ dayUsed' = dayUsed /\ lost' = lost
      BY <1>2 DEF Request, tables
    <2>9. SumFunction(sentDay'[b])
            = SumFunction(sentDay[b]) + (IF b = Bucket[r.source] THEN 1 ELSE 0)
      <3>1. CASE b = Bucket[r.source]
        <4>1. sentDay[b] \in [Time -> Nat] /\ 1 \in Nat
          BY <1>b
        <4>2. sentDay'[b] = [sentDay[b] EXCEPT ![today] = sentDay[b][today] + 1]
          BY <1>b, <2>8, <3>1 DEF Add
        <4>3. SumFunction([sentDay[b] EXCEPT ![today] = sentDay[b][today] + 1])
                = SumFunction(sentDay[b]) + 1
          BY <1>b, <4>1, PlusSums
        <4> QED BY <3>1, <4>2, <4>3
      <3>2. CASE b # Bucket[r.source]
        <4>1. sentDay'[b] = sentDay[b]
          BY <1>b, <2>8, <3>2 DEF Add
        <4> QED BY <1>c, <3>2, <4>1
      <3> QED BY <3>1, <3>2
    <2> QED BY <1>a, <1>b, <1>c, <2>6, <2>7, <2>8, <2>9
  <1>3. ASSUME NEW p \in Processes, Known(run[p]), NEW new \in Run,
               run' = [run EXCEPT ![p] = new],
               new.source = run[p].source, new.attempted = run[p].attempted,
               sentDay' = sentDay, dayUsed' = dayUsed, lost' = lost
        PROVE  SumFunction(sentDay'[b])
                 = SumFunction(dayUsed'[b]) + lost'[b] + SumFunction(Held(b)')
    <2>1. Known(new)
      BY UnknownIsNoRun DEF Known
    <2>2. Owes(new, b) = Owes(run[p], b)
      BY <1>3, <2>1 DEF Owes
    <2>3. SumFunction(Held(b)') = SumFunction(Held(b))
      <3>1. /\ SumFunction(Held(b)) \in Nat /\ Owes(run[p], b) \in Nat
            /\ SumFunction(Held(b)') = SumFunction(Held(b)) + Owes(new, b) - Owes(run[p], b)
        BY <1>3, HeldMoves
      <3> QED BY <2>2, <3>1
    <2> QED BY <1>a, <1>3, <2>3
  <1>4. ASSUME NEW p \in Processes, NEW closes \in BOOLEAN, EndRun(p, closes)
        PROVE  SumFunction(sentDay'[b])
                 = SumFunction(dayUsed'[b]) + lost'[b] + SumFunction(Held(b)')
    <2> DEFINE new == [run[p] EXCEPT !.place = "remember"]
    <2>1. run[p] \in Run /\ Known(run[p])
      BY <1>4, RunTypes DEF EndRun, Active
    <2>2. new \in Run /\ new.source = run[p].source /\ new.attempted = run[p].attempted
      BY <2>1 DEF Run
    <2>3. run' = [run EXCEPT ![p] = new]
      BY <1>4 DEF EndRun
    <2> HIDE DEF new
    <2> QED BY <1>3, <1>4, <2>1, <2>2, <2>3 DEF EndRun, tables
  <1>5. ASSUME NEW p \in Processes, NEW until \in Announced, NEW recorded \in BOOLEAN,
               OpenCircuit(p, until, recorded)
        PROVE  SumFunction(sentDay'[b])
                 = SumFunction(dayUsed'[b]) + lost'[b] + SumFunction(Held(b)')
    <2> DEFINE new == [run[p] EXCEPT !.place = "remember",
                            !.limit = [remaining |-> 0, reset |-> Coalesce(until, @.reset)]]
    <2>1. run[p] \in Run /\ Known(run[p])
      BY <1>5, RunTypes DEF OpenCircuit, Active
    <2>2. Coalesce(until, run[p].limit.reset) \in Optional
      BY <2>1 DEF Coalesce, Run, Limit, Announced, Optional, ConstantsAssumption
    <2>3. new \in Run /\ new.source = run[p].source /\ new.attempted = run[p].attempted
      BY <2>1, <2>2 DEF Run, Limit, Optional
    <2>4. run' = [run EXCEPT ![p] = new]
      BY <1>5 DEF OpenCircuit
    <2> HIDE DEF new
    <2> QED BY <1>3, <1>5, <2>1, <2>3, <2>4 DEF OpenCircuit, tables
  <1>6. ASSUME NEW p \in Processes, Remember(p)
        PROVE  SumFunction(sentDay'[b])
                 = SumFunction(dayUsed'[b]) + lost'[b] + SumFunction(Held(b)')
    <2> DEFINE r == run[p]
    <2>1. r \in Run /\ Known(r) /\ Bucket[r.source] \in Buckets
      BY <1>6, RunTypes DEF Remember
    <2>2. r.day \in Time /\ r.attempted \in Nat
      BY <2>1 DEF Run
    <2>3. /\ dayUsed' = Add(dayUsed, Bucket[r.source], r.day, r.attempted)
          /\ run' = [run EXCEPT ![p] = Unknown] /\ sentDay' = sentDay /\ lost' = lost
      BY <1>6 DEF Remember
    <2>4. SumFunction(dayUsed'[b])
            = SumFunction(dayUsed[b]) + (IF b = Bucket[r.source] THEN r.attempted ELSE 0)
      <3>1. CASE b = Bucket[r.source]
        <4>1. dayUsed[b] \in [Time -> Nat]
          BY <1>b
        <4>2. dayUsed'[b] = [dayUsed[b] EXCEPT ![r.day] = dayUsed[b][r.day] + r.attempted]
          BY <1>b, <2>3, <3>1 DEF Add
        <4>3. SumFunction([dayUsed[b] EXCEPT ![r.day] = dayUsed[b][r.day] + r.attempted])
                = SumFunction(dayUsed[b]) + r.attempted
          BY <2>2, <4>1, PlusSums
        <4> QED BY <3>1, <4>2, <4>3
      <3>2. CASE b # Bucket[r.source]
        <4>1. dayUsed'[b] = dayUsed[b]
          BY <1>b, <2>3, <3>2 DEF Add
        <4> QED BY <1>c, <3>2, <4>1
      <3> QED BY <3>1, <3>2
    <2>5. Owes(Unknown, b) = 0 /\ Owes(r, b) = (IF b = Bucket[r.source] THEN r.attempted ELSE 0)
      BY <2>1 DEF Owes, Known
    <2>6. SumFunction(Held(b)') = SumFunction(Held(b)) + Owes(Unknown, b) - Owes(r, b)
          /\ SumFunction(Held(b)) \in Nat
      BY <2>3, HeldMoves
    <2> QED BY <1>a, <1>b, <1>c, <2>2, <2>3, <2>4, <2>5, <2>6
  <1>7. ASSUME NEW p \in Processes, Forget(p)
        PROVE  SumFunction(sentDay'[b])
                 = SumFunction(dayUsed'[b]) + lost'[b] + SumFunction(Held(b)')
    <2> DEFINE r == run[p]
    <2>1. r \in Run /\ Known(r) /\ Bucket[r.source] \in Buckets /\ r.attempted \in Nat
      BY <1>7, RunTypes DEF Forget, Run
    <2>2. /\ lost' = [lost EXCEPT ![Bucket[r.source]] = @ + r.attempted]
          /\ run' = [run EXCEPT ![p] = Unknown] /\ sentDay' = sentDay /\ dayUsed' = dayUsed
      BY <1>7 DEF Forget, tables
    <2>3. lost'[b] = lost[b] + (IF b = Bucket[r.source] THEN r.attempted ELSE 0)
      BY <1>b, <2>1, <2>2 DEF TypeOK
    <2>4. Owes(Unknown, b) = 0 /\ Owes(r, b) = (IF b = Bucket[r.source] THEN r.attempted ELSE 0)
      BY <2>1 DEF Owes, Known
    <2>5. SumFunction(Held(b)') = SumFunction(Held(b)) + Owes(Unknown, b) - Owes(r, b)
          /\ SumFunction(Held(b)) \in Nat
      BY <2>2, HeldMoves
    <2> QED BY <1>a, <1>b, <1>c, <2>1, <2>2, <2>3, <2>4, <2>5
  <1>8. ASSUME sentDay' = sentDay, dayUsed' = dayUsed, lost' = lost, run' = run
        PROVE  SumFunction(sentDay'[b])
                 = SumFunction(dayUsed'[b]) + lost'[b] + SumFunction(Held(b)')
    <2>1. Held(b)' = Held(b)
      BY <1>8 DEF Held
    <2> QED BY <1>a, <1>8, <2>1
  <1>9. ASSUME NEW midnight \in BOOLEAN, Tick(midnight)
        PROVE  SumFunction(sentDay'[b])
                 = SumFunction(dayUsed'[b]) + lost'[b] + SumFunction(Held(b)')
    BY <1>8, <1>9 DEF Tick, tables
  <1>10. CASE UNCHANGED vars
    BY <1>8, <1>10 DEF vars, tables
  <1> QED BY <1>1, <1>2, <1>4, <1>5, <1>6, <1>7, <1>9, <1>10 DEF Next

-----------------------------------------------------------------------------
(* The overrun.  A run can still add to its day what the day it loaded, and *)
(* the run limit, leave it; a run that loads a full day adds nothing.      *)
RunBounds ==
    \A p \in Processes : Known(run[p]) =>
        /\ run[p].attempted <= PerRun
        /\ run[p].attempted > 0 => run[p].dayBase + run[p].attempted <= PerDay

Share(r, b, d) ==
    IF Known(r) /\ Bucket[r.source] = b /\ r.day = d /\ r.dayBase < PerDay
    THEN IF PerDay - r.dayBase < PerRun THEN PerDay - r.dayBase ELSE PerRun
    ELSE 0

Shares(b, d) == [p \in Processes |-> Share(run[p], b, d)]
Ceiling == PerDay + (Cardinality(Processes) - 1) * PerRun

OverrunKept ==
    \A b \in Buckets, d \in Time : dayUsed[b][d] + SumFunction(Shares(b, d)) <= Ceiling

LEMMA CeilingIs ==
    ASSUME ConstantsAssumption
    PROVE  /\ PerDay \in Nat \ {0} /\ PerRun \in Nat \ {0} /\ Cardinality(Processes) - 1 \in Nat
           /\ (Cardinality(Processes) - 1) * PerRun \in Nat /\ Ceiling \in Nat
  <1>1. IsFiniteSet(Processes) /\ Processes # {} /\ PerRun \in Nat \ {0} /\ PerDay \in Nat \ {0}
    BY DEF ConstantsAssumption
  <1>2. Cardinality(Processes) \in Nat /\ Cardinality(Processes) # 0
    BY <1>1, FS_CardinalityType, FS_EmptySet
  <1>3. Cardinality(Processes) - 1 \in Nat
    BY <1>2
  <1>4. (Cardinality(Processes) - 1) * PerRun \in Nat
    BY <1>1, <1>3
  <1> QED BY <1>1, <1>3, <1>4 DEF Ceiling

LEMMA ShareIs ==
    ASSUME ConstantsAssumption, NEW r \in Run \cup {Unknown}, NEW b, NEW d
    PROVE  Share(r, b, d) \in 0..PerRun
  <1>1. PerDay \in Nat /\ PerRun \in Nat
    BY DEF ConstantsAssumption
  <1>2. Known(r) => r.dayBase \in Nat
    BY DEF Known, Run
  <1> QED BY <1>1, <1>2 DEF Share

LEMMA SharesMove ==
    ASSUME ConstantsAssumption, TypeOK, NEW p \in Processes, NEW b \in Buckets, NEW d \in Time,
           NEW new \in Run \cup {Unknown}, run' = [run EXCEPT ![p] = new]
    PROVE  /\ SumFunction(Shares(b, d)) \in Nat
           /\ SumFunction(Shares(b, d)')
                = SumFunction(Shares(b, d)) + Share(new, b, d) - Share(run[p], b, d)
           /\ Share(new, b, d) \in Nat /\ Share(run[p], b, d) \in Nat
  <1>1. \A r \in Run \cup {Unknown} : Share(r, b, d) \in Nat
    BY ShareIs
  <1>2. run \in [Processes -> Run \cup {Unknown}]
    BY DEF TypeOK
  <1> DEFINE f == [q \in Processes |-> Share(run[q], b, d)]
             g == [q \in Processes |-> Share(run'[q], b, d)]
  <1>3. Shares(b, d) = f /\ Shares(b, d)' = g
    BY DEF Shares, Share
  <1>4. f \in [Processes -> Nat] /\ g \in [Processes -> Nat]
    BY <1>1, <1>2
  <1>5. /\ g[p] = Share(new, b, d) /\ f[p] = Share(run[p], b, d)
        /\ \A q \in Processes \ {p} : g[q] = f[q]
    BY <1>2
  <1>6. Share(new, b, d) \in Nat /\ Share(run[p], b, d) \in Nat
    BY <1>1, <1>2
  <1> HIDE DEF f, g
  <1>7. SumFunction(f) \in Nat /\ SumFunction(g) = SumFunction(f) + g[p] - f[p]
    BY <1>4, <1>5, SumMoves DEF ConstantsAssumption
  <1> QED BY <1>3, <1>5, <1>6, <1>7

(* The other runs together can add no more than one run limit each.         *)
LEMMA OthersBounded ==
    ASSUME ConstantsAssumption, TypeOK, NEW p \in Processes, NEW b \in Buckets, NEW d \in Time,
           ~Known(run[p])
    PROVE  SumFunction(Shares(b, d)) <= (Cardinality(Processes) - 1) * PerRun
  <1> DEFINE f == Shares(b, d)
             rest == Processes \ {p}
  <1>1. IsFiniteSet(Processes) /\ PerRun \in Nat
    BY DEF ConstantsAssumption
  <1>2. DOMAIN f = Processes /\ f[p] = 0
    BY DEF Shares, Share
  <1>3. \A q \in Processes : f[q] \in Nat /\ f[q] <= PerRun
    <2>1. ASSUME NEW q \in Processes PROVE f[q] \in 0..PerRun
      <3>1. f[q] = Share(run[q], b, d) /\ run[q] \in Run \cup {Unknown}
        BY DEF Shares, TypeOK
      <3> QED BY <3>1, ShareIs
    <2> QED BY <1>1, <2>1
  <1>4. IsFiniteSet(rest) /\ Cardinality(rest) = Cardinality(Processes) - 1
    BY <1>1, FS_RemoveElement
  <1> HIDE DEF f
  <1>5. /\ SumFunctionOnSet(f, rest) \in Nat
        /\ SumFunctionOnSet(f, rest) <= Cardinality(rest) * PerRun
    BY <1>1, <1>3, <1>4, SumBounded
  <1>6. SumFunctionOnSet(f, Processes) = f[p] + SumFunctionOnSet(f, rest)
    BY <1>1, <1>3, SumWithout
  <1>7. SumFunction(f) = SumFunctionOnSet(f, Processes)
    BY <1>2 DEF SumFunction
  <1>8. SumFunction(f) = SumFunctionOnSet(f, rest)
    BY <1>2, <1>5, <1>6, <1>7
  <1> QED BY <1>4, <1>5, <1>8 DEF f

LEMMA RunBoundsStep ==
    ASSUME ConstantsAssumption, TypeOK, RunBounds, [Next]_vars
    PROVE  RunBounds'
  <1> USE DEF RunBounds
  <1>a. PerRun \in Nat /\ PerDay \in Nat
    BY DEF ConstantsAssumption
  <1>1. ASSUME NEW p \in Processes, NEW s \in Sources, StartRun(p, s) PROVE RunBounds'
    <2>1. NewRun(s) \in Run /\ NewRun(s).attempted = 0
      BY LoadedTypes DEF NewRun
    <2>2. run'[p].attempted = 0 /\ \A q \in Processes \ {p} : run'[q] = run[q]
      BY <1>1, <2>1 DEF StartRun, TypeOK, Run
    <2> QED BY <1>a, <2>2
  <1>2. ASSUME NEW p \in Processes, NEW rolled \in BOOLEAN, NEW answer \in Answers,
               Request(p, rolled, answer)
        PROVE  RunBounds'
    <2>1. run[p] \in Run
      BY <1>2, RunTypes DEF Request, Active
    <2>2. PICK new \in Run :
             /\ run' = [run EXCEPT ![p] = new]
             /\ new.dayBase = run[p].dayBase /\ new.attempted = run[p].attempted + 1
      BY <1>2, RequestShape
    <2>3. run[p].dayBase + run[p].attempted + 1 <= PerDay /\ run[p].attempted + 1 <= PerRun
      BY <1>2 DEF Request, HasCapacity
    <2>4. run'[p] = new /\ \A q \in Processes \ {p} : run'[q] = run[q]
      BY <2>2 DEF TypeOK
    <2>5. run[p].dayBase \in Nat /\ run[p].attempted \in Nat
      BY <2>1 DEF Run
    <2>6. new.attempted <= PerRun /\ new.dayBase + new.attempted <= PerDay
      BY <1>a, <2>2, <2>3, <2>5
    <2> QED BY <2>4, <2>6
  <1>3. ASSUME NEW p \in Processes, Known(run[p]),
               Known(run'[p]) => /\ run'[p].dayBase = run[p].dayBase
                                 /\ run'[p].attempted = run[p].attempted,
               \A q \in Processes \ {p} : run'[q] = run[q]
        PROVE  RunBounds'
    BY <1>3
  <1>4. ASSUME NEW p \in Processes, NEW closes \in BOOLEAN, EndRun(p, closes) PROVE RunBounds'
    <2>1. run[p] \in Run /\ Known(run[p])
      BY <1>4, RunTypes DEF EndRun, Active
    <2>2. /\ run'[p].dayBase = run[p].dayBase /\ run'[p].attempted = run[p].attempted
          /\ \A q \in Processes \ {p} : run'[q] = run[q]
      BY <1>4, <2>1 DEF EndRun, TypeOK, Run
    <2> QED BY <1>3, <2>1, <2>2
  <1>5. ASSUME NEW p \in Processes, NEW until \in Announced, NEW recorded \in BOOLEAN,
               OpenCircuit(p, until, recorded)
        PROVE  RunBounds'
    <2>1. run[p] \in Run /\ Known(run[p])
      BY <1>5, RunTypes DEF OpenCircuit, Active
    <2>2. /\ run'[p].dayBase = run[p].dayBase /\ run'[p].attempted = run[p].attempted
          /\ \A q \in Processes \ {p} : run'[q] = run[q]
      BY <1>5, <2>1 DEF OpenCircuit, TypeOK, Run
    <2> QED BY <1>3, <2>1, <2>2
  <1>6. ASSUME NEW p \in Processes, Remember(p) \/ Forget(p) PROVE RunBounds'
    <2>1. Known(run[p]) /\ ~Known(run'[p]) /\ \A q \in Processes \ {p} : run'[q] = run[q]
      BY <1>6 DEF Remember, Forget, TypeOK, Known
    <2> QED BY <1>3, <2>1
  <1>7. ASSUME NEW midnight \in BOOLEAN, Tick(midnight) PROVE RunBounds'
    BY <1>7 DEF Tick
  <1>8. CASE UNCHANGED vars
    BY <1>8 DEF vars
  <1> QED BY <1>1, <1>2, <1>4, <1>5, <1>6, <1>7, <1>8 DEF Next

LEMMA OverrunStep ==
    ASSUME ConstantsAssumption, TypeOK, RunBounds, OverrunKept, [Next]_vars
    PROVE  OverrunKept'
  <1> SUFFICES ASSUME NEW b \in Buckets, NEW d \in Time
               PROVE  dayUsed'[b][d] + SumFunction(Shares(b, d)') <= Ceiling
    BY DEF OverrunKept, Ceiling, Shares, Share
  <1>a. dayUsed[b][d] + SumFunction(Shares(b, d)) <= Ceiling
    BY DEF OverrunKept
  <1>b. /\ dayUsed[b][d] \in Nat /\ today \in Time
        /\ Ceiling \in Nat /\ PerDay \in Nat /\ PerRun \in Nat
    <2>1. dayUsed \in [Buckets -> [Time -> Nat]]
      BY DEF TypeOK
    <2>2. dayUsed[b] \in [Time -> Nat]
      BY <2>1
    <2>3. today \in Time
      BY DEF TypeOK, Time, ConstantsAssumption
    <2>4. Ceiling \in Nat /\ PerDay \in Nat /\ PerRun \in Nat
      BY CeilingIs
    <2> QED BY <2>2, <2>3, <2>4
  <1>c. dayUsed \in [Buckets -> [Time -> Nat]]
    BY DEF TypeOK
  <1>1. ASSUME NEW p \in Processes, NEW s \in Sources, StartRun(p, s)
        PROVE  dayUsed'[b][d] + SumFunction(Shares(b, d)') <= Ceiling
    <2> DEFINE new == IF HasCapacity(NewRun(s), NewRun(s).windowCount)
                      THEN NewRun(s) ELSE [NewRun(s) EXCEPT !.place = "remember"]
    <2>1. /\ new \in Run /\ new.source = s /\ new.day = today
          /\ new.dayBase = dayUsed[Bucket[s]][today]
      BY LoadedTypes DEF NewRun, Run
    <2>2. run' = [run EXCEPT ![p] = new] /\ ~Known(run[p]) /\ dayUsed' = dayUsed
      BY <1>1 DEF StartRun, tables
    <2> HIDE DEF new
    <2>0. new \in Run \cup {Unknown}
      BY <2>1
    <2>3. /\ SumFunction(Shares(b, d)) \in Nat /\ Share(new, b, d) \in Nat
          /\ SumFunction(Shares(b, d)')
               = SumFunction(Shares(b, d)) + Share(new, b, d) - Share(run[p], b, d)
      BY <2>0, <2>2, SharesMove
    <2>4. Share(run[p], b, d) = 0
      BY <2>2 DEF Share
    <2>5. CASE Share(new, b, d) = 0
      BY <1>a, <2>2, <2>3, <2>4, <2>5
    <2>6. CASE Share(new, b, d) # 0
      <3>1. Bucket[s] = b /\ today = d /\ new.dayBase = dayUsed[b][d] /\ dayUsed[b][d] < PerDay
        BY <2>1, <2>6 DEF Share
      <3>2. Share(new, b, d) <= PerDay - dayUsed[b][d]
        BY <1>b, <3>1 DEF Share
      <3>3. SumFunction(Shares(b, d)) <= (Cardinality(Processes) - 1) * PerRun
        BY <2>2, OthersBounded
      <3>4. (Cardinality(Processes) - 1) * PerRun \in Nat
        BY CeilingIs
      <3> QED BY <1>b, <2>2, <2>3, <2>4, <3>2, <3>3, <3>4 DEF Ceiling
    <2> QED BY <2>5, <2>6
  <1>2. ASSUME NEW p \in Processes, Known(run[p]), NEW new \in Run,
               run' = [run EXCEPT ![p] = new], dayUsed' = dayUsed,
               new.source = run[p].source, new.day = run[p].day,
               new.dayBase = run[p].dayBase
        PROVE  dayUsed'[b][d] + SumFunction(Shares(b, d)') <= Ceiling
    <2>1. Known(new)
      BY UnknownIsNoRun DEF Known
    <2>2. Share(new, b, d) = Share(run[p], b, d)
      BY <1>2, <2>1 DEF Share
    <2>3. /\ SumFunction(Shares(b, d)) \in Nat /\ Share(run[p], b, d) \in Nat
          /\ SumFunction(Shares(b, d)')
               = SumFunction(Shares(b, d)) + Share(new, b, d) - Share(run[p], b, d)
      BY <1>2, SharesMove
    <2>4. SumFunction(Shares(b, d)') = SumFunction(Shares(b, d))
      BY <2>2, <2>3
    <2> QED BY <1>a, <1>2, <2>4
  <1>3. ASSUME NEW p \in Processes, NEW rolled \in BOOLEAN, NEW answer \in Answers,
               Request(p, rolled, answer)
        PROVE  dayUsed'[b][d] + SumFunction(Shares(b, d)') <= Ceiling
    <2>1. PICK new \in Run :
             /\ run' = [run EXCEPT ![p] = new]
             /\ new.source = run[p].source /\ new.day = run[p].day
             /\ new.dayBase = run[p].dayBase
      BY <1>3, RequestShape
    <2>2. Known(run[p]) /\ dayUsed' = dayUsed
      BY <1>3 DEF Request, Active, tables
    <2> QED BY <1>2, <2>1, <2>2
  <1>4. ASSUME NEW p \in Processes, NEW closes \in BOOLEAN, EndRun(p, closes)
        PROVE  dayUsed'[b][d] + SumFunction(Shares(b, d)') <= Ceiling
    <2> DEFINE new == [run[p] EXCEPT !.place = "remember"]
    <2>1. run[p] \in Run /\ Known(run[p])
      BY <1>4, RunTypes DEF EndRun, Active
    <2>2. /\ new \in Run /\ new.source = run[p].source /\ new.day = run[p].day
          /\ new.dayBase = run[p].dayBase
      BY <2>1 DEF Run
    <2>3. run' = [run EXCEPT ![p] = new] /\ dayUsed' = dayUsed
      BY <1>4 DEF EndRun, tables
    <2> HIDE DEF new
    <2> QED BY <1>2, <2>1, <2>2, <2>3
  <1>5. ASSUME NEW p \in Processes, NEW until \in Announced, NEW recorded \in BOOLEAN,
               OpenCircuit(p, until, recorded)
        PROVE  dayUsed'[b][d] + SumFunction(Shares(b, d)') <= Ceiling
    <2> DEFINE new == [run[p] EXCEPT !.place = "remember",
                            !.limit = [remaining |-> 0, reset |-> Coalesce(until, @.reset)]]
    <2>1. run[p] \in Run /\ Known(run[p])
      BY <1>5, RunTypes DEF OpenCircuit, Active
    <2>2. Coalesce(until, run[p].limit.reset) \in Optional
      BY <2>1 DEF Coalesce, Run, Limit, Announced, Optional, ConstantsAssumption
    <2>3. /\ new \in Run /\ new.source = run[p].source /\ new.day = run[p].day
          /\ new.dayBase = run[p].dayBase
      BY <2>1, <2>2 DEF Run, Limit, Optional
    <2>4. run' = [run EXCEPT ![p] = new] /\ dayUsed' = dayUsed
      BY <1>5 DEF OpenCircuit, tables
    <2> HIDE DEF new
    <2> QED BY <1>2, <2>1, <2>3, <2>4
  <1>6. ASSUME NEW p \in Processes, Known(run[p]), run' = [run EXCEPT ![p] = Unknown],
               dayUsed'[b][d] = dayUsed[b][d] \/
               dayUsed'[b][d] <= dayUsed[b][d] + Share(run[p], b, d),
               dayUsed'[b][d] \in Nat
        PROVE  dayUsed'[b][d] + SumFunction(Shares(b, d)') <= Ceiling
    <2>1. /\ SumFunction(Shares(b, d)) \in Nat /\ Share(run[p], b, d) \in Nat
          /\ SumFunction(Shares(b, d)')
               = SumFunction(Shares(b, d)) + Share(Unknown, b, d) - Share(run[p], b, d)
      BY <1>6, SharesMove
    <2>2. Share(Unknown, b, d) = 0
      BY DEF Share, Known
    <2> QED BY <1>a, <1>b, <1>6, <2>1, <2>2
  <1>7. ASSUME NEW p \in Processes, Remember(p)
        PROVE  dayUsed'[b][d] + SumFunction(Shares(b, d)') <= Ceiling
    <2> DEFINE r == run[p]
    <2>1. r \in Run /\ Known(r) /\ Bucket[r.source] \in Buckets
      BY <1>7, RunTypes DEF Remember
    <2>2. r.day \in Time /\ r.attempted \in Nat /\ r.dayBase \in Nat
      BY <2>1 DEF Run
    <2>3. /\ dayUsed' = Add(dayUsed, Bucket[r.source], r.day, r.attempted)
          /\ run' = [run EXCEPT ![p] = Unknown]
      BY <1>7 DEF Remember
    <2>4. CASE Bucket[r.source] = b /\ r.day = d
      <3>1. dayUsed'[b][d] = dayUsed[b][d] + r.attempted
        BY <1>c, <2>3, <2>4 DEF Add
      <3>2. r.attempted <= PerRun /\ (r.attempted > 0 => r.dayBase + r.attempted <= PerDay)
        BY <2>1 DEF RunBounds
      <3>3. Share(r, b, d) \in Nat /\ r.attempted <= Share(r, b, d)
        <4>1. CASE r.dayBase < PerDay
          BY <1>b, <2>1, <2>2, <2>4, <3>2, <4>1 DEF Share
        <4>2. CASE ~(r.dayBase < PerDay)
          BY <1>b, <2>1, <2>2, <2>4, <3>2, <4>2 DEF Share
        <4> QED BY <4>1, <4>2
      <3>4. dayUsed'[b][d] \in Nat /\ dayUsed'[b][d] <= dayUsed[b][d] + Share(r, b, d)
        BY <1>b, <2>2, <3>1, <3>3
      <3> QED BY <1>6, <2>1, <2>3, <3>4
    <2>5. CASE ~(Bucket[r.source] = b /\ r.day = d)
      <3>1. dayUsed'[b][d] = dayUsed[b][d]
        BY <1>c, <2>3, <2>5 DEF Add
      <3> QED BY <1>6, <1>b, <2>1, <2>3, <3>1
    <2> QED BY <2>4, <2>5
  <1>8. ASSUME NEW p \in Processes, Forget(p)
        PROVE  dayUsed'[b][d] + SumFunction(Shares(b, d)') <= Ceiling
    <2>1. Known(run[p]) /\ run' = [run EXCEPT ![p] = Unknown] /\ dayUsed'[b][d] = dayUsed[b][d]
      BY <1>8 DEF Forget, tables
    <2> QED BY <1>b, <1>6, <2>1
  <1>9. ASSUME run' = run, dayUsed' = dayUsed
        PROVE  dayUsed'[b][d] + SumFunction(Shares(b, d)') <= Ceiling
    <2>1. Shares(b, d)' = Shares(b, d)
      BY <1>9 DEF Shares, Share
    <2> QED BY <1>a, <1>9, <2>1
  <1>10. ASSUME NEW midnight \in BOOLEAN, Tick(midnight)
         PROVE  dayUsed'[b][d] + SumFunction(Shares(b, d)') <= Ceiling
    BY <1>9, <1>10 DEF Tick, tables
  <1>11. CASE UNCHANGED vars
    BY <1>9, <1>11 DEF vars, tables
  <1> QED BY <1>1, <1>3, <1>4, <1>5, <1>7, <1>8, <1>10, <1>11 DEF Next

-----------------------------------------------------------------------------
LEMMA InitInv == ASSUME ConstantsAssumption, Init PROVE IInv
  <1>1. TypeOK
    BY TypeInit
  <1>2. LedgerWithinDay /\ BaseIsLoaded
    BY DEF Init, Windows, LedgerWithinDay, BaseIsLoaded, Known, ConstantsAssumption
  <1>3. DaysAheadUnknown
    BY DEF Init, DaysAheadUnknown
  <1>4. OpenIsHeld
    BY DEF Init, OpenIsHeld, Open, Known
  <1> QED BY <1>1, <1>2, <1>3, <1>4 DEF IInv

(* Every reachable state of ProviderBudget has the declared types.          *)
THEOREM TypeCorrect == Spec => []TypeOK
  <1> USE ConstantsAssumption
  <1>1. Init => TypeOK
    BY TypeInit
  <1>2. TypeOK /\ [Next]_vars => TypeOK'
    BY TypeStep
  <1> QED BY <1>1, <1>2, PTL DEF Spec

LEMMA Inductive == ASSUME SingleProcess PROVE Spec => []IInv
  <1> USE ConstantsAssumption
  <1>1. Init => IInv
    BY InitInv
  <1>2. IInv /\ [Next]_vars => IInv'
    BY TypeStep, LedgerStep, DaysAheadStep, CooldownStep DEF IInv, Ledger
  <1> QED BY <1>1, <1>2, PTL DEF Spec

(* With one process, no day's usage windows, with the run in progress, ever *)
(* exceed the day's requests (RunBudget, _new_budget, _remember_budget).   *)
THEOREM LedgerHolds == ASSUME SingleProcess PROVE Spec => []LedgerWithinDay
  <1>1. IInv => LedgerWithinDay
    BY DEF IInv
  <1> QED BY <1>1, Inductive, PTL

(* With one process, no request leaves for a source with its own account    *)
(* while its circuit is open, across midnight and restarts (_new_budget,   *)
(* open_provider_circuit, _persist_provider_status).                       *)
THEOREM CooldownHolds == ASSUME SingleProcess PROVE Spec => CooldownRespected
  <1> USE ConstantsAssumption
  <1> DEFINE Step == \A p \in Processes : Sends(p) =>
           LET s == run[p].source IN
           Private(s) /\ s \notin torn /\ Known(circuit[s]) => circuit[s] <= now
  <1>1. IInv /\ [Next]_vars => [Step]_vars
    <2> SUFFICES ASSUME IInv, Next, NEW p \in Processes, Sends(p)
                 PROVE  LET s == run[p].source IN
                        Private(s) /\ s \notin torn /\ Known(circuit[s]) => circuit[s] <= now
      BY DEF Step
    <2>1. TypeOK /\ OpenIsHeld
      BY DEF IInv
    <2>2. run[p] \in Run /\ run[p] # Unknown
      BY <2>1, RunTypes DEF Sends
    <2>3. Active(p)
      <3>1. ASSUME NEW q \in Processes, NEW s \in Sources, StartRun(q, s) PROVE FALSE
        BY <3>1, Only DEF StartRun, Sends, Known
      <3>2. ASSUME NEW q \in Processes, Remember(q) \/ Forget(q) PROVE FALSE
        BY <2>1, <3>2, Only DEF Remember, Forget, Sends, Known, TypeOK
      <3>3. ASSUME NEW midnight \in BOOLEAN, Tick(midnight) PROVE FALSE
        BY <2>2, <3>3 DEF Tick, Sends, Run
      <3> QED BY <3>1, <3>2, <3>3, Only DEF Next, Request, EndRun, OpenCircuit
    <2>4. run[p].source \in Sources
      BY <2>2 DEF Run
    <2>5. ~Open(run[p].source)
      BY <2>1, <2>3, <2>4, ActiveIsClosed
    <2>6. circuit[run[p].source] \in Optional /\ now \in Nat
      BY <2>1, <2>4 DEF TypeOK, Time
    <2> QED BY <2>5, <2>6 DEF Open, Optional, Known
  <1>2. Spec => []IInv
    BY Inductive
  <1> QED BY <1>1, <1>2, PTL DEF Spec, CooldownRespected

(* No request is lost count of, however many processes share an account:    *)
(* sent = recorded + held by a run + of runs that failed to record theirs  *)
(* (record_source_budget_usage adds in place, and rolls back as a whole).  *)
THEOREM RequestsAccounted == Spec => []AllAccounted
  <1> USE ConstantsAssumption
  <1>1. Init => AllAccounted
    <2> SUFFICES ASSUME Init, NEW b \in Buckets
                 PROVE  SumFunction(sentDay[b])
                          = SumFunction(dayUsed[b]) + lost[b] + SumFunction(Held(b))
      BY DEF AllAccounted
    <2>1. sentDay[b] \in [Time -> {0}] /\ dayUsed[b] \in [Time -> {0}] /\ lost[b] = 0
      BY DEF Init, Windows
    <2>2. Held(b) \in [Processes -> {0}]
      BY DEF Init, Held, Known
    <2>3. IsFiniteSet(Time) /\ IsFiniteSet(Processes)
      BY TimeIsFinite DEF ConstantsAssumption
    <2>4. SumFunction(sentDay[b]) = 0 /\ SumFunction(dayUsed[b]) = 0 /\ SumFunction(Held(b)) = 0
      BY <2>1, <2>2, <2>3, SumOfZeros
    <2> QED BY <2>1, <2>4
  <1>2. TypeOK /\ AllAccounted /\ [Next]_vars => AllAccounted'
    BY AccountStep
  <1> QED BY <1>1, <1>2, TypeCorrect, PTL DEF Spec

(* However many processes load the same day, and whatever fails, a day's    *)
(* account is overrun by at most one run of each other process             *)
(* (_new_budget loads once, RunBudget counts its own attempts only).       *)
THEOREM OverrunIsBounded == Spec => []OverrunBounded
  <1> USE ConstantsAssumption
  <1>1. Init => RunBounds /\ OverrunKept
    <2> SUFFICES ASSUME Init PROVE RunBounds /\ OverrunKept
      OBVIOUS
    <2>1. RunBounds
      BY DEF Init, RunBounds, Known
    <2>2. ASSUME NEW b \in Buckets, NEW d \in Time
          PROVE  dayUsed[b][d] + SumFunction(Shares(b, d)) <= Ceiling
      <3>1. Shares(b, d) \in [Processes -> {0}] /\ dayUsed[b][d] = 0
        BY DEF Init, Windows, Shares, Share, Known
      <3>2. SumFunction(Shares(b, d)) = 0
        BY <3>1, SumOfZeros DEF ConstantsAssumption
      <3> QED BY <3>1, <3>2, CeilingIs
    <2> QED BY <2>1, <2>2 DEF OverrunKept
  <1>2. TypeOK /\ RunBounds /\ OverrunKept /\ [Next]_vars => RunBounds' /\ OverrunKept'
    BY RunBoundsStep, OverrunStep
  <1>3. TypeOK /\ OverrunKept => OverrunBounded
    <2> SUFFICES ASSUME TypeOK, OverrunKept, NEW b \in Buckets, NEW d \in Time
                 PROVE  dayUsed[b][d] <= Ceiling
      BY DEF OverrunBounded, Ceiling
    <2>1. dayUsed[b][d] + SumFunction(Shares(b, d)) <= Ceiling
      BY DEF OverrunKept
    <2> DEFINE f == Shares(b, d)
    <2>2. DOMAIN f = Processes /\ \A q \in Processes : f[q] \in Nat
      <3>1. \A q \in Processes : f[q] = Share(run[q], b, d) /\ run[q] \in Run \cup {Unknown}
        BY DEF Shares, TypeOK
      <3>2. \A q \in Processes : f[q] \in 0..PerRun
        BY <3>1, ShareIs
      <3> QED BY <3>2 DEF Shares
    <2> HIDE DEF f
    <2>3. SumFunction(f) \in Nat
      BY <2>2, SumNat DEF SumFunction, ConstantsAssumption
    <2>4. dayUsed[b][d] \in Nat /\ Ceiling \in Nat
      BY CeilingIs DEF TypeOK
    <2> QED BY <2>1, <2>3, <2>4 DEF f
  <1> QED BY <1>1, <1>2, <1>3, TypeCorrect, PTL DEF Spec

=============================================================================
