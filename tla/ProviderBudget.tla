--------------------------- MODULE ProviderBudget ---------------------------
(***************************************************************************)
(* Provider quotas: the RunBudget of one source run (src/scheduler/budget. *)
(* py), the usage windows it is loaded from and added back to              *)
(* (source_budget_usage), and the provider circuit persisted in the        *)
(* source's `__provider__` cursor (src/scheduler/__init__.py).             *)
(*                                                                         *)
(* A process runs one source at a time.  The scheduler is one process; the *)
(* API's bounded refresh is another, with the same tables and no lock.     *)
(* Time is counted in wall minutes, and midnight may fall before any.      *)
(***************************************************************************)
EXTENDS Integers, FiniteSets, Functions

CONSTANTS
    Sources,    \* registry sources whose HTTP calls go through the budget
    Buckets,    \* provider accounts
    Bucket,     \* the account a source is charged to (PROVIDER_BUDGET_SOURCE)
    Processes,  \* processes that run sources
    Refreshers, \* those that are bounded refreshes of the API
    PerMinute, PerDay, PerRun, \* the registry's limits, here one for all sources
    Remainders, \* remaining capacities a provider announces
    Resets,     \* and the minutes it names for its resets
    Unknown,    \* NULL
    MaxClock,   \* bound: minutes explored
    MaxFaults   \* bound: failed table writes and process deaths explored

ASSUME ConstantsAssumption ==
    /\ Bucket \in [Sources -> Buckets]
    /\ Refreshers \subseteq Processes
    /\ IsFiniteSet(Processes) /\ Processes # {}
    /\ PerMinute \in Nat \ {0} /\ PerDay \in Nat \ {0} /\ PerRun \in Nat \ {0}
    /\ Remainders \subseteq Nat /\ Resets \subseteq Nat
    /\ Unknown \notin Nat
    /\ MaxClock \in Nat /\ MaxFaults \in Nat

Time == 0..MaxClock
Optional == Nat \cup {Unknown}
Limit == [remaining: Optional, reset: Optional]
NoLimit == [remaining |-> Unknown, reset |-> Unknown]
Run == [source: Sources, place: {"running", "remember"},
        day: Time, minute: Time, dayBase: Nat,
        windowStart: Time, windowCount: Nat, attempted: Nat, limit: Limit]

ASSUME UnknownIsNoRun == Unknown \notin Run

VARIABLES
    now, today, \* the wall clock's minute and UTC day
    dayUsed,    \* [bucket][day]: attempted_requests of the day window
    minuteUsed, \* [bucket][minute]: those of the minute window
    limits,     \* [bucket][day]: its provider_remaining and provider_reset
    circuit,    \* [source]: the reset of its open circuit, if it has one
    run,        \* each process's source run and budget, or Unknown
    sentDay,    \* [bucket][day]: requests that left for the provider that day
    lost,       \* [bucket]: requests of runs whose usage was not recorded
    torn,       \* sources whose last circuit did not reach the day window
    faults

clock   == <<now, today>>
tables  == <<dayUsed, minuteUsed, limits>>
vars    == <<clock, tables, circuit, run, sentDay, lost, torn, faults>>

TypeOK ==
    /\ now \in Time /\ today \in 0..now
    /\ dayUsed \in [Buckets -> [Time -> Nat]]
    /\ minuteUsed \in [Buckets -> [Time -> Nat]]
    /\ limits \in [Buckets -> [Time -> Limit]]
    /\ circuit \in [Sources -> Optional]
    /\ run \in [Processes -> Run \cup {Unknown}]
    /\ \A p \in Processes : run[p] # Unknown =>
           run[p].day <= today /\ run[p].minute <= now /\ run[p].windowStart <= now
    /\ sentDay \in [Buckets -> [Time -> Nat]]
    /\ lost \in [Buckets -> Nat]
    /\ torn \subseteq Sources
    /\ faults \in 0..MaxFaults

Windows == [b \in Buckets |-> [t \in Time |-> 0]]

Init ==
    /\ now = 0 /\ today = 0
    /\ dayUsed = Windows /\ minuteUsed = Windows
    /\ limits = [b \in Buckets |-> [t \in Time |-> NoLimit]]
    /\ circuit = [s \in Sources |-> Unknown]
    /\ run = [p \in Processes |-> Unknown]
    /\ sentDay = Windows
    /\ lost = [b \in Buckets |-> 0]
    /\ torn = {}
    /\ faults = 0

-----------------------------------------------------------------------------
Known(value) == value # Unknown
Coalesce(value, default) == IF Known(value) THEN value ELSE default
Add(windows, b, t, n) == [windows EXCEPT ![b][t] = @ + n]

(* in_provider_cooldown: no capacity is left until a reset yet to come.     *)
Cooling(limit) == limit.remaining = 0 /\ Known(limit.reset) /\ limit.reset > now

(* Mutants of the capacity check: the day window's count, the run cap, the  *)
(* provider's remaining capacity are not looked at.                        *)
HasCapacityUnannounced(r, count) ==
    /\ ~Cooling(r.limit)
    /\ count + 1 <= PerMinute
    /\ r.dayBase + r.attempted + 1 <= PerDay
    /\ r.attempted + 1 <= PerRun

HasCapacityOfRun(r, count) ==
    /\ ~Cooling(r.limit)
    /\ count + 1 <= PerMinute
    /\ r.attempted + 1 <= PerDay
    /\ r.attempted + 1 <= PerRun
    /\ Known(r.limit.remaining) => r.limit.remaining >= 1

HasCapacityOfDay(r, count) ==
    /\ ~Cooling(r.limit)
    /\ count + 1 <= PerMinute
    /\ r.dayBase + r.attempted + 1 <= PerDay
    /\ Known(r.limit.remaining) => r.limit.remaining >= 1

(* RunBudget._capacity_reason of one request, with `count` requests in the  *)
(* run's minute window.  A work item is always left for a run to select.   *)
HasCapacity(r, count) ==
    /\ ~Cooling(r.limit)
    /\ count + 1 <= PerMinute
    /\ r.dayBase + r.attempted + 1 <= PerDay
    /\ r.attempted + 1 <= PerRun
    /\ Known(r.limit.remaining) => r.limit.remaining >= 1

(* Mutant: the source's recorded circuit is not consulted.                  *)
LoadedLimitOfWindow(s) ==
    LET row == limits[Bucket[s]][today] IN
    IF Known(row.remaining) /\ Known(row.reset) /\ row.reset <= now
    THEN NoLimit ELSE row

(* _new_budget: the day window's limits or else the source's open circuit,  *)
(* dropped once the reset has passed.                                      *)
LoadedLimit(s) ==
    LET row       == limits[Bucket[s]][today]
        consulted == IF ~Known(row.remaining) /\ Known(circuit[s])
                     THEN [remaining |-> 0, reset |-> circuit[s]] ELSE row
    IN  IF Known(consulted.remaining) /\ Known(consulted.reset) /\ consulted.reset <= now
        THEN NoLimit ELSE consulted

NewRun(s) ==
    [source |-> s, place |-> "running", day |-> today, minute |-> now,
     dayBase |-> dayUsed[Bucket[s]][today],
     windowStart |-> now, windowCount |-> minuteUsed[Bucket[s]][now],
     attempted |-> 0, limit |-> LoadedLimit(s)]

(* The budget is built, and some work reserved or the run skipped.          *)
StartRun(p, s) ==
    /\ ~Known(run[p])
    /\ run' = [run EXCEPT ![p] =
           IF HasCapacity(NewRun(s), NewRun(s).windowCount)
           THEN NewRun(s) ELSE [NewRun(s) EXCEPT !.place = "remember"]]
    /\ UNCHANGED <<clock, tables, circuit, sentDay, lost, torn, faults>>

Active(p) == Known(run[p]) /\ run[p].place = "running"

(* wrap_http_get: one attempt is reserved and sent, and the answer's headers *)
(* replace the limits they state.  The run's minute window starts anew     *)
(* (rolled) sixty seconds after it began, somewhere in the next minute.    *)
Request(p, rolled, answer) ==
    LET r     == run[p]
        b     == Bucket[r.source]
        count == IF rolled THEN 0 ELSE r.windowCount
        left  == IF Known(r.limit.remaining) THEN r.limit.remaining - 1 ELSE Unknown
    IN  /\ Active(p)
        /\ rolled => now > r.windowStart
        /\ ~rolled => now <= r.windowStart + 1
        /\ HasCapacity(r, count)
        /\ run' = [run EXCEPT ![p] =
               [r EXCEPT !.attempted = @ + 1,
                         !.windowCount = count + 1,
                         !.windowStart = IF rolled THEN now ELSE @,
                         !.limit = [remaining |-> Coalesce(answer.remaining, left),
                                    reset |-> Coalesce(answer.reset, @.reset)]]]
        /\ sentDay' = Add(sentDay, b, today, 1)
        /\ UNCHANGED <<clock, tables, circuit, lost, torn, faults>>

(* The source's adapter is done, cut short by its budget or an item, or has *)
(* failed for itself only.  A success or such a failure closes the circuit. *)
EndRun(p, closes) ==
    /\ Active(p)
    /\ closes => p \notin Refreshers
    /\ run' = [run EXCEPT ![p].place = "remember"]
    /\ circuit' = IF closes THEN [circuit EXCEPT ![run[p].source] = Unknown] ELSE circuit
    /\ UNCHANGED <<clock, tables, sentDay, lost, torn, faults>>

(* A provider-wide failure (429, quota, credentials): open_provider_circuit, *)
(* then the cursor, whose write may fail and is not retried.  A bounded    *)
(* refresh only passes the exception on.                                   *)
OpenCircuit(p, until, recorded) ==
    /\ Active(p)
    /\ p \notin Refreshers
    /\ run' = [run EXCEPT ![p] =
           [run[p] EXCEPT !.place = "remember",
                          !.limit = [remaining |-> 0, reset |-> Coalesce(until, @.reset)]]]
    /\ IF recorded
       THEN /\ circuit' = [circuit EXCEPT ![run[p].source] = until]
            /\ torn' = torn \ {run[p].source}
            /\ UNCHANGED faults
       ELSE /\ faults < MaxFaults /\ faults' = faults + 1
            /\ UNCHANGED <<circuit, torn>>
    /\ UNCHANGED <<clock, tables, sentDay, lost>>

(* Mutant: usage is written as this run knows it, not added.                *)
RememberTotal(p) ==
    LET r == run[p]
        b == Bucket[r.source]
    IN  /\ Known(r) /\ r.place = "remember"
        /\ dayUsed' = [dayUsed EXCEPT ![b][r.day] = r.dayBase + r.attempted]
        /\ minuteUsed' = Add(minuteUsed, b, r.minute, r.attempted)
        /\ limits' = [limits EXCEPT ![b][r.day] =
               [remaining |-> Coalesce(r.limit.remaining, @.remaining),
                reset     |-> Coalesce(r.limit.reset, @.reset)]]
        /\ run' = [run EXCEPT ![p] = Unknown]
        /\ UNCHANGED <<clock, circuit, sentDay, lost, torn, faults>>

(* record_source_budget_usage: one transaction adds the run's attempts to   *)
(* the windows it started in.                                              *)
Remember(p) ==
    LET r == run[p]
        b == Bucket[r.source]
    IN  /\ Known(r) /\ r.place = "remember"
        /\ dayUsed' = Add(dayUsed, b, r.day, r.attempted)
        /\ minuteUsed' = Add(minuteUsed, b, r.minute, r.attempted)
        /\ limits' = [limits EXCEPT ![b][r.day] =
               [remaining |-> Coalesce(r.limit.remaining, @.remaining),
                reset     |-> Coalesce(r.limit.reset, @.reset)]]
        /\ run' = [run EXCEPT ![p] = Unknown]
        /\ UNCHANGED <<clock, circuit, sentDay, lost, torn, faults>>

(* The write fails and is only logged, or the process dies, before or after *)
(* the circuit was recorded.                                               *)
Forget(p) ==
    LET r == run[p] IN
    /\ Known(r)
    /\ faults < MaxFaults /\ faults' = faults + 1
    /\ lost' = [lost EXCEPT ![Bucket[r.source]] = @ + r.attempted]
    /\ torn' = IF r.place = "remember" THEN torn \cup {r.source} ELSE torn
    /\ run' = [run EXCEPT ![p] = Unknown]
    /\ UNCHANGED <<clock, tables, circuit, sentDay>>

Tick(midnight) ==
    /\ now < MaxClock
    /\ now' = now + 1
    /\ today' = IF midnight THEN today + 1 ELSE today
    /\ UNCHANGED <<tables, circuit, run, sentDay, lost, torn, faults>>

Announced == {Unknown} \cup {t \in Resets : t > now}
Answers == [remaining: Remainders \cup {Unknown}, reset: Announced]

Next ==
    \/ \E p \in Processes :
        \/ \E s \in Sources : StartRun(p, s)
        \/ \E rolled \in BOOLEAN, answer \in Answers : Request(p, rolled, answer)
        \/ \E closes \in BOOLEAN : EndRun(p, closes)
        \/ \E until \in Announced, recorded \in BOOLEAN : OpenCircuit(p, until, recorded)
        \/ Remember(p)
        \/ Forget(p)
    \/ \E midnight \in BOOLEAN : Tick(midnight)

Spec == Init /\ [][Next]_vars

-----------------------------------------------------------------------------
SingleProcess == \A p, q \in Processes : p = q
Private(s) == \A t \in Sources : Bucket[t] = Bucket[s] => t = s
Sends(p) == Known(run[p]) /\ Known(run'[p]) /\ run'[p].attempted > run[p].attempted

(***************************************************************************)
(* One process at a time: the runs started on one day never record, with   *)
(* the one in progress, more than the day's requests, whatever fails or    *)
(* restarts in between.  (RunBudget, _new_budget, _remember_budget)        *)
(***************************************************************************)
LedgerWithinDay ==
    /\ \A b \in Buckets, d \in Time : dayUsed[b][d] <= PerDay
    /\ \A p \in Processes : Known(run[p]) =>
           dayUsed[Bucket[run[p].source]][run[p].day] + run[p].attempted <= PerDay

(***************************************************************************)
(* "Skip immediately during persisted cooldown", across midnight and a     *)
(* restart: no request leaves for a source with an account of its own      *)
(* while its recorded circuit is open, unless the run that opened it lost  *)
(* its other record.                                                       *)
(***************************************************************************)
CooldownRespected ==
    [][\A p \in Processes : Sends(p) =>
           LET s == run[p].source IN
           Private(s) /\ s \notin torn /\ Known(circuit[s]) => circuit[s] <= now]_vars

(***************************************************************************)
(* Concurrent processes lose none of each other's counts: every request of *)
(* an account is recorded, held by a run in progress, or of a run that     *)
(* failed to record it.  (record_source_budget_usage adds in place)        *)
(***************************************************************************)
Held(b) ==
    [p \in Processes |->
        IF Known(run[p]) /\ Bucket[run[p].source] = b THEN run[p].attempted ELSE 0]

AllAccounted ==
    \A b \in Buckets :
        SumFunction(sentDay[b]) = SumFunction(dayUsed[b]) + lost[b] + SumFunction(Held(b))

(***************************************************************************)
(* A process loads the day's usage once, so the others may overrun it, each *)
(* by one run at most.                                                     *)
(***************************************************************************)
OverrunBounded ==
    \A b \in Buckets, d \in Time :
        dayUsed[b][d] <= PerDay + (Cardinality(Processes) - 1) * PerRun

=============================================================================
