----------------------------- MODULE EventFeed -----------------------------
(***************************************************************************)
(* What the live observer promises a reader (docs/phase2.2/2.2.7-live-     *)
(* retrieval-knowledge-graph/2.2.7.1: "Support Last-Event-ID or an explicit*)
(* last sequence.  If the requested sequence was evicted, send             *)
(* reset_required followed by no stale deltas"): across reconnections a    *)
(* reader is handed every event once and in order, or is told to start     *)
(* over; an event is never skipped in silence.                             *)
(***************************************************************************)
EXTENDS Naturals

CONSTANT Readers

VARIABLES
    logged, \* the number of events so far
    got,    \* the last event each reader was handed
    whole   \* the readers never told to start over

Init == logged = 0 /\ got = [r \in Readers |-> 0] /\ whole = Readers

Log == logged' = logged + 1 /\ UNCHANGED <<got, whole>>

Deliver(r) ==
    /\ got[r] < logged
    /\ got' = [got EXCEPT ![r] = @ + 1]
    /\ UNCHANGED <<logged, whole>>

StartOver(r) ==
    /\ \E n \in 0..logged : got' = [got EXCEPT ![r] = n]
    /\ whole' = whole \ {r}
    /\ UNCHANGED logged

Next == Log \/ \E r \in Readers : Deliver(r) \/ StartOver(r)

Spec == Init /\ [][Next]_<<logged, got, whole>>

=============================================================================
