---------------------------- MODULE ResumableWork ----------------------------
(***************************************************************************)
(* What a resumable bootstrap promises (docs/CONFIGURATION.md, "The comp-  *)
(* lete partition manifest is stored atomically with the run header; ...   *)
(* `--resume` continues the same immutable manifest with cumulative        *)
(* counts"): a run is given its whole manifest at once, and afterwards     *)
(* only gets its partitions done, each once and for good, until the bound  *)
(* on history removes the run as a whole.                                  *)
(***************************************************************************)
CONSTANTS Runs, Work

VARIABLES
    manifest, \* the partitions each run is to do, {} before it starts
    done,     \* those it has done
    forgotten \* the runs that are history no more

Init ==
    /\ manifest = [r \in Runs |-> {}]
    /\ done = [r \in Runs |-> {}]
    /\ forgotten = {}

Begin(r) ==
    /\ manifest[r] = {} /\ r \notin forgotten
    /\ \E work \in SUBSET Work : manifest' = [manifest EXCEPT ![r] = work]
    /\ UNCHANGED <<done, forgotten>>

Finish(r) ==
    /\ \E w \in manifest[r] \ done[r] : done' = [done EXCEPT ![r] = @ \cup {w}]
    /\ UNCHANGED <<manifest, forgotten>>

Forget(gone) ==
    /\ forgotten' = forgotten \cup gone
    /\ manifest' = [r \in Runs |-> IF r \in gone THEN {} ELSE manifest[r]]
    /\ done' = [r \in Runs |-> IF r \in gone THEN {} ELSE done[r]]

Next ==
    \/ \E r \in Runs : Begin(r) \/ Finish(r)
    \/ \E gone \in SUBSET Runs : Forget(gone)

Spec == Init /\ [][Next]_<<manifest, done, forgotten>>

=============================================================================
