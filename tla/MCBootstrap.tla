----------------------------- MODULE MCBootstrap -----------------------------
(* Instances of Bootstrap for TLC: source 1 with two partitions, source 2    *)
(* (federal_reserve) with one.                                              *)
EXTENDS Bootstrap, TLC

TwoSources == 1 :> {1, 2} @@ 2 :> {1}
OneSource == 1 :> {1, 2}
Everything == Work

=============================================================================
