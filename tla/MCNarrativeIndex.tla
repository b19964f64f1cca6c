-------------------------- MODULE MCNarrativeIndex --------------------------
(* Instances of NarrativeIndex for TLC: articles n1 and n2, a release p1, a *)
(* filing section s1, a licensed text v1 and a direct SEC text v2.          *)
EXTENDS NarrativeIndex, TLC

CONSTANTS n1, n2, p1, s1, v1, v2, w1

=============================================================================
