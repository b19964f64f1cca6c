----------------------------- MODULE MCTraceFeed -----------------------------
(* Instances of TraceFeed for TLC.                                           *)
EXTENDS TraceFeed

CONSTANTS q1, q2, e1, e2, b1

=============================================================================
