---------------------------- MODULE MCNewsCursors ----------------------------
(* Instances of NewsCursors for TLC.                                         *)
EXTENDS NewsCursors

CONSTANTS t1, t2, a1, a2, a3

MCTickers == <<t1, t2>>
MCPublished == (a1 :> 0 @@ a2 :> 1 @@ a3 :> 2)
MCOf == (a1 :> t2 @@ a2 :> t2 @@ a3 :> t2)
MCLookback == [run |-> 2, refresh |-> 1]
=============================================================================
