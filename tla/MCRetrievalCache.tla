-------------------------- MODULE MCRetrievalCache --------------------------
(* Instances of RetrievalCache for TLC.                                     *)
EXTENDS RetrievalCache, TLC

CONSTANTS t1, w1, w2, a, b

=============================================================================
