-------------------------- MODULE MCProviderBudget --------------------------
(* Instances of ProviderBudget for TLC: finnhub has an account of its own,  *)
(* massive and massive_news share one.                                     *)
EXTENDS ProviderBudget, TLC

CONSTANTS finnhub, massive, massive_news, scheduler, api

Account == [s \in Sources |-> IF s = massive_news THEN massive ELSE s]

=============================================================================
