---------------------------- MODULE MCQueryStream ----------------------------
(* Instances of QueryStream for TLC: with and without tools, progress events *)
(* and the deterministic fast path.                                          *)
EXTENDS QueryStream

CONSTANTS r1, r2

Base == [progress |-> FALSE, observer |-> TRUE, tools |-> FALSE, toolFinal |-> FALSE,
         deterministic |-> FALSE, promptReuse |-> FALSE]

Representative ==
    {[Base EXCEPT !.deterministic = d, !.progress = p, !.promptReuse = ~p] : d, p \in BOOLEAN}
    \cup {[Base EXCEPT !.tools = TRUE, !.progress = p] : p \in BOOLEAN}
    \cup {[Base EXCEPT !.tools = TRUE, !.toolFinal = TRUE, !.progress = p,
                       !.deterministic = ~p, !.promptReuse = p] : p \in BOOLEAN}

=============================================================================
