---------------------------- MODULE AnswerStream ----------------------------
(***************************************************************************)
(* What /query/stream promises its client (docs/phase2.2/2.2.6-chat-       *)
(* runtime-and-phase-integration/2.2.6.1, Step 2: after the first token    *)
(* "emit a terminal error and do not append a second conflicting answer"): *)
(* the tokens of a stream belong to one answer, and none follows its end.  *)
(***************************************************************************)
EXTENDS Naturals

CONSTANTS Streams, Answers, Silent

VARIABLES
    answer, \* the answer each stream gives, or Silent
    said,   \* how many of its tokens were sent
    ended   \* the streams with nothing more to come

Init ==
    /\ answer = [s \in Streams |-> Silent]
    /\ said = [s \in Streams |-> 0]
    /\ ended = {}

Say(s, a) ==
    /\ s \notin ended /\ answer[s] \in {Silent, a}
    /\ answer' = [answer EXCEPT ![s] = a]
    /\ said' = [said EXCEPT ![s] = @ + 1]
    /\ UNCHANGED ended

End(s) ==
    /\ ended' = ended \cup {s}
    /\ UNCHANGED <<answer, said>>

Next == \E s \in Streams : End(s) \/ \E a \in Answers : Say(s, a)

Spec == Init /\ [][Next]_<<answer, said, ended>>

=============================================================================
