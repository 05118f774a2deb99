-------------------------- MODULE MCClarification --------------------------
(* Instances of Clarification for TLC: single questions of both kinds, and *)
(* batches whose questions differ in kind and number of options.           *)
EXTENDS Clarification

MCQuestion(id, options, multiple, free) ==
    [id |-> id, options |-> options, multiple |-> multiple, free |-> free]

MCSingle == {MCQuestion(1, options, multiple, free) :
                options \in {<< >>, <<"a">>, <<"a", "b", "c">>},
                multiple \in BOOLEAN, free \in BOOLEAN}
MCSecond == {MCQuestion(id, options, multiple, FALSE) :
                id \in {1, 2}, options \in {<<"d">>, <<"d", "e">>}, multiple \in BOOLEAN}

MCRequests ==
    {[batch |-> b, questions |-> <<q>>] : b \in BOOLEAN, q \in MCSingle}
      \cup {[batch |-> TRUE, questions |-> <<q, s>>] : q \in MCSingle, s \in MCSecond}

\* What an API client may post: of any question, of none (0) or of one nobody asked (3);
\* options of the first or the second question, of both, or of no question.
MCItems ==
    {[question |-> q, text |-> text, form |-> "option_ids", ids |-> ids] :
        q \in 0 .. 3, text \in {<< >>, Typed},
        ids \in {<<"a">>, <<"b", "a">>, <<"d", "z">>}}
      \cup {[question |-> q, text |-> << >>, form |-> "none", ids |-> << >>] : q \in {0, 2}}
      \cup {[question |-> 1, text |-> <<Label("c")>>, form |-> "option_id", ids |-> <<id>>] :
                id \in {"c", "z"}}
      \cup {[question |-> 0, text |-> Typed, form |-> "option_ids", ids |-> << >>]}

\* Numbers of options, and two that no option has.
MCLines == BoundedSeq(0 .. 4, 2)
=============================================================================
