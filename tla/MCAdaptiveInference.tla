------------------------- MODULE MCAdaptiveInference -------------------------
(* Instances of AdaptiveInference for TLC. *)
EXTENDS AdaptiveInference

Enabled == [m \in 1 .. 3 |-> "enabled"]

\* Three qualifying models, two of them at the same price.
AllQualify == [list |-> <<1, 2, 3>>, acc |-> <<2, 2, 2>>, cost |-> <<2, 1, 1>>,
               threshold |-> 2, registry |-> Enabled]

\* The cheapest model does not qualify.
TwoQualify == [list |-> <<3, 2, 1>>, acc |-> <<1, 2, 2>>, cost |-> <<1, 3, 2>>,
               threshold |-> 2, registry |-> Enabled]

\* No model qualifies: routing falls back to the most acceptable one.
Fallback == [list |-> <<1, 2, 3>>, acc |-> <<1, 0, 1>>, cost |-> <<2, 1, 1>>,
             threshold |-> 2, registry |-> Enabled]

\* Registry entries an explicit request may name.
Misconfigured == [AllQualify EXCEPT
                    !.registry = <<"disabled", "unsupported", "unknown">>]

MCQuestions == {AllQualify, TwoQualify, Fallback, Misconfigured}
=============================================================================
