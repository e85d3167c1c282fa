\* Two results and one equipped evaluator: what README.md says a failed call
\* adds to the known cost.
SPECIFICATION Spec
CONSTANTS
    Results = {1, 2}
    Kinds = {"failed_unpriced", "failed_priced", "exact", "coding", "summary"}
    Evaluators = {"e1"}
    Equipped = {"e1"}
CHECK_DEADLOCK FALSE
INVARIANT
    FailedCallsCostNothing
