\* A run of three pairs with two cancellations; one code evaluation; two
\* results and two evaluators, of which one has judges and a sandbox.
SPECIFICATION PartsSpec
CONSTANTS
    N = 3
    MaxCancels = 2
    MaxInterrupts = 3
    Results = {1, 2}
    Kinds = {"failed_unpriced", "failed_priced", "exact", "coding", "summary"}
    Evaluators = {"e1", "e2"}
    Equipped = {"e1"}
CHECK_DEADLOCK FALSE
INVARIANTS
    PartsTypeOK
    CompletedMeansAllPairs
    AtMostOneLost
    StatusTellsTheRun
    OutcomeIsHonest
    EvaluationsAreSound
PROPERTIES
    EverythingEnds
