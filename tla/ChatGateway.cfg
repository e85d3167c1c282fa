\* Two requests on any route that may send the same identifier; the adaptive
\* runtime is configured.
SPECIFICATION FairSpec
CONSTANTS
    Requests = {r1, r2}
    SuppliedIds = {i1}
    Endpoints = {"inference", "adaptive", "auto", "manual"}
    Repository = TRUE
    Runtime = TRUE
    Reliable = FALSE
CHECK_DEADLOCK FALSE
INVARIANTS
    TypeOK
    GaugeBalanced
    AnswersAndRowsAgree
PROPERTIES
    Answered
