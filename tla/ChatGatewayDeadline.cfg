\* One request, a database that works, an identifier of its own.
SPECIFICATION Spec
CONSTANTS
    Requests = {r1}
    SuppliedIds = {}
    Endpoints = {"auto", "manual"}
    Repository = TRUE
    Runtime = TRUE
    Reliable = TRUE
CHECK_DEADLOCK FALSE
INVARIANTS
    DeadlineIsRecorded
