\* Three models, every entry point, routing questions with and without ties and
\* fallback.  Three chats, three request ids, of which two chats may share one; a
\* clock that shows two times in any order; pages of one and two rows.  Every
\* combination of configured dependencies.  Every status the adapter tells
\* apart, and one or two it does not.
SPECIFICATION PartsSpec
CONSTANTS
    Models = {1, 2, 3}
    Modes = {"explicit", "legacy", "validated"}
    Questions <- MCQuestions
    Costs = {1, 2}
    MaxAttempts = 3
    Chats = {1, 2, 3}
    RequestIds = {q1, q2, q3}
    Times = {1, 2}
    Limits = {1, 2}
    Statuses = {302, 400, 401, 403, 404, 408, 422, 429, 500, 503, 504}
    Codes = {"none", "model_not_found", "context_length_exceeded", "other"}
    Endings <- MCEndings
CHECK_DEADLOCK FALSE
INVARIANTS
    TypeOK
    EscalationSound
    TelemetrySound
    PartsTypeOK
    PagesTellHistory
    ResourcesAreSound
    AnswersTellWhatHappened
PROPERTIES
    ImplementsLadder
    ReadyIsEarned
    RequestEnds
    WalksAndStartsEnd
    AdmitReturns
