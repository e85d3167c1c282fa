\* Three models and two prices; two folds of two categories; three candidates;
\* two builders over every installed artifact, and an operator who may list a
\* candidate twice or one the artifact does not know; one file replaced while a
\* paid command reads, two while a dry run does; the other bounds are MCOffline's.
SPECIFICATION PartsSpec
CONSTANTS
    Models = {1, 2, 3}
    Levels = {0, 1, 2}
    Costs = {1, 2}
    MaxCandidates = 3
    MaxAttempts = 2
    NumFolds = 2
    NumCategories = 2
    PerFold = 2
    Profiles <- MCProfiles
    NumCandidates = 3
    Requests <- MCRequests
    FoldOf <- MCFoldOf
    Projected <- MCProjected
    Realizations <- MCRealizations
    Predictions <- MCPredictions
    CostScore <- MCCostScore
    Rule <- MCRule
    Labels <- MCLabels
    Thresholds = {2, 3, 4}
    Builders = {"b1", "b2"}
    Approved = "p"
    Identifiers = {"x", "y", "z"}
    Known = {"x", "y"}
    MaxEdits = 1
    Selections = {{"fake"}, {"fake", "listed"}, {"listed", "unlisted"}}
    MaxReplacements = 2
    Props <- MCProps
    Weight <- MCWeight
    Equivalences <- MCEquivalences
    Derivations <- MCDerivations
    Passing <- MCPassing
    Grades <- MCGrades
    Segments = {"a", "b"}
    Keys <- MCKeys
    KeyLists <- MCKeyLists
    InnerLists <- MCInnerLists
    Leaves <- MCLeaves
CHECK_DEADLOCK FALSE
INVARIANTS
    PartsTypeOK
    DecisionIsJustified
    LabelsGoWhereDealt
    ComparisonsAreSound
    ArtifactIsWhole
    PaidPathIsGuarded
    JudgementIsJustified
    ScoresMeasureAgreement
PROPERTIES
    ChangesAreSound
