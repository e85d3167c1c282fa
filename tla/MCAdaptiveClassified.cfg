SPECIFICATION Spec
CONSTANTS
    Models = {1, 2, 3}
    Modes = {"validated"}
    Questions <- MCQuestions
    Costs = {1}
    MaxAttempts = 3
INVARIANTS
    ClassifiedOnce
