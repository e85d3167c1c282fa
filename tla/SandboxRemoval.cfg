\* One cancellation, docker working: what README.md says of the removal.
SPECIFICATION Spec
CONSTANT MaxCancels = 1
INVARIANT
    RemovedAfterTimeoutOrCancellation
