\* What README.md says aborts a run; refuted by a call that meets the deadline.
SPECIFICATION Spec
CONSTANTS
    N = 2
    MaxCancels = 1
INVARIANT
    AbortsOnlyForStorageOrCancellation
