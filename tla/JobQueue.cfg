SPECIFICATION FairSpec
CONSTANTS
    Job = {j1, j2}
    Handled = {j1}
    Worker = {w1, w2}
    MaxAttempts = 2
    BatchSize = 2
    MaxCrashes = 1
INVARIANTS OneHolderPerToken SucceededUnderItsToken IndInv
PROPERTY ImplementsLifecycle
CHECK_DEADLOCK FALSE
