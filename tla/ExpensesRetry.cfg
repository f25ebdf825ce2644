SPECIFICATION Spec
CONSTANTS
    r1 = r1
    r2 = r2
    r3 = r3
    k1 = k1
    Request = {r1, r2, r3}
    Key = {k1}
    Amount = {1}
SYMMETRY Symmetry
INVARIANT RetryReplays
CHECK_DEADLOCK FALSE
