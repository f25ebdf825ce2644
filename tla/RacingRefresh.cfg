SPECIFICATION Spec
CONSTANTS
    Call = {c1, c2}
    Project = {p1}
    Statement = {s1}
    Root = {v1}
    Module = {m1}
INVARIANT NeverPretendsFresh
CHECK_DEADLOCK FALSE
