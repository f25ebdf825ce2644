SPECIFICATION FairSpec
CONSTANTS
    Key = {k1, k2}
    Payload = {p1, p2}
    Request = {r1, r2, r3}
INVARIANTS OneEffectPerKey IndInv
PROPERTIES EveryRequestEnds ImplementsExactlyOnce
CHECK_DEADLOCK FALSE
