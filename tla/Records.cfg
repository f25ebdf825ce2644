SPECIFICATION RecordsSpec
CONSTANTS
    r1 = r1
    r2 = r2
    r3 = r3
    r4 = r4
    k1 = k1
    k2 = k2
    t1 = t1
    Request = {r1, r2, r3, r4}
    Key = {k1, k2}
    Amount = {1, 2}
    Todo = {t1}
    TodoRequest = {r1, r2, r3}
    MaxVersion = 3
    Saver = {r1, r2, r3}
    Text = {k1, k2}
SYMMETRY Symmetry
CONSTRAINT OnePrice
INVARIANTS
    LedgerSound
    AcknowledgedStands
    OneWriterPerVersion
    CopiesOverlap
    SupersededIsGone
PROPERTY NothingUndone
CHECK_DEADLOCK FALSE
