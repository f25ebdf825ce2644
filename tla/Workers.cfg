SPECIFICATION WorkersSpec
CONSTANTS
    digest = digest
    promote = promote
    dedupe = dedupe
    Schedule <- MCSchedule
    At <- MCAt
    Worker = {w1, w2}
    LastSlot = 2
    LastDay = 1
    MaxFailures = 1
    Extract = {u1, u2}
    Digest = {g1}
    Scope = {x1, x2}
    Quota = 2
    LlmDays = 2
    MaxRuns = 2
SYMMETRY Symmetry
CONSTRAINT ScopesOrExtracts
INVARIANTS
    ScheduleSound
    BudgetHolds
    DigestsAreComplete
CHECK_DEADLOCK FALSE
