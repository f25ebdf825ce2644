SPECIFICATION SearchSpec
CONSTANTS
    Note = {n1, n2}
    Expense = {e1, e2}
    Todo = {d1}
    Claim = {c1}
    Task = {t1}
    Worker = {w1}
    MaxQueued = 2
    MaxFailures = 1
    Target = {1, 2}
    Attr <- MCAttr
    Query <- MCQuery
    Indexer = {w2, w3}
    Models = 1
    MaxCards = 3
    Candidates = 2
    Limit = 2
    RrfK = 60
    Ceiling = 3
    Upload = {n1, n2}
    Content = {e1, e2}
    MaxRuns = 2
CONSTRAINT FewRows
SYMMETRY Symmetry
INVARIANTS
    CardsSound
    RowsAreListed
    TwinsOverlap
    SearchServes
    UploadsReachTheIndex
CHECK_DEADLOCK FALSE
