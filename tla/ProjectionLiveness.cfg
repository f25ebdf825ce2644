SPECIFICATION FairSpec
CONSTANTS
    Note = {n1, n2}
    Expense = {}
    Todo = {}
    Claim = {}
    Task = {}
    Worker = {w1}
    MaxQueued = 1
    MaxFailures = 1
PROPERTY AgreeAtLast
CHECK_DEADLOCK FALSE
