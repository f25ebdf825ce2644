SPECIFICATION ReviewSpec
CONSTANTS
    same1 = same1
    same2 = same2
    other = other
    s1 = s1
    Claim = {same1, same2, other}
    Classes <- MCClasses
    Wording <- MCWording
    Topic <- MCTopic
    Negative <- MCNegative
    Suspected = {}
    RawInput = {s1}
    Context <- MCContext
    Worker = {w1}
    Resolver = {r1}
    MinSources = 2
    MinSpan = 1
    CandidateAge = 0
    EstablishedAge = 0
    LastDay = 1
    MaxIncidents = 1
    Item = {i1, i2}
    Health = {h1}
    Sender = {w2, w3}
    MaxRuns = 2
    Cooldown = 1
    DayLength = 2
    MaxTick = 1
    MaxNotices = 2
SYMMETRY Symmetry
CONSTRAINT ItemsOrHealth
INVARIANTS
    VerdictsAreFinal
    OneCandidateReviewed
    ConfirmedByTheOwner
    RepeatsOverlap
    OwnerLearns
CHECK_DEADLOCK FALSE
