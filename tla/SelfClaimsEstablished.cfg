SPECIFICATION FairSpec
CONSTANTS
    a = a
    b = b
    n = n
    s1 = s1
    Claim = {a}
    Classes <- MCClasses
    Wording <- MCWording
    Topic <- MCTopic
    Negative <- MCNegative
    Suspected = {}
    RawInput = {s1}
    Context <- MCContext
    Worker = {w1}
    Resolver = {}
    MinSources = 2
    MinSpan = 1
    CandidateAge = 1
    EstablishedAge = 1
    LastDay = 3
    MaxIncidents = 0
PROPERTY EstablishedBecomeHistorical
CHECK_DEADLOCK FALSE
