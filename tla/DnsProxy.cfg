SPECIFICATION FairSpec
CONSTANTS
    policy = policy   other = other
    primary = primary   fallback = fallback
    Name = {policy, other}
    PolicyName = {policy}
    Query <- MCQuery
    Ip = {i1}
    Upstreams <- MCUpstreams
    Setting <- MCSetting
    MaxQueries = 2
    MaxQueue = 1
    MaxCrashes = 1
INVARIANTS
    TypeOK
    CachedBeforeAnswered
    FailoverInOrder
PROPERTIES
    Serves
    ServedInTurn
    EveryQueryEnds
CHECK_DEADLOCK FALSE
