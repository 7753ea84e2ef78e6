SPECIFICATION RoutingSpec
CONSTANTS
    first = first   second = second   old = old   new = new   other = other
    NoEntry = NoEntry   NoDomain = NoDomain
    Domain = {first, second}
    Ip = {old, new, other}
    Configured = {first, second}
    Enabled = {first, second}
    Old <- MCOld
    Replies <- MCReplies
    Ttl = 1
    Grace = 0
    Mode = "allow_stale"
    FailClosedUnresolved = TRUE
    Runtimes = {service}
    Service = service
    Refreshers = {}
    Proxies = {proxy}
    Pruners = {}
    Faults = TRUE
    MaxTime = 2
    Begin = 1
    MaxEvents = 2
INVARIANTS
    RoutingTypeOK
    MarkedAreRecent
    GivenStays
PROPERTIES
    RepliesGetMarked
    ReconcileUsesGiven
CHECK_DEADLOCK FALSE
