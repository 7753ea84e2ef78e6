SPECIFICATION SharedSpec
CONSTANTS
    live = live   second = second   disabled = disabled   gone = gone
    old = old   new = new
    NoEntry = NoEntry   NoDomain = NoDomain
    Domain = {live, disabled, gone}
    Ip = {old, new}
    Configured = {live, disabled}
    Enabled = {live}
    Old <- MCOld
    Replies <- MCReplies
    Ttl = 1
    Grace = 1
    Mode = "allow_stale"
    FailClosedUnresolved = TRUE
    Runtimes = {service}
    Refreshers = {refresh}
    Proxies = {proxy}
    Pruners = {prune}
    Begin = 0
    Faults = TRUE
    MaxTime = 3
    MaxEvents = 3
INVARIANTS
    TypeOK
    AnswersAreRecent
CHECK_DEADLOCK FALSE
