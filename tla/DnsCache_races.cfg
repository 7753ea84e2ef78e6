SPECIFICATION SharedSpec
CONSTANTS
    live = live   second = second   disabled = disabled   gone = gone
    old = old   new = new
    NoEntry = NoEntry   NoDomain = NoDomain
    Domain = {live, second, disabled, gone}
    Ip = {old, new}
    Configured = {live, second, disabled}
    Enabled = {live, second}
    Old <- MCOld
    Replies <- MCReplies
    Ttl = 1
    Grace = 1
    Mode = "soft_fail_closed_l3"
    FailClosedUnresolved = TRUE
    Runtimes = {}
    Refreshers = {refresh}
    Proxies = {proxy}
    Pruners = {prune}
    Begin = 0
    Faults = TRUE
    MaxTime = 1
    MaxEvents = 3
INVARIANT
    OnlyRacesUndo
PROPERTY
    SavesAreAtomic
CHECK_DEADLOCK FALSE
