SPECIFICATION SharedSpec
CONSTANTS
    live = live   second = second   disabled = disabled   gone = gone
    old = old   new = new
    NoEntry = NoEntry   NoDomain = NoDomain
    Domain = {live, disabled, gone}
    Ip = {old, new}
    Configured = {live, disabled}
    Enabled = {live}
    Old <- MCOld
    Replies <- MCReplies
    Ttl = 1
    Grace = 1
    Mode = "soft_fail_closed_l3"
    FailClosedUnresolved = TRUE
    Runtimes = {service}
    Refreshers = {}
    Proxies = {proxy}
    Pruners = {}
    Begin = 0
    Faults = FALSE
    MaxTime = 3
    MaxEvents = 3
INVARIANT
    UpdatesKept
CHECK_DEADLOCK FALSE
