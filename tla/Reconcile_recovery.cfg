SPECIFICATION FairSpec
CONSTANTS
    wg = wg   eth = eth
    full = full   reordered = reordered   small = small   brief = brief
    q1 = q1   q2 = q2   q3 = q3
    d1 = d1   d2 = d2   d3 = d3
    a1 = a1   a2 = a2
    NoConfig = NoConfig   NoAddr = NoAddr   Dropped = Dropped   NoEgress = NoEgress
    Egress = {wg, eth}
    Direct = {eth}
    Policy = {q1, q2, q3}
    Dest = {d1, d2, d3}
    Ip = {a1, a2}
    Leases <- MCLeases
    Config = {brief, reordered}
    Listed <- MCListed
    Enabled <- MCEnabled
    Configured <- MCConfigured
    AutoRefresh <- MCAutoRefresh
    FailClosed <- MCFailClosed
    Policies <- MCPolicies
    EgressOf <- MCEgressOf
    Yields <- MCYields
    Shows <- MCShows
    WgMark <- MCTunnelMark
    EthMark <- MCDirectMark
    Service = service
    Commands = {command}
    Cleaners = {}
    Serialized = FALSE
    DeletesFail = FALSE
    MaxEvents = 3
INVARIANTS
    MarkHasRule
PROPERTIES
    Recovers
CHECK_DEADLOCK FALSE
