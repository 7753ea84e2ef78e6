SPECIFICATION FairSpec
CONSTANTS
    wlo = wlo   wg = wg   amn = amn   tun = tun
    google = google   template = template   siteWg = siteWg   siteAmn = siteAmn
    amnStatic = amnStatic   amnSite = amnSite   tunStatic = tunStatic
    site = site
    a1 = a1   a2 = a2
    NoDomain = NoDomain   NoAddr = NoAddr
    Egress = {wlo, wg, amn, tun}
    Direct = {wlo}
    Wireguard = {wg}
    Tunnel = {amn, tun}
    Retired = {wg}
    Policy = {google, template, siteWg, siteAmn, amnStatic, amnSite, tunStatic}
    Domain = {site}
    Addable = {siteWg, siteAmn}
    Template = {template}
    Revived = {google}
    ByAmnezia = {amnStatic, amnSite, tunStatic}
    Addr = {a1, a2}
    EgressOf <- MCEgressOf
    DomainOf <- MCDomainOf
    Old <- MCOld
    Leases <- MCLeases
    Service = service
    Refreshers = {refresh}
    Editors = {edit}
    Validators = {validate}
    Reloaders = {reload}
    MaxEvents = 3
INVARIANTS
    TypeOK
    EditsKept
    WritersKeepValid
    RefreshEndsDrift
    PassIsTrue
PROPERTIES
    ServiceComesUp
CHECK_DEADLOCK FALSE
