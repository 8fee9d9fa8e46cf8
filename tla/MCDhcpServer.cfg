SPECIFICATION Spec
CONSTANTS
    h1 = h1
    h2 = h2
    h3 = h3
    c1 = c1
    n1 = n1
    n2 = n2
    NoClid = NoClid
    NoName = NoName
    NoConfig = NoConfig
    NoAddr = NoAddr
    NoReply = NoReply
    HW = {h1, h2, h3}
    ClId = {c1}
    Names = {n1, n2}
    Addr <- MCAddr
    Subnet <- MCSubnet
    Pool <- MCPool
    Router = 1
    Configs <- MCConfigs
    Ignored = {}
    HostsName <- MCHostsName
    Authoritative = TRUE
    BootpDynamic = TRUE
    DhcpMax = 2
    LeaseTime = 1
    Grace = 1
    LeaseRetry = 1
    DeclineBackoff = 1
    Messages <- FullMessages
    MaxTime = 3
    MaxCrashes = 0
    MaxWriteErrs = 0
    MaxReloads = 1
INVARIANTS TypeOK UniqueAddress UniqueClient UniqueName QuotaExact DnsCurrent
PROPERTY AuthNameKept
