SPECIFICATION FairSpec
CONSTANTS
    h1 = h1
    h2 = h2
    h3 = h3
    c1 = c1
    n1 = n1
    n2 = n2
    NoClid = NoClid
    NoName = NoName
    NoConfig = NoConfig
    NoAddr = NoAddr
    NoReply = NoReply
    HW = {h1, h2, h3}
    ClId = {c1}
    Names = {n1, n2}
    Addr <- MCAddr
    Subnet <- MCSubnet
    Pool <- MCPool
    Router = 1
    Configs = {}
    Ignored = {}
    HostsName <- NoHosts
    Authoritative = FALSE
    BootpDynamic = TRUE
    DhcpMax = 2
    LeaseTime = 1
    Grace = 1
    LeaseRetry = 1
    DeclineBackoff = 1
    Messages <- GrantMessages
    MaxTime = 4
    MaxCrashes = 2
    MaxWriteErrs = 2
    MaxReloads = 0
INVARIANTS FileCurrent GrantExclusive GrantBacked RetryArmed
PROPERTIES ExpiryHandled KeepsService
