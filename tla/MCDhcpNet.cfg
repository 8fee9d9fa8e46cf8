SPECIFICATION NetSpec
CONSTANTS
    h1 = h1
    h2 = h2
    a0 = a0
    a1 = a1
    a2 = a2
    a3 = a3
    NoClid = NoClid
    NoName = NoName
    NoConfig = NoConfig
    NoAddr = NoAddr
    NoReply = NoReply
    NoConf = NoConf
    HW = {h1, h2}
    ClId = {}
    Names = {}
    Addr <- MCAddr
    Subnet <- MCSubnet
    Pool = {a2}
    Router = a1
    Configs = {}
    Ignored = {}
    HostsName <- NoHosts
    Authoritative = FALSE
    BootpDynamic = FALSE
    DhcpMax = 2
    LeaseTime = 2
    Grace = 1
    LeaseRetry = 1
    DeclineBackoff = 1
    Messages <- LinkMessages
    MaxTime = 1
    MaxCrashes = 0
    MaxWriteErrs = 0
    MaxReloads = 0
    Client = {h1, h2}
    Zero = a0
    TimeoutInitial = 4
    TimeoutMax = 8
    StartXid <- SameXid
    MaxIoErrs = 0
    MaxDups = 1
SYMMETRY Devices
INVARIANT AckedExclusive
CHECK_DEADLOCK FALSE
