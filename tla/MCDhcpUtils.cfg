SPECIFICATION FairUtilsSpec
CONSTANTS
    Interfaces = {"wlan0"}
    P2p = {}
    StartNaps = 1
    ResultNaps = 2
    StopNaps = 1
    Width = 3
INVARIANTS FreshStart StoppedStays PrefixExact
PROPERTY CallReturns
