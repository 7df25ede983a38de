SPECIFICATION FairSpec
CONSTANTS
    Pages = {1, 2, 3}
    HostOfPage <- HostsOfThree
    DynamicPages = {1, 2, 3}
    Browsers = 1
    Requests = {1, 2, 3, 4}
    MaxWorkers = 1
    MaxPending = 2
    Processes = {1}
    Collectors = {"doubao", "kimi"}
    Managed = {}
    Apps = {}
    Slots = 1
    MaxRuns = 3
    MaxDeaths = 0
INVARIANTS
    PoolsHold

    
CHECK_DEADLOCK FALSE
