CONSTANTS
    Monitors = {m1}
    Threads = {p1, p2}
    MaxDay = 2
    MaxTasks = 3
    Calls = {}
    MaxCalls = 0
    MaxCrashes = 1
    NoMonitor = NoMonitor
    NoThread = NoThread
SPECIFICATION FairSpec
PROPERTIES
    DueIsServed
