CONSTANTS
    Monitors = {m1}
    Threads = {p1, p2}
    MaxDay = 2
    MaxTasks = 2
    Calls = {"pause", "resume"}
    MaxCalls = 2
    MaxCrashes = 0
    NoMonitor = NoMonitor
    NoThread = NoThread
SPECIFICATION Spec
INVARIANTS
    OneTaskPerDay
