CONSTANTS
    Monitors = {m1}
    Threads = {p1, p2}
    MaxDay = 2
    MaxTasks = 3
    Calls = {"pause", "resume", "rerun", "update", "clear"}
    MaxCalls = 1
    MaxCrashes = 0
    NoMonitor = NoMonitor
    NoThread = NoThread
SPECIFICATION Spec
INVARIANTS
    TypeOK
    RunsNameTheirTask
PROPERTIES
    RecordedRunStands
