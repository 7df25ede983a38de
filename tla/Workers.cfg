CONSTANTS
    LoopModels = {"m1"}
    LoopRounds = 2
    LoopAttempts = 2
    LoopAnswers = 4
    LoopOps = 5
    MonitorModels = {"m1", "m2"}
    MonitorRounds = 1
    MonitorAttempts = 1
    MonitorAnswers = 2
    MonitorOps = 1
    StaleRounds = 3
    StaleOps = 3
    Interval = 4
    Lease = 2
    MaxTime = 12
    MaxRestarts = 2
    LoginModels = {"deepseek", "kimi", "doubao"}
    DirectModels = {"deepseek"}
    SharedModels = {"kimi"}
    Workers = {"w1", "w2"}
    MaxLogins = 2
    MaxTokens = 3
    Selected <- TwoModels
    Schedule = 2
    Uploads = 3
    MaxClaims = 2
    Processes = {1, 2}
    HostModels = {"doubao"}
    Managed = {"doubao"}
    Apps = {"doubao"}
    HostSlots = 1
    MaxRuns = 2
    MaxDeaths = 1
    Questions <- TwoQuestions
    Chunk = 2
    BurstAttempts = 2
    MaxTasks = 2
    MaxAsked = 6
    BatchRounds = {1, 2}
    Replacements = 2
    LoneRounds = {1}
    ChromeModels = {"doubao", "wenxin"}
    ChromeRounds = 2
    ChromeAttempts = 1
    ChromeEnds = 1
    ChromeOps = 1
    BrowserModels = {"doubao"}
    BrowserRounds = 1
    BrowserAttempts = 2
    BrowserEnds = 2
    BrowserOps = 1
    MaxOrders = 3
    PatientStarts = {"s1", "s2", "s3"}
    HastyStarts = {"s1", "s2"}
    JobRounds = 2
    MaxRecords = 3
    MaxFaults = 1
    MaxCrashes = 1
SPECIFICATION SuiteSpec
INVARIANTS
    TypesOK
    DeletedStaysDeleted
    
    AskedOnce
    
    
PROPERTIES
    AttemptsSpaced
    
CHECK_DEADLOCK FALSE
