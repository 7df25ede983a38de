CONSTANTS
    Requests = {"q1", "q2"}
    Files = {"f1"}
    StoredCaptures = {"good", "cut", "empty"}
    SourceUrls = {"u1", "u2"}
    SourceDays = {"d1", "d2"}
    MaxCommits = 3
    Pids = {1, 2}
    LockRuns = 3
    Savers = {"s1", "s2"}
    Captures = {"c1", "c2"}
    Recommends = {"c1"}
    MaxRefs = 1
    MaxRuns = 2
    MaxCuts = 1
    LegacySavers = {"s1"}
    LegacyRuns = 3
    Workers = {"w1", "w2"}
    Urls = {1, 2}
    Models <- TwoModels
    ModelOf <- TwoModels
    NewUrls = {1}
    BatchSize = 2
    MaxVocab = 1
    MaxFails = 1
    Rounds = {1, 2}
    Texts = {"a"}
    Brands = {"x", "y"}
    MaxEpoch = 2
    EditPages = {"p1", "p2"}
    EditNow = 1
    MaxEdits = 2
    VisitPages = {"p1"}
    Visitors = {"v1"}
    VisitNow = 2
    VisitEdits = 1
    People = {"a1"}
    Browsers = {"b1"}
    Forms = {"f1", "f2"}
    OneForm = {"f1"}
    MaxDay = 2
    MaxWrites = 2
    SessionTasks = 1
    SessionLimits = {1}
    QuotaTasks = 3
    QuotaLimits = {1, 2}
    Rows = {1, 2, 3}
    AnswerOf <- SomeAnswers
    ModelBatch = 2
    MaxRetries = 2
    Hour = 2
    HourlyCalls = 1
    MaxResets = 1
    MaxCrashes = 1
SPECIFICATION SuiteSpec
INVARIANTS
    TypesOK
    
    
    
    LimitsHeld
PROPERTIES
    HistoryKept
CHECK_DEADLOCK FALSE
