CONSTANTS
    Models = {m1}
    Rounds = 1
    Workers = {w1, w2}
    Tokens = {k1, k2}
    MaxTasks = 2
    NoWorker = NoWorker
    NoToken = NoToken
    EdgeInstants = FALSE
SPECIFICATION Spec
SYMMETRY QueueSymmetry
INVARIANTS
    TypeOK
    OneRunningTask
    TokenFencesTask
PROPERTIES
    CancelWins
    ServesByPriority
    ImplementsLease
    ImplementsLife
