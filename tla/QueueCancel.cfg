CONSTANTS
    Models = {m1}
    Rounds = 1
    Workers = {w1, w2}
    Tokens = {k1, k2}
    MaxTasks = 1
    NoWorker = NoWorker
    NoToken = NoToken
    EdgeInstants = FALSE
SPECIFICATION FairSpec
PROPERTIES
    CancelStops
