CONSTANTS
    Models = {m1, m2}
    Rounds = 1
    Workers = {w1}
    Tokens = {k1, k2}
    MaxTasks = 2
    NoWorker = NoWorker
    NoToken = NoToken
    EdgeInstants = TRUE
SPECIFICATION Spec
SYMMETRY QueueSymmetry
INVARIANTS
    StepsCounted
    CompletedDiagnosisIsWhole
    YieldIsAPause
PROPERTIES
    YieldReturnsToQueue
