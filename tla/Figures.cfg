CONSTANTS
    Shapes <- ScoredShapes
    RoundsOf <- ScoredRounds
    Links = {"l1", "l2"}
    Policies <- ScoredPolicies
SPECIFICATION SuiteSpec
INVARIANTS
    TypesOK
    ScoresFit
    FiguresFit

    
CHECK_DEADLOCK FALSE
