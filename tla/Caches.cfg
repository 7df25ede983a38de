CONSTANTS
    Keys = {"k1", "k2"}
    FewKeys = {"k1"}
    Readers = {"r1", "r2"}
    FewReaders = {"r1"}
    Validators = {"t1"}
    MaxEntries = 1
    NewDay = 1
    MaxVersion = 2
    FewVersions = 1
    MaxData = 3
    MaxRestarts = 1
    MaxFails = 1
SPECIFICATION FairSpec
INVARIANTS
    TypesOK
    
PROPERTIES
    OneBuildOnward
    
CHECK_DEADLOCK FALSE
