SPECIFICATION FairSpec
CONSTANTS
    Sizes = {0, 1, 3, 5}
    Bounds = {0, 1, 2, 4}
    MaxCount = 3
    MaxU64 = 10
    MaxSign = 2
    MaxFaults = 2
INVARIANTS PlanFitsTheFile FlagsAreStored NoRedundantPuts
PROPERTIES UploadEnds
CHECK_DEADLOCK FALSE
