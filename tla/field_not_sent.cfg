SPECIFICATION FairSpec
CONSTANTS
    Sizes <- OneSize
    MapLevels = 2
    OptLevels = 2
    FieldSteps = 1
    MaxAge = 0
    Handlers = {"Dynamize", "Cluster"}
    Nested = {}
PROPERTY FieldIsSent
CHECK_DEADLOCK FALSE
