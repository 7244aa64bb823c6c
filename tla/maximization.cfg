SPECIFICATION FairSpec
CONSTANTS
    Sizes <- OneSize
    MapLevels = 2
    OptLevels = 2
    FieldSteps = 1
    MaxAge = 2
    Handlers = {"Maximize", "MaximizeContinue", "Cluster"}
    Nested = {}
PROPERTIES
    MaximizationConverges
CHECK_DEADLOCK FALSE
