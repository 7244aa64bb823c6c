SPECIFICATION FairSpec
CONSTANTS
    Sizes <- TwoSizes
    MapLevels = 2
    OptLevels = 2
    FieldSteps = 1
    MaxAge = 0
    Handlers = {"Classify", "resizeEvent"}
    Nested = {}
PROPERTY MapIsSent
CHECK_DEADLOCK FALSE
