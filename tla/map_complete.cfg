SPECIFICATION Spec
CONSTANTS
    Sizes <- TwoSizes
    MapLevels = 2
    OptLevels = 2
    FieldSteps = 1
    MaxAge = 0
    Handlers = {"Classify", "ClassifyDirect", "Regression", "CanvasMoved", "ZoomChanged", "resizeEvent", "Erase", "ClusterIterate", "ClassifyCross", "Query"}
    Nested = {}
INVARIANTS
    UndisturbedMapIsComplete
    PictureInv
PROPERTY ImplementsPicture
CHECK_DEADLOCK FALSE
