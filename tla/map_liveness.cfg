SPECIFICATION FairSpec
CONSTANTS
    Sizes <- OneSize
    MapLevels = 2
    OptLevels = 2
    FieldSteps = 1
    MaxAge = 0
    Handlers = {"Classify", "Dynamize", "ColorMapChanged", "ObstacleDrawn", "AvoidOptionChanged", "Clear"}
    Nested = {}
INVARIANT
    ModelsAreLocked
PROPERTIES
    
    DrawingEnds
    MapIsShown
CHECK_DEADLOCK FALSE
