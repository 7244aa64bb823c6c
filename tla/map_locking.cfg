SPECIFICATION Spec
CONSTANTS
    Sizes <- OneSize
    MapLevels = 2
    OptLevels = 2
    FieldSteps = 1
    MaxAge = 0
    Handlers = {"Classify", "ClassifyFailed", "Maximize", "Compare", "Navigation", "resizeEvent"}
    Nested = {"Navigation", "resizeEvent"}
INVARIANTS
    TypeOK
    ModelsAreLocked
    NoDangling
    LockInv
CHECK_DEADLOCK FALSE
