SPECIFICATION CompareSpec
CONSTANTS
    Params <- ParamsOfKind
    MaxEntries = 2
    Folds = 2
    Held = TRUE
    Plugins = {"RandomEmitter"}
    Files = {}
    BadFiles = {}
    None = None
    Draws = {0}
    Axes = {}
    MaxDialogs = 0
    MaxLabel = 0
    MaxFaces = 0
    MaxFlags = 0
INVARIANTS
    ListInStep
    FoldsShareData
    PictureIsCurrent
PROPERTY ResultsFollowList
CHECK_DEADLOCK FALSE
