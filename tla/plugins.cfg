SPECIFICATION InputSpec
CONSTANTS
    Plugins = {"RandomEmitter", "WebImport", "PCAFaces"}
    Files = {fa, fb}
    BadFiles = {fc}
    None = None
    Draws = {0, 1}
    Axes = {1, 2}
    MaxDialogs = 3
    MaxLabel = 1
    MaxFaces = 3
    MaxFlags = 4
INVARIANTS
    Types
    PluginsFollowMenu
    
    FacesInStep
PROPERTY ImportsWereChosen
CHECK_DEADLOCK FALSE
