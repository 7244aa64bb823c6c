SPECIFICATION Spec
CONSTANTS
    Places = {p, q}
    Labels = {la}
    Centers = {0, 1}
    Zooms = {0, 3}
    SpinZooms = {0}
    CanvasSizes = {s}
    MaxSamples = 2
    MaxSaved = 0
    MaxObstacles = 0
SYMMETRY ViewSymmetry
INVARIANTS
    DrawingTypeOK
    
    
    
