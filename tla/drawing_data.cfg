SPECIFICATION Spec
CONSTANTS
    Places = {p}
    Labels = {la, lb}
    Centers = {0}
    Zooms = {0}
    SpinZooms = {0}
    CanvasSizes = {1, 2}
    MaxSamples = 4
    MaxSaved = 1
    MaxObstacles = 1
VIEW DataView
SYMMETRY LabelSymmetry
INVARIANTS
    LabelsFollow
    SequencesFit
    NothingHidden
    StrokeIsFound
    DrawingInv
