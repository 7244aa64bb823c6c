SPECIFICATION Spec
CONSTANTS
    Value <- FourRewards
    Genes <- TwoGenes
    PopSize = 5
    Survivors <- AllSurvive
    Reach = 1
    Methods = {"random", "gradient", "power", "adaptive", "donut", "GA"}
    Targets <- OneTarget
    Origin <- CornerPixel
    None = None
    K = 2
    Unmoving = 1
    MaxAge = 2
    StopValue = 3
    MaxVisited = 5
INVARIANTS
    SearchTypes
    RecordIsBest
    EliteIsBestVisited
    
PROPERTY FittestIsReported
CHECK_DEADLOCK FALSE
