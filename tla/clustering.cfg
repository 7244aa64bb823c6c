SPECIFICATION Spec
CONSTANTS
    Grid <- ThreePlaces
    MaxSamples = 4
    Clusters = {1, 2, 3}
    Norms = {0, 1, 2}
    Updates = 2
    Extents = {1, 2}
    Counts = {1, 2}
INVARIANTS
    ClusterTypes
    MeansAreAverages
    PointsAreNearest
    ClustersHaveQuality
 
CHECK_DEADLOCK FALSE
