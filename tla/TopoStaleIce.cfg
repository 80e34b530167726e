CONSTANTS
    IM = 4
    JM = 8
    NSub = 2
    Unit = 3360
    LakeQuantum = 840
    ToLand <- MCToLand
    ToOcean <- MCToOcean
    Resets <- MCResets
    ECSkip = 2
    ChunkSize = 8
    GridOption = "ocean"
    MatrixNames <- MCMatrixNames
    LocalHcdefs <- MCLocalHcdefs
    None = None
    RawInputs <- MCRawInputs
    Geometries = {"none", "own", "half", "grown"}
    MaxCrashes = 0
SPECIFICATION Spec
CHECK_DEADLOCK FALSE
INVARIANT RoundedIceAdjusted
