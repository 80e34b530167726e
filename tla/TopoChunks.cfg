CONSTANTS
    IM = 4
    JM = 8
    NSub = 2
    Unit = 3360
    LakeQuantum = 840
    ToLand <- MCToLand
    ToOcean <- MCToOcean
    Resets <- MCResets
    ECSkip = 2
    ChunkSize = 5
    GridOption = "ocean"
    MatrixNames <- MCMatrixNames
    LocalHcdefs <- MCLocalHcdefs
    None = None
    RawInputs <- MCRawChunks
    Geometries = {"none", "own", "half", "grown"}
    MaxCrashes = 1
SPECIFICATION SpecEC
INVARIANT TypeOK
INVARIANT ClassesSpanChunks
INVARIANT IceOnLand
PROPERTY ImplementsWhole
CHECK_DEADLOCK FALSE
