SPECIFICATION Spec
CONSTANTS
    greenland = greenland
    antarctica = antarctica
    north = north
    south = south
    east = east
    west = west
    bay = bay
    coast = coast
    inland = inland
    gulf = gulf
    OCells <- MCOCells
    ACells <- MCACells
    AtmOf <- MCAtmOf
    HC <- MCHC
    Full <- MCFull
    BaseOcean <- ShelfOcean
    Nbrs <- MCNbrs
    Sheets = {greenland}
    FOceanP <- ShelfFOcean
    Geoms <- FixedGeoms
    InitGeom <- FixedInit
    RawFocean = {0, 1, 2}
    MaxTime = 4
INVARIANTS
    TypeOK
    GcmViewCurrent
    ECsKnownLater
    ClockAgrees
PROPERTY TransitionSpansCoupling
