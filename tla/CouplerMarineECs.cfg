SPECIFICATION Spec
CONSTANTS
    greenland = greenland
    antarctica = antarctica
    north = north
    south = south
    east = east
    west = west
    bay = bay
    coast = coast
    inland = inland
    gulf = gulf
    OCells <- MCOCells
    ACells <- MCACells
    AtmOf <- MCAtmOf
    HC <- MCHC
    Full <- MCFull
    BaseOcean <- MCOCells
    Nbrs <- MCNbrs
    Sheets = {greenland}
    FOceanP <- OpenBay
    Geoms <- MarineGeoms
    InitGeom <- MarineInit
    RawFocean = {0}
    MaxTime = 3
INVARIANT ECsKnown
